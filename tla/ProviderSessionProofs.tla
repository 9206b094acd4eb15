------------------------ MODULE ProviderSessionProofs ------------------------
(***************************************************************************)
(* Promises of the provider session, for any conversations, turns,         *)
(* connections and requests, and any limits. Control stays with owned      *)
(* conversations because what an operation is about was owned when it was  *)
(* checked, and ownership is never lost. Approvals stay on their           *)
(* connection because the end of its output is the last thing in the       *)
(* channel. They are answered once because the requests in the channel are *)
(* new to everybody, and a marked one stays marked. They are offered while *)
(* they are open because whatever closes one is behind it in the channel.  *)
(* The snapshot shows the running turn because the channel still holds the *)
(* last event of every turn it does not show yet, and set_turn looks into  *)
(* the window before it shows an acknowledged one.                         *)
(***************************************************************************)
EXTENDS ProviderSession, SequenceTheorems, FiniteSetTheorems,
        WellFoundedInduction, TLAPS

-----------------------------------------------------------------------------
(* What is written and queued, and what an operation is about.             *)
Typed ==
  /\ queue \in Seq(Events) /\ commands \in Seq(Commands)
  /\ running \in [Threads -> Turns \cup {NoTurn}]
  /\ turns \in 0..MaxTurn /\ requests \in 0..MaxRequest
  /\ conn \in 0..MaxConnection
  /\ authority \subseteq Threads /\ managed \subseteq Threads
  /\ pending \subseteq Pending
  /\ pc # "idle" => op.thread \in Threads /\ op.turn \in Turns \cup {NoTurn}
  /\ pc \in {"replying", "marked"} => op.request \in Pending
  /\ \A t \in asked : t.native \in Natives
  /\ \A i \in DOMAIN queue : queue[i].method = "request" =>
       queue[i].ref \in Natives /\ queue[i].thread \in Threads /\ queue[i].turn \in Turns
  /\ alive \in BOOLEAN /\ connected \in BOOLEAN
  /\ alive \/ connected \/ queue # <<>> => conn # 0

(* Every command that request and send_value write is well typed.          *)
LEMMA CommandTyped ==
  ASSUME NEW kind \in {"thread/start", "thread/resume", "turn/start", "turn/steer",
                       "turn/interrupt", "reply"},
         NEW t \in Threads, NEW turn \in Turns \cup {NoTurn}, NEW ref \in Natives \cup {0}
  PROVE  Command(kind, t, turn, ref) \in Commands
  BY DEF Command, Commands

(* Every event of the provider is well typed.                              *)
LEMMA EventTyped ==
  ASSUME NEW method \in {"spawn", "request", "resolved", "turn/started",
                         "turn/completed", "delta", "eof"},
         NEW t \in Threads \cup {NoThread}, NEW turn \in Turns \cup {NoTurn},
         NEW ref \in Natives \cup {0} \cup Children
  PROVE  /\ Event(method, t, turn, ref) \in Events
         /\ Event(method, t, turn, ref).method = method
         /\ Event(method, t, turn, ref).thread = t
         /\ Event(method, t, turn, ref).turn = turn
         /\ Event(method, t, turn, ref).ref = ref
  BY DEF Event, Events

(* Giving up the waiter of a command changes neither what it asks nor of   *)
(* whom.                                                                   *)
LEMMA AbandonedTyped ==
  ASSUME commands \in Seq(Commands)
  PROVE  /\ Abandoned \in Seq(Commands) /\ DOMAIN Abandoned = DOMAIN commands
         /\ \A i \in DOMAIN commands : /\ Abandoned[i].thread = commands[i].thread
                                       /\ Abandoned[i].kind = commands[i].kind
<1>1. ASSUME NEW command \in Commands
      PROVE  /\ [command EXCEPT !.awaited = FALSE] \in Commands
             /\ [command EXCEPT !.awaited = FALSE].thread = command.thread
             /\ [command EXCEPT !.awaited = FALSE].kind = command.kind
  <2>1. [command EXCEPT !.awaited = FALSE] \in Commands
    BY DEF Commands
  <2>2. "awaited" # "kind" /\ "awaited" # "thread"
    OBVIOUS
  <2>3. DOMAIN command = {"kind", "thread", "turn", "ref", "awaited"}
    BY DEF Commands
  <2>4. QED
    BY <2>1, <2>2, <2>3
<1>2. DOMAIN commands = 1..Len(commands) /\ Len(commands) \in Nat
  OBVIOUS
<1>3. Abandoned \in [1..Len(commands) -> Commands]
  BY <1>1, <1>2 DEF Abandoned
<1>4. Abandoned \in Seq(Commands)
  BY <1>2, <1>3, SeqDef
<1>5. \A i \in DOMAIN commands : commands[i] \in Commands
  BY <1>2
<1>6. QED
  BY <1>1, <1>4, <1>5 DEF Abandoned

(* Writing a command, and nothing else, keeps types.                       *)
LEMMA WriteTyped ==
  ASSUME Typed, NEW command \in Commands, Write(command)
  PROVE  /\ commands' \in Seq(Commands) /\ conn' \in 0..MaxConnection
         /\ alive' \in BOOLEAN /\ connected' \in BOOLEAN
         /\ alive' \/ connected' \/ queue' # <<>> => conn' # 0
         /\ commands' \in {commands, Append(commands, command)}
<1>1. commands' \in {commands, Append(commands, command)}
  BY DEF Write
<1>2. commands' \in Seq(Commands)
  BY <1>1 DEF Typed
<1>3. CASE Reuse
  BY <1>1, <1>2, <1>3 DEF Typed, Reuse, Write
<1>4. CASE Connect
  <2>1. conn' \in 0..MaxConnection
    BY <1>4, BoundsAssumption DEF Typed, Connect
  <2>2. alive' \in BOOLEAN /\ connected' \in BOOLEAN
    BY <1>4, Zenon DEF Connect
  <2>3. conn' # 0
    BY <1>4 DEF Typed, Connect
  <2>4. QED
    BY <1>1, <1>2, <2>1, <2>2, <2>3
<1>5. QED
  BY <1>3, <1>4 DEF Write

(* A queued event, which asks for nothing or is a request of its thread.   *)
LEMMA Queued ==
  ASSUME Typed, NEW event \in Events,
         event.method = "request" =>
           event.ref \in Natives /\ event.thread \in Threads /\ event.turn \in Turns
  PROVE  /\ Append(queue, event) \in Seq(Events)
         /\ \A i \in DOMAIN Append(queue, event) : Append(queue, event)[i].method = "request" =>
              /\ Append(queue, event)[i].ref \in Natives
              /\ Append(queue, event)[i].thread \in Threads
              /\ Append(queue, event)[i].turn \in Turns
  BY DEF Typed

(* MarkSent changes no more than the mark of the requests it is about.     *)
LEMMA MarkedTyped ==
  ASSUME Typed, MarkSent
  PROVE  /\ pending' \subseteq Pending
         /\ \A p \in pending' : \E q \in pending :
              /\ p.conn = q.conn /\ p.native = q.native /\ p.thread = q.thread
              /\ p.turn = q.turn /\ (q.sent => p.sent)
              /\ (q.conn = op.request.conn /\ q.native = op.request.native => p.sent)
<1>1. ASSUME NEW q \in pending
      PROVE  LET p == [q EXCEPT !.sent = TRUE]
             IN p \in Pending /\ p.conn = q.conn /\ p.native = q.native
                /\ p.thread = q.thread /\ p.turn = q.turn /\ p.sent
  <2>1. q \in Pending
    BY DEF Typed
  <2>2. [q EXCEPT !.sent = TRUE] \in Pending
    BY <2>1 DEF Pending
  <2>3. DOMAIN q = {"conn", "native", "thread", "turn", "sent"}
    BY <2>1 DEF Pending
  <2>4. QED
    BY <2>2, <2>3
<1>2. ASSUME NEW p \in pending'
      PROVE  \E q \in pending :
               p = IF q.conn = op.request.conn /\ q.native = op.request.native
                   THEN [q EXCEPT !.sent = TRUE] ELSE q
  BY <1>2 DEF MarkSent
<1>3. ASSUME NEW p \in pending'
      PROVE  /\ p \in Pending
             /\ \E q \in pending :
                  /\ p.conn = q.conn /\ p.native = q.native /\ p.thread = q.thread
                  /\ p.turn = q.turn /\ (q.sent => p.sent)
                  /\ (q.conn = op.request.conn /\ q.native = op.request.native => p.sent)
  <2>1. PICK q \in pending :
          p = IF q.conn = op.request.conn /\ q.native = op.request.native
              THEN [q EXCEPT !.sent = TRUE] ELSE q
    BY <1>2
  <2>2. CASE q.conn = op.request.conn /\ q.native = op.request.native
    BY <1>1, <2>1, <2>2
  <2>3. CASE ~(q.conn = op.request.conn /\ q.native = op.request.native)
    BY <2>1, <2>3 DEF Typed
  <2>4. QED
    BY <2>2, <2>3
<1>4. QED
  BY <1>3

(* Applying an event adds at most the request that it is, new and unsent.  *)
LEMMA EventApplied ==
  ASSUME Typed, ApplyEvent
  PROVE  /\ pending' \subseteq Pending
         /\ queue # <<>>
         /\ \A p \in pending' \ pending :
              /\ Head(queue).method = "request" /\ p.native = Head(queue).ref
              /\ p.conn = conn /\ ~p.sent
<1> DEFINE event == Head(queue)
<1>1. queue # <<>> /\ event \in Events
  BY DEF ApplyEvent, Typed
<1>2. CASE event.method = "request"
  <2> DEFINE new == [conn |-> conn, native |-> event.ref, thread |-> event.thread,
                     turn |-> event.turn, sent |-> FALSE]
  <2>1. pending' \subseteq pending \cup {new}
    BY <1>2 DEF ApplyEvent, ApplyRequest
  <2>2. conn \in Connections /\ event.ref \in Natives /\ event.thread \in Threads /\ event.turn \in Turns
    BY <1>1, <1>2 DEF Typed, Connections
  <2>3. new \in Pending
    BY <2>2 DEF Pending
  <2>4. new.native = event.ref /\ new.conn = conn /\ ~new.sent
    OBVIOUS
  <2>5. QED
    BY <1>1, <1>2, <2>1, <2>3, <2>4 DEF Typed
<1>3. CASE event.method # "request"
  <2>1. pending' \subseteq pending
    BY <1>3 DEF ApplyEvent, ApplySpawn, ApplyResolved, ApplyStarted, ApplyCompleted, ApplyOther
  <2>2. QED
    BY <1>1, <2>1 DEF Typed
<1>4. QED
  BY <1>2, <1>3

(* Each step keeps types.                                                  *)
LEMMA TypedStep == Typed /\ [Next]_vars => Typed'
<1> SUFFICES ASSUME Typed, [Next]_vars PROVE Typed'
  OBVIOUS
<1> USE DEF Typed, NoTurn
<1>1. ASSUME NEW t \in Mains, BeginStart(t) PROVE Typed'
  <2>1. t \in Threads /\ op'.thread = t /\ op'.turn = NoTurn /\ pc' = "starting"
    BY <1>1 DEF BeginStart, Threads, Await
  <2>2. Command("thread/start", t, NoTurn, 0) \in Commands
    BY <2>1, CommandTyped
  <2>3. QED
    BY <1>1, <2>1, <2>2, WriteTyped DEF BeginStart, Write
<1>2. ASSUME NEW t \in Threads, BeginReconnect(t) PROVE Typed'
  <2>1. op'.thread = t /\ op'.turn = NoTurn /\ pc' = "resuming"
    BY <1>2 DEF BeginReconnect, Await
  <2>2. Command("thread/resume", t, NoTurn, 0) \in Commands
    BY CommandTyped
  <2>3. QED
    BY <1>2, <2>1, <2>2, WriteTyped DEF BeginReconnect, Write
<1>3. ASSUME NEW t \in Threads, NEW turn \in Turns \cup {NoTurn}, NEW kind, BeginControlled(kind, t, turn)
      PROVE  Typed'
  BY <1>3 DEF BeginControlled, snapshotVars, providerVars
<1>4. ASSUME NEW request \in pending, BeginReply(request) PROVE Typed'
  <2>1. request \in Pending /\ request.thread \in Threads /\ request.turn \in Turns
    BY DEF Pending
  <2>2. op'.thread = request.thread /\ op'.turn = request.turn /\ op'.request = request
    BY <1>4 DEF BeginReply
  <2>3. QED
    BY <1>4, <2>1, <2>2 DEF BeginReply, snapshotVars, providerVars
<1>5. CASE RegisterThread \/ SetTurn \/ InterruptConfirmed \/ Resumed
  BY <1>5 DEF RegisterThread, SetTurn, InterruptConfirmed, Resumed, Done, snapshotVars, providerVars
<1>6. CASE StartTurn
  <2>1. op.thread \in Threads /\ op.turn \in Turns \cup {NoTurn} /\ pc' = "turning"
    BY <1>6 DEF StartTurn, Await
  <2>2. Command("turn/start", op.thread, NoTurn, 0) \in Commands
    BY <2>1, CommandTyped
  <2>3. commands' \in Seq(Commands)
    BY <1>6, <2>2 DEF StartTurn
  <2>4. QED
    BY <1>6, <2>1, <2>3 DEF StartTurn, snapshotVars
<1>7. CASE WriteSend
  <2>1. op.thread \in Threads /\ op.turn \in Turns \cup {NoTurn} /\ pc' = "turning"
    BY <1>7 DEF WriteSend, Await
  <2>2. Command(IF op.turn = NoTurn THEN "turn/start" ELSE "turn/steer", op.thread, op.turn, 0)
          \in Commands
    BY <2>1, CommandTyped
  <2>3. QED
    BY <1>7, <2>1, <2>2, WriteTyped DEF WriteSend, Write
<1>8. CASE TurnChanged
  BY <1>8, BoundsAssumption DEF TurnChanged, Connect, Done
<1>9. CASE WriteInterrupt
  <2>1. op.thread \in Threads /\ op.turn \in Turns \cup {NoTurn} /\ pc' = "confirming"
    BY <1>9 DEF WriteInterrupt, Await
  <2>2. Command("turn/interrupt", op.thread, op.turn, 0) \in Commands
    BY <2>1, CommandTyped
  <2>3. QED
    BY <1>9, <2>1, <2>2, WriteTyped DEF WriteInterrupt, Write
<1>10. CASE MarkSent
  <2>1. pending' \subseteq Pending
    BY <1>10, MarkedTyped DEF MarkSent
  <2>2. QED
    BY <1>10, <2>1 DEF MarkSent, providerVars
<1>11. CASE WriteReply
  <2>1. op.thread \in Threads /\ op.turn \in Turns \cup {NoTurn} /\ op.request.native \in Natives
    BY <1>11 DEF WriteReply, Pending
  <2>2. Command("reply", op.thread, op.turn, op.request.native) \in Commands
    BY <2>1, CommandTyped
  <2>3. QED
    BY <1>11, <2>2, WriteTyped DEF WriteReply, Write, Done
<1>12. CASE GiveUp
  BY <1>12, AbandonedTyped DEF GiveUp, Done, snapshotVars
<1>13. CASE ApplyDisconnect
  <2>1. queue' \in Seq(Events)
    BY <1>13 DEF ApplyDisconnect
  <2>2. \A i \in DOMAIN queue' : i + 1 \in DOMAIN queue /\ queue'[i] = queue[i + 1]
    BY <1>13 DEF ApplyDisconnect
  <2>3. connected' \in BOOLEAN
    BY <1>13, Zenon DEF ApplyDisconnect
  <2>4. QED
    BY <1>13, <2>1, <2>2, <2>3 DEF ApplyDisconnect, handlerVars, providerVars
<1>14. CASE ApplyEvent
  <2>1. queue' \in Seq(Events)
    BY <1>14 DEF ApplyEvent
  <2>2. \A i \in DOMAIN queue' : i + 1 \in DOMAIN queue /\ queue'[i] = queue[i + 1]
    BY <1>14 DEF ApplyEvent
  <2>3. pending' \subseteq Pending
    BY <1>14, EventApplied
  <2>4. QED
    BY <1>14, <2>1, <2>2, <2>3 DEF ApplyEvent, handlerVars, providerVars
<1>15. ASSUME NEW command \in ToSet(commands), Read(command) PROVE command \in Commands /\ commands' \in Seq(Commands)
  BY <1>15 DEF Read, ToSet
<1>16. CASE Serve
  <2>1. PICK command \in ToSet(commands) :
          /\ Read(command)
          /\ \/ AcceptThread(command) \/ AcceptTurn(command) \/ AcceptSteer(command)
             \/ AcceptReply(command) \/ RefuseCommand(command)
    BY <1>16 DEF Serve
  <2>2. command \in Commands /\ commands' \in Seq(Commands)
    BY <1>15, <2>1
  <2>3. CASE AcceptThread(command) \/ AcceptSteer(command) \/ RefuseCommand(command)
    BY <2>1, <2>2, <2>3 DEF AcceptThread, AcceptSteer, RefuseCommand, Read, snapshotVars
  <2>4. CASE AcceptTurn(command)
    <3>1. command.thread \in Threads /\ turns + 1 \in Turns /\ turns' \in 0..MaxTurn
      BY <2>2, <2>4, BoundsAssumption DEF AcceptTurn, Commands, Turns
    <3>2. running' \in [Threads -> Turns \cup {NoTurn}]
      BY <3>1, <2>4 DEF AcceptTurn
    <3>3. Event("turn/started", command.thread, turns + 1, 0) \in Events
          /\ Event("turn/started", command.thread, turns + 1, 0).method # "request"
      BY <3>1, EventTyped
    <3>4. QED
      BY <2>1, <2>2, <2>4, <3>1, <3>2, <3>3, Queued DEF AcceptTurn, Read, snapshotVars
  <2>5. CASE AcceptReply(command)
    <3>1. command.thread \in Threads /\ command.ref \in Natives \cup {0}
      BY <2>2 DEF Commands
    <3>2. Event("resolved", command.thread, NoTurn, command.ref) \in Events
          /\ Event("resolved", command.thread, NoTurn, command.ref).method # "request"
      BY <3>1, EventTyped
    <3>3. QED
      BY <2>1, <2>2, <2>5, <3>2, Queued DEF AcceptReply, Read, snapshotVars
  <2>6. QED
    BY <2>1, <2>3, <2>4, <2>5
<1>17. CASE Die
  <2>1. Event("eof", NoThread, NoTurn, 0) \in Events
        /\ Event("eof", NoThread, NoTurn, 0).method # "request"
    BY EventTyped
  <2>2. alive' \in BOOLEAN /\ running' \in [Threads -> Turns \cup {NoTurn}]
    BY <1>17 DEF Die
  <2>3. QED
    BY <1>17, <2>1, <2>2, Queued, BoundsAssumption DEF Die, snapshotVars
<1>18. ASSUME NEW t \in Threads, FinishTurn(t) \/ Chatter(t) PROVE Typed'
  <2>1. /\ Event("turn/completed", t, running[t], 0) \in Events
        /\ Event("turn/completed", t, running[t], 0).method # "request"
        /\ Event("delta", t, running[t], 0) \in Events
        /\ Event("delta", t, running[t], 0).method # "request"
    BY EventTyped
  <2>2. QED
    BY <1>18, <2>1, Queued DEF FinishTurn, Chatter, Emit, snapshotVars, handlerVars
<1>19. ASSUME NEW t \in Threads, Ask(t) PROVE Typed'
  <2>1. requests + 1 \in Natives /\ requests' = requests + 1 /\ requests' \in 0..MaxRequest
    BY <1>19, BoundsAssumption DEF Ask, Natives
  <2>2. running[t] \in Turns
    BY <1>19 DEF Ask
  <2>3. /\ Event("request", t, running[t], requests + 1) \in Events
        /\ Event("request", t, running[t], requests + 1).ref = requests + 1
        /\ Event("request", t, running[t], requests + 1).thread = t
        /\ Event("request", t, running[t], requests + 1).turn = running[t]
    BY <2>1, <2>2, EventTyped
  <2>4. QED
    BY <1>19, <2>1, <2>2, <2>3, Queued DEF Ask, Emit, snapshotVars, handlerVars
<1>20. ASSUME NEW t \in Mains, NEW child \in Children, Spawn(t, child) PROVE Typed'
  <2>1. t \in Threads
    BY DEF Threads
  <2>2. /\ Event("spawn", t, running[t], child) \in Events
        /\ Event("spawn", t, running[t], child).method # "request"
    BY <2>1, EventTyped
  <2>3. QED
    BY <1>20, <2>2, Queued DEF Spawn, Emit, snapshotVars, handlerVars
<1>21. ASSUME NEW child \in Children, ChildTurn(child) PROVE Typed'
  <2>1. child \in Threads /\ turns + 1 \in Turns /\ turns' \in 0..MaxTurn
    BY <1>21, BoundsAssumption DEF ChildTurn, Turns, Threads
  <2>2. /\ Event("turn/started", child, turns + 1, 0) \in Events
        /\ Event("turn/started", child, turns + 1, 0).method # "request"
    BY <2>1, EventTyped
  <2>3. QED
    BY <1>21, <2>1, <2>2, Queued DEF ChildTurn, Emit, snapshotVars, handlerVars
<1>22. CASE UNCHANGED vars
  BY <1>22 DEF vars, snapshotVars, handlerVars, providerVars
<1>23. QED
  BY <1>1, <1>2, <1>3, <1>4, <1>5, <1>6, <1>7, <1>8, <1>9, <1>10, <1>11, <1>12, <1>13, <1>14,
     <1>16, <1>17, <1>18, <1>19, <1>20, <1>21, <1>22
     DEF Next, Begin, Proceed, EventThread, Provider

-----------------------------------------------------------------------------
(* Control: an operation is about a conversation that is owned, or, before *)
(* it is, about one that the host may create.                              *)
Owned ==
  /\ managed \subseteq Mains /\ authority \subseteq managed
  /\ pc = "starting" => op.thread \in Mains
  /\ pc \in {"registered", "checked", "replying", "marked", "resuming"} => op.thread \in managed
  /\ \A i \in DOMAIN commands :
       commands[i].thread \in managed \/ commands[i].kind = "thread/start"

(* A command is written for an owned conversation, or starts one.          *)
LEMMA WriteOwned ==
  ASSUME Typed, Owned, NEW command \in Commands, Write(command), managed' = managed,
         command.thread \in managed \/ command.kind = "thread/start"
  PROVE  \A i \in DOMAIN commands' :
           commands'[i].thread \in managed' \/ commands'[i].kind = "thread/start"
<1>1. CASE commands' = commands
  BY <1>1 DEF Owned
<1>2. CASE commands' = Append(commands, command)
  BY <1>2 DEF Typed, Owned
<1>3. QED
  BY <1>1, <1>2, WriteTyped

(* No step loses ownership or starts an operation without it.              *)
LEMMA OwnedStep == Typed /\ Owned /\ [Next]_vars => Owned'
<1> SUFFICES ASSUME Typed, Owned, [Next]_vars PROVE Owned'
  OBVIOUS
<1> USE DEF Owned, NoTurn
<1>1. ASSUME NEW t \in Mains, BeginStart(t) PROVE Owned'
  <2>1. op'.thread = t /\ pc' = "starting" /\ t \in Threads
    BY <1>1 DEF BeginStart, Await, Threads
  <2>2. Command("thread/start", t, NoTurn, 0) \in Commands
    BY <2>1, CommandTyped
  <2>3. Command("thread/start", t, NoTurn, 0).kind = "thread/start"
    BY DEF Command
  <2>4. QED
    BY <1>1, <2>1, <2>2, <2>3, WriteOwned DEF BeginStart
<1>2. ASSUME NEW t \in Threads, BeginReconnect(t) PROVE Owned'
  <2>1. op'.thread = t /\ pc' = "resuming"
    BY <1>2 DEF BeginReconnect, Await
  <2>2. Command("thread/resume", t, NoTurn, 0) \in Commands
    BY CommandTyped
  <2>3. Command("thread/resume", t, NoTurn, 0).thread \in managed
    BY <1>2 DEF Command, BeginReconnect
  <2>4. QED
    BY <1>2, <2>1, <2>2, <2>3, WriteOwned DEF BeginReconnect
<1>3. ASSUME NEW t \in Threads, NEW turn \in Turns \cup {NoTurn}, NEW kind, BeginControlled(kind, t, turn)
      PROVE  Owned'
  BY <1>3 DEF BeginControlled, snapshotVars, providerVars
<1>4. ASSUME NEW request \in pending, BeginReply(request) PROVE Owned'
  BY <1>4 DEF BeginReply, snapshotVars, providerVars
<1>5. CASE RegisterThread
  BY <1>5 DEF RegisterThread, providerVars
<1>6. CASE SetTurn \/ InterruptConfirmed \/ Resumed
  BY <1>6 DEF SetTurn, InterruptConfirmed, Resumed, Done, snapshotVars, providerVars
<1>7. CASE StartTurn
  <2>1. op.thread \in managed /\ op.thread \in Threads
    BY <1>7 DEF StartTurn, Typed
  <2>2. Command("turn/start", op.thread, NoTurn, 0) \in Commands
        /\ Command("turn/start", op.thread, NoTurn, 0).thread \in managed
    BY <2>1, CommandTyped DEF Command
  <2>3. \A i \in DOMAIN commands' :
          commands'[i].thread \in managed \/ commands'[i].kind = "thread/start"
    BY <1>7, <2>2 DEF StartTurn, Typed
  <2>4. QED
    BY <1>7, <2>3 DEF StartTurn, Await, snapshotVars
<1>8. CASE WriteSend
  <2>1. op.thread \in managed /\ op.thread \in Threads /\ op.turn \in Turns \cup {NoTurn}
    BY <1>8 DEF WriteSend, Typed
  <2> DEFINE command == Command(IF op.turn = NoTurn THEN "turn/start" ELSE "turn/steer",
                                op.thread, op.turn, 0)
  <2>2. command \in Commands
    BY <2>1, CommandTyped
  <2>3. command.thread \in managed
    BY <2>1 DEF Command
  <2>4. QED
    BY <1>8, <2>2, <2>3, WriteOwned DEF WriteSend, Await
<1>9. CASE TurnChanged
  BY <1>9 DEF TurnChanged, Done
<1>10. CASE WriteInterrupt
  <2>1. op.thread \in managed /\ op.thread \in Threads /\ op.turn \in Turns \cup {NoTurn}
    BY <1>10 DEF WriteInterrupt, Typed
  <2> DEFINE command == Command("turn/interrupt", op.thread, op.turn, 0)
  <2>2. command \in Commands
    BY <2>1, CommandTyped
  <2>3. command.thread \in managed
    BY <2>1 DEF Command
  <2>4. QED
    BY <1>10, <2>2, <2>3, WriteOwned DEF WriteInterrupt, Await
<1>11. CASE MarkSent
  BY <1>11 DEF MarkSent, providerVars
<1>12. CASE WriteReply
  <2>1. op.thread \in managed /\ op.thread \in Threads /\ op.turn \in Turns \cup {NoTurn}
    BY <1>12 DEF WriteReply, Typed
  <2>2. op.request.native \in Natives \cup {0}
    BY <1>12 DEF WriteReply, Typed, Pending
  <2> DEFINE command == Command("reply", op.thread, op.turn, op.request.native)
  <2>3. command \in Commands
    BY <2>1, <2>2, CommandTyped
  <2>4. command.thread \in managed
    BY <2>1 DEF Command
  <2>5. QED
    BY <1>12, <2>3, <2>4, WriteOwned DEF WriteReply, Done
<1>13. CASE GiveUp
  BY <1>13, AbandonedTyped DEF GiveUp, Done, snapshotVars, Typed
<1>14. CASE ApplyDisconnect
  BY <1>14 DEF ApplyDisconnect, handlerVars, providerVars
<1>15. CASE ApplyEvent
  BY <1>15 DEF ApplyEvent, handlerVars, providerVars
<1>16. CASE Serve
  <2>1. PICK command \in ToSet(commands) :
          /\ Read(command)
          /\ \/ AcceptThread(command) \/ AcceptTurn(command) \/ AcceptSteer(command)
             \/ AcceptReply(command) \/ RefuseCommand(command)
    BY <1>16 DEF Serve
  <2>2. \A i \in DOMAIN commands' : i + 1 \in DOMAIN commands /\ commands'[i] = commands[i + 1]
    BY <2>1 DEF Read, Typed
  <2>3. QED
    BY <2>1, <2>2 DEF Read, snapshotVars
<1>17. CASE Die
  BY <1>17 DEF Die, snapshotVars
<1>18. CASE \/ \E t \in Threads : FinishTurn(t) \/ Ask(t) \/ Chatter(t)
            \/ \E child \in Children : ChildTurn(child)
            \/ \E t \in Mains, child \in Children : Spawn(t, child)
  BY <1>18 DEF FinishTurn, Ask, Chatter, ChildTurn, Spawn, Emit, snapshotVars, handlerVars
<1>19. CASE UNCHANGED vars
  BY <1>19 DEF vars, snapshotVars, handlerVars, providerVars
<1>20. QED
  BY <1>1, <1>2, <1>3, <1>4, <1>5, <1>6, <1>7, <1>8, <1>9, <1>10, <1>11, <1>12, <1>13, <1>14,
     <1>15, <1>16, <1>17, <1>18, <1>19
     DEF Next, Begin, Proceed, EventThread, Provider

(* The host starts well typed and owning what it works on.                 *)
LEMMA InitTyped == Init => Typed /\ Owned
<1> SUFFICES ASSUME Init PROVE Typed /\ Owned
  OBVIOUS
<1>1. queue \in Seq(Events) /\ commands \in Seq(Commands)
  BY DEF Init
<1>2. turns \in 0..MaxTurn /\ requests \in 0..MaxRequest /\ conn \in 0..MaxConnection
  BY BoundsAssumption DEF Init
<1>3. alive \in BOOLEAN /\ connected \in BOOLEAN
  BY Zenon DEF Init
<1>4. running \in [Threads -> Turns \cup {NoTurn}]
  BY DEF Init
<1>5. QED
  BY <1>1, <1>2, <1>3, <1>4 DEF Init, Typed, Owned

(* Spawned conversations are shown and never controlled (register_thread,  *)
(* controlled_thread, Reconnect), whatever a provider reports of them.     *)
THEOREM NoControlOverChildrenCorrect == Spec => []NoControlOverChildren
<1>1. Typed /\ Owned /\ [Next]_vars => (Typed /\ Owned)'
  BY TypedStep, OwnedStep
<1>2. Owned => NoControlOverChildren
  BY ThreadsAssumption DEF Owned, NoControlOverChildren
<1>3. QED
  BY InitTyped, <1>1, <1>2, PTL DEF Spec

-----------------------------------------------------------------------------
(* Connections: the end of the output is the last thing in the channel and *)
(* is there until it is applied; before, approvals are of the connection.  *)
Ends(i) == queue[i].method = "eof"

InChannel ==
  /\ alive => connected /\ \A i \in DOMAIN queue : ~Ends(i)
  /\ connected /\ ~alive => queue # <<>> /\ \A i \in DOMAIN queue : Ends(i) <=> i = Len(queue)
  /\ ~connected => queue = <<>>
  /\ PendingCurrent

(* An event of a running process is queued behind others of its kind.      *)
LEMMA EmittedInChannel ==
  ASSUME Typed, InChannel, NEW event \in Events, event.method # "eof", alive,
         queue' = Append(queue, event), UNCHANGED <<alive, connected, pending, conn>>
  PROVE  InChannel'
<1>1. connected /\ \A i \in DOMAIN queue : ~Ends(i)
  BY DEF InChannel
<1>2. \A i \in DOMAIN queue' : ~Ends(i)'
  BY <1>1 DEF Ends, Typed
<1>3. PendingCurrent'
  BY DEF InChannel, PendingCurrent
<1>4. QED
  BY <1>1, <1>2, <1>3 DEF InChannel

(* Writing keeps the connection, or begins a new one where none is.        *)
LEMMA WriteInChannel ==
  ASSUME Typed, InChannel, NEW command \in Commands, Write(command), pending' = pending
  PROVE  InChannel'
<1>1. CASE Reuse
  BY <1>1 DEF Write, Reuse, InChannel, PendingCurrent, Ends
<1>2. CASE ~connected /\ Connect
  BY <1>2 DEF Write, Connect, InChannel, PendingCurrent, Ends
<1>3. QED
  BY <1>1, <1>2 DEF Write

(* Every step keeps the end of output last, and approvals on their         *)
(* connection.                                                             *)
LEMMA InChannelStep == Typed /\ InChannel /\ [Next]_vars => InChannel'
<1> SUFFICES ASSUME Typed, InChannel, [Next]_vars PROVE InChannel'
  OBVIOUS
<1>1. ASSUME UNCHANGED <<queue, alive, connected, pending, conn>> PROVE InChannel'
  BY <1>1 DEF InChannel, PendingCurrent, Ends
<1>2. ASSUME NEW t \in Mains, BeginStart(t) PROVE InChannel'
  <2>1. Command("thread/start", t, NoTurn, 0) \in Commands
    BY CommandTyped DEF Threads
  <2>2. QED
    BY <1>2, <2>1, WriteInChannel DEF BeginStart
<1>3. ASSUME NEW t \in Threads, BeginReconnect(t) PROVE InChannel'
  <2>1. Command("thread/resume", t, NoTurn, 0) \in Commands
    BY CommandTyped
  <2>2. QED
    BY <1>3, <2>1, WriteInChannel DEF BeginReconnect
<1>4. CASE WriteSend
  <2>1. Command(IF op.turn = NoTurn THEN "turn/start" ELSE "turn/steer", op.thread, op.turn, 0)
          \in Commands
    BY <1>4, CommandTyped DEF WriteSend, Typed
  <2>2. QED
    BY <1>4, <2>1, WriteInChannel DEF WriteSend
<1>5. CASE WriteInterrupt
  <2>1. Command("turn/interrupt", op.thread, op.turn, 0) \in Commands
    BY <1>5, CommandTyped DEF WriteInterrupt, Typed
  <2>2. QED
    BY <1>5, <2>1, WriteInChannel DEF WriteInterrupt
<1>6. CASE WriteReply
  <2>1. op.request.native \in Natives \cup {0}
    BY <1>6 DEF WriteReply, Typed, Pending
  <2>2. Command("reply", op.thread, op.turn, op.request.native) \in Commands
    BY <1>6, <2>1, CommandTyped DEF WriteReply, Typed
  <2>3. QED
    BY <1>6, <2>2, WriteInChannel DEF WriteReply
<1>7. CASE TurnChanged
  BY <1>7 DEF TurnChanged, Connect, InChannel, PendingCurrent, Ends
<1>8. CASE MarkSent
  <2>1. PendingCurrent'
    BY <1>8, MarkedTyped DEF MarkSent, InChannel, PendingCurrent
  <2>2. QED
    BY <1>8, <2>1 DEF MarkSent, InChannel, Ends, providerVars
<1>9. CASE ApplyDisconnect
  <2>1. Ends(1) /\ queue # <<>>
    BY <1>9 DEF ApplyDisconnect, Ends, Typed
  <2>2. connected /\ ~alive /\ Len(queue) = 1
    <3>1. 1 \in DOMAIN queue
      BY <2>1 DEF Typed
    <3>2. connected /\ ~alive
      BY <2>1, <3>1 DEF InChannel
    <3>3. QED
      BY <2>1, <3>1, <3>2 DEF InChannel
  <2>3. queue' = <<>>
    BY <1>9, <2>2 DEF ApplyDisconnect, Typed
  <2>4. QED
    BY <1>9, <2>2, <2>3 DEF ApplyDisconnect, InChannel, PendingCurrent, providerVars
<1>10. CASE ApplyEvent
  <2>1. queue # <<>> /\ ~Ends(1) /\ queue' = Tail(queue) /\ UNCHANGED <<alive, connected, conn>>
    BY <1>10 DEF ApplyEvent, Ends, Typed, providerVars
  <2>2. connected
    BY <2>1 DEF InChannel
  <2>3. \A p \in pending' : p.conn = conn
    BY <1>10, EventApplied DEF InChannel, PendingCurrent
  <2>4. /\ Len(queue') = Len(queue) - 1
        /\ \A i \in DOMAIN queue' : i + 1 \in DOMAIN queue /\ (Ends(i)' <=> Ends(i + 1))
    BY <2>1 DEF Ends, Typed
  <2>5. CASE alive
    BY <2>1, <2>2, <2>3, <2>4, <2>5 DEF InChannel, PendingCurrent
  <2>6. CASE ~alive
    <3>1. Len(queue) # 1
      BY <2>1, <2>2, <2>6 DEF InChannel, Typed
    <3>2. queue' # <<>> /\ \A i \in DOMAIN queue' : Ends(i)' <=> i = Len(queue')
      BY <2>1, <2>2, <2>4, <2>6, <3>1 DEF InChannel, Typed
    <3>3. QED
      BY <2>1, <2>2, <2>3, <2>6, <3>2 DEF InChannel, PendingCurrent
  <2>7. QED
    BY <2>5, <2>6
<1>11. CASE Serve
  <2>1. PICK command \in ToSet(commands) :
          /\ Read(command)
          /\ \/ AcceptThread(command) \/ AcceptTurn(command) \/ AcceptSteer(command)
             \/ AcceptReply(command) \/ RefuseCommand(command)
    BY <1>11 DEF Serve
  <2>2. alive /\ UNCHANGED <<alive, connected, pending, conn>> /\ command \in Commands
    BY <2>1 DEF Read, snapshotVars, Typed
  <2>3. CASE AcceptTurn(command)
    <3>1. command.thread \in Threads /\ turns + 1 \in Turns
      BY <2>2, <2>3, BoundsAssumption DEF AcceptTurn, Commands, Turns, Typed
    <3>2. Event("turn/started", command.thread, turns + 1, 0) \in Events
          /\ Event("turn/started", command.thread, turns + 1, 0).method # "eof"
      BY <3>1, EventTyped
    <3>3. QED
      BY <2>2, <2>3, <3>2, EmittedInChannel DEF AcceptTurn
  <2>4. CASE AcceptReply(command)
    <3>1. command.thread \in Threads /\ command.ref \in Natives \cup {0}
      BY <2>2 DEF Commands
    <3>2. Event("resolved", command.thread, NoTurn, command.ref) \in Events
          /\ Event("resolved", command.thread, NoTurn, command.ref).method # "eof"
      BY <3>1, EventTyped
    <3>3. QED
      BY <1>1, <2>2, <2>4, <3>2, EmittedInChannel DEF AcceptReply
  <2>5. QED
    BY <1>1, <2>1, <2>2, <2>3, <2>4 DEF AcceptThread, AcceptSteer, RefuseCommand
<1>12. CASE Die
  <2>1. Event("eof", NoThread, NoTurn, 0).method = "eof" /\ Event("eof", NoThread, NoTurn, 0) \in Events
    BY EventTyped
  <2>2. /\ alive /\ ~alive' /\ UNCHANGED <<connected, pending, conn>>
        /\ queue' = Append(queue, Event("eof", NoThread, NoTurn, 0))
    BY <1>12 DEF Die, snapshotVars
  <2>3. connected /\ \A i \in DOMAIN queue : ~Ends(i)
    BY <2>2 DEF InChannel
  <2>4. queue' # <<>> /\ \A i \in DOMAIN queue' : Ends(i)' <=> i = Len(queue')
    BY <2>1, <2>2, <2>3 DEF Ends, Typed
  <2>5. QED
    BY <2>2, <2>3, <2>4 DEF InChannel, PendingCurrent
<1>13. ASSUME NEW event \in Events, event.method # "eof", Emit(event) PROVE InChannel'
  BY <1>13, EmittedInChannel DEF Emit, snapshotVars
<1>14. ASSUME NEW t \in Threads, FinishTurn(t) \/ Ask(t) \/ Chatter(t) PROVE InChannel'
  <2>1. ASSUME Ask(t) PROVE requests + 1 \in Natives
    BY <2>1, BoundsAssumption DEF Ask, Natives, Typed
  <2>2. running[t] \in Turns \cup {NoTurn}
    BY DEF Typed
  <2>3. QED
    BY <1>13, <1>14, <2>1, <2>2, EventTyped DEF FinishTurn, Ask, Chatter
<1>15. ASSUME NEW t \in Mains, NEW child \in Children, Spawn(t, child) PROVE InChannel'
  <2>1. t \in Threads /\ running[t] \in Turns \cup {NoTurn}
    BY DEF Typed, Threads
  <2>2. QED
    BY <1>13, <1>15, <2>1, EventTyped DEF Spawn
<1>16. ASSUME NEW child \in Children, ChildTurn(child) PROVE InChannel'
  <2>1. child \in Threads /\ turns + 1 \in Turns
    BY <1>16, BoundsAssumption DEF ChildTurn, Turns, Threads, Typed
  <2>2. QED
    BY <1>13, <1>16, <2>1, EventTyped DEF ChildTurn
<1>17. CASE \/ RegisterThread \/ StartTurn \/ SetTurn \/ InterruptConfirmed \/ Resumed \/ GiveUp
            \/ UNCHANGED vars
  BY <1>1, <1>17 DEF RegisterThread, StartTurn, SetTurn, InterruptConfirmed, Resumed, GiveUp, vars,
         snapshotVars, providerVars
<1>18. ASSUME \/ \E t \in Threads, turn \in Turns \cup {NoTurn}, kind \in {"send", "interrupt"} :
                   BeginControlled(kind, t, turn)
              \/ \E request \in pending : BeginReply(request)
       PROVE  InChannel'
  BY <1>1, <1>18 DEF BeginControlled, BeginReply, snapshotVars, providerVars
<1>19. QED
  BY <1>2, <1>3, <1>4, <1>5, <1>6, <1>7, <1>8, <1>9, <1>10, <1>11, <1>12, <1>14, <1>15, <1>16,
     <1>17, <1>18
     DEF Next, Begin, Proceed, EventThread, Provider

(* Approvals on offer are of the connection the host talks to              *)
(* (apply_event on None, provider).                                        *)
THEOREM PendingCurrentCorrect == Spec => []PendingCurrent
<1>1. Init => InChannel
  BY DEF Init, InChannel, PendingCurrent
<1>2. InChannel => PendingCurrent
  BY DEF InChannel
<1>3. Typed /\ InChannel /\ [Next]_vars => (Typed /\ InChannel)'
  BY TypedStep, InChannelStep
<1>4. QED
  BY InitTyped, <1>1, <1>2, <1>3, PTL DEF Spec

-----------------------------------------------------------------------------
(* Replies.  Which request an operation answers, if it does.               *)
Replying == pc \in {"replying", "marked"}

(* The requests of this connection are numbered up to the last one.        *)
Numbered ==
  /\ \A p \in pending : p.conn = conn
  /\ \A k \in DOMAIN written : written[k].conn \in 0..conn
  /\ Replying => op.request.conn <= conn
  /\ alive =>
       /\ \A i \in DOMAIN queue : queue[i].method = "request" => queue[i].ref <= requests
       /\ \A p \in pending : p.native <= requests
       /\ \A k \in DOMAIN written : written[k].conn = conn => written[k].native <= requests
       /\ Replying /\ op.request.conn = conn => op.request.native <= requests

(* A request in the channel is not on offer yet, nor answered.             *)
IsNew(ref) ==
  /\ \A p \in pending : p.native # ref
  /\ \A k \in DOMAIN written : written[k].conn = conn => written[k].native # ref
  /\ Replying /\ op.request.conn = conn => op.request.native # ref

Fresh ==
  \A i \in DOMAIN queue : queue[i].method = "request" =>
    /\ IsNew(queue[i].ref)
    /\ \A j \in DOMAIN queue : queue[j].method = "request" /\ j # i => queue[j].ref # queue[i].ref

(* What was answered stays marked, and what is being answered was not      *)
(* answered before.                                                        *)
Answers(k, request) == written[k].conn = request.conn /\ written[k].native = request.native

Marked ==
  /\ \A k \in DOMAIN written, p \in pending : Answers(k, p) => p.sent
  /\ Replying => \A k \in DOMAIN written : ~Answers(k, op.request)
  /\ pc = "marked" => \A p \in pending :
       p.conn = op.request.conn /\ p.native = op.request.native => p.sent

RepliesTyped == written \in Seq([conn : Connections, native : Natives, on : Connections])

ReplyInv == RepliesTyped /\ Numbered /\ Fresh /\ Marked /\ ReplyOnce

(* Steps that concern neither requests nor replies.                        *)
LEMMA RepliesAside ==
  ASSUME Typed, ReplyInv, UNCHANGED <<pending, written, conn, requests>>, alive' => alive,
         Replying' => Replying /\ op' = op, pc' = "marked" => pc = "marked",
         queue' = queue
  PROVE  ReplyInv'
<1> USE DEF ReplyInv
<1>1. Numbered'
  BY DEF Numbered, Replying
<1>2. Fresh'
  BY DEF Fresh, IsNew, Replying
<1>3. Marked'
  BY DEF Marked, Answers, Replying
<1>4. QED
  BY <1>1, <1>2, <1>3 DEF RepliesTyped, ReplyOnce

(* An event that is no request is queued.                                  *)
LEMMA OtherQueued ==
  ASSUME Typed, ReplyInv, NEW event \in Events, event.method # "request",
         queue' = Append(queue, event), UNCHANGED <<pending, written, conn, pc, op>>,
         alive' => alive /\ requests' = requests
  PROVE  ReplyInv'
<1> USE DEF ReplyInv
<1>1. \A i \in DOMAIN queue' : queue'[i].method = "request" =>
        i \in DOMAIN queue /\ queue'[i] = queue[i]
  BY DEF Typed
<1>2. Numbered'
  BY <1>1 DEF Numbered, Replying
<1>3. Fresh'
  BY <1>1 DEF Fresh, IsNew, Replying
<1>4. Marked'
  BY DEF Marked, Answers, Replying
<1>5. QED
  BY <1>2, <1>3, <1>4 DEF RepliesTyped, ReplyOnce

(* A command is written, on this connection or the next.                   *)
LEMMA WriteReplies ==
  ASSUME Typed, InChannel, ReplyInv, NEW command \in Commands, Write(command),
         UNCHANGED <<pending, written>>, ~Replying'
  PROVE  ReplyInv'
<1> USE DEF ReplyInv
<1>1. UNCHANGED <<queue, requests>>
  BY DEF Write
<1>2. CASE Reuse
  <2>1. UNCHANGED <<conn, alive>>
    BY <1>2 DEF Reuse
  <2>2. Numbered'
    BY <1>1, <2>1 DEF Numbered
  <2>3. Fresh'
    BY <1>1, <2>1 DEF Fresh, IsNew
  <2>4. Marked'
    BY DEF Marked, Answers, Replying
  <2>5. QED
    BY <2>2, <2>3, <2>4 DEF RepliesTyped, ReplyOnce
<1>3. CASE ~connected /\ Connect
  <2>1. queue = <<>> /\ pending = {} /\ conn' = conn + 1 /\ conn \in Nat
    BY <1>3 DEF Connect, InChannel, PendingCurrent, Typed
  <2>2. Numbered'
    BY <1>1, <2>1 DEF Numbered
  <2>3. Fresh'
    BY <1>1, <2>1 DEF Fresh
  <2>4. Marked'
    BY <2>1 DEF Marked, Answers, Replying
  <2>5. QED
    BY <2>2, <2>3, <2>4 DEF RepliesTyped, ReplyOnce
<1>4. QED
  BY <1>2, <1>3 DEF Write

(* A request is checked and copied.                                        *)
LEMMA BeginReplyReplies ==
  ASSUME Typed, ReplyInv, NEW request \in pending, BeginReply(request)
  PROVE  ReplyInv'
<1> USE DEF ReplyInv
<1>1. /\ pc' = "replying" /\ op'.request = request /\ ~request.sent
      /\ UNCHANGED <<pending, written, conn, queue, alive, requests>>
  BY DEF BeginReply, snapshotVars, providerVars
<1>2. Numbered'
  BY <1>1 DEF Numbered, Replying, Typed
<1>3. Fresh'
  BY <1>1 DEF Fresh, IsNew, Replying
<1>4. Marked'
  BY <1>1 DEF Marked, Answers, Replying
<1>5. QED
  BY <1>1, <1>2, <1>3, <1>4 DEF RepliesTyped, ReplyOnce

(* It is marked.                                                           *)
LEMMA MarkSentReplies == ASSUME Typed, ReplyInv, MarkSent PROVE ReplyInv'
<1> USE DEF ReplyInv
<1>1. /\ pc = "replying" /\ pc' = "marked"
      /\ UNCHANGED <<op, written, conn, queue, alive, requests>>
  BY DEF MarkSent, providerVars
<1>2. Numbered'
  BY <1>1, MarkedTyped DEF Numbered, Replying
<1>3. Fresh'
  BY <1>1, MarkedTyped DEF Fresh, IsNew, Replying
<1>4. Marked'
  BY <1>1, MarkedTyped DEF Marked, Answers, Replying
<1>5. QED
  BY <1>1, <1>2, <1>3, <1>4 DEF RepliesTyped, ReplyOnce

(* It is answered.                                                         *)
LEMMA WriteReplyReplies == ASSUME Typed, InChannel, ReplyInv, WriteReply PROVE ReplyInv'
<1> USE DEF ReplyInv
<1> DEFINE reply == [conn |-> op.request.conn, native |-> op.request.native, on |-> conn']
<1>1. /\ pc = "marked" /\ pc' = "idle" /\ written' = Append(written, reply)
      /\ UNCHANGED <<pending, queue, requests>>
  BY DEF WriteReply, Write, Done
<1>2. op.request \in Pending /\ op.request.conn \in Connections /\ op.request.native \in Natives
  BY <1>1 DEF Typed, Pending
<1>3. Command("reply", op.thread, op.turn, op.request.native) \in Commands
  BY <1>1, <1>2, CommandTyped DEF Typed
<1>4. conn' \in Connections
  <2>1. Write(Command("reply", op.thread, op.turn, op.request.native))
    BY DEF WriteReply
  <2>2. conn' \in 0..MaxConnection /\ (connected' => conn' # 0)
    BY <1>3, <2>1, WriteTyped
  <2>3. connected'
    BY <2>1 DEF Write, Reuse, Connect
  <2>4. QED
    BY <2>2, <2>3 DEF Connections
<1>5. /\ reply.conn = op.request.conn /\ reply.native = op.request.native
      /\ reply \in [conn : Connections, native : Natives, on : Connections]
  BY <1>2, <1>4
<1>6. RepliesTyped'
  BY <1>1, <1>5 DEF RepliesTyped
<1>7. /\ Len(written) \in Nat /\ Len(written') = Len(written) + 1
      /\ \A k \in DOMAIN written' :
           (k \in DOMAIN written /\ written'[k] = written[k])
           \/ (k = Len(written) + 1 /\ written'[k] = reply)
  BY <1>1 DEF RepliesTyped
<1>8. \/ UNCHANGED <<conn, alive>>
      \/ queue = <<>> /\ pending = {} /\ conn' = conn + 1 /\ conn \in Nat
  BY DEF WriteReply, Write, Reuse, Connect, InChannel, PendingCurrent, Typed
<1>9. Numbered'
  <2>1. op.request.conn <= conn /\ op.request.conn \in Nat /\ conn \in Nat
    BY <1>1, <1>2 DEF Numbered, Replying, Connections, Typed
  <2>2. CASE UNCHANGED <<conn, alive>>
    BY <1>1, <1>5, <1>7, <2>1, <2>2 DEF Numbered, Replying
  <2>3. CASE queue = <<>> /\ pending = {} /\ conn' = conn + 1
    BY <1>1, <1>5, <1>7, <2>1, <2>3 DEF Numbered, Replying
  <2>4. QED
    BY <1>8, <2>2, <2>3
<1>10. Fresh'
  <2>1. CASE UNCHANGED <<conn, alive>>
    BY <1>1, <1>5, <1>7, <2>1 DEF Fresh, IsNew, Replying
  <2>2. CASE queue = <<>>
    BY <1>1, <2>2 DEF Fresh
  <2>3. QED
    BY <1>8, <2>1, <2>2
<1>11. Marked'
  BY <1>1, <1>5, <1>7 DEF Marked, Answers, Replying
<1>12. ReplyOnce'
  BY <1>1, <1>5, <1>7 DEF ReplyOnce, Marked, Answers, Replying
<1>13. QED
  BY <1>6, <1>9, <1>10, <1>11, <1>12

(* The event thread takes the next event.                                  *)
LEMMA ApplyReplies ==
  ASSUME Typed, ReplyInv, ApplyDisconnect \/ ApplyEvent PROVE ReplyInv'
<1> USE DEF ReplyInv
<1>1. /\ queue # <<>> /\ queue' = Tail(queue)
      /\ UNCHANGED <<pc, op, written, conn, alive, requests>>
  BY DEF ApplyDisconnect, ApplyEvent, handlerVars, providerVars
<1>2. /\ 1 \in DOMAIN queue /\ Head(queue) = queue[1]
      /\ \A i \in DOMAIN queue' :
           i + 1 \in DOMAIN queue /\ i + 1 # 1 /\ queue'[i] = queue[i + 1]
      /\ \A i, j \in DOMAIN queue' : i # j => i + 1 # j + 1
  BY <1>1 DEF Typed
<1>3. \A p \in pending' \ pending :
        queue[1].method = "request" /\ p.native = queue[1].ref /\ p.conn = conn /\ ~p.sent
  <2>1. CASE ApplyDisconnect
    BY <2>1 DEF ApplyDisconnect
  <2>2. CASE ApplyEvent
    BY <1>2, <2>2, EventApplied
  <2>3. QED
    BY <2>1, <2>2
<1>4. Numbered'
  BY <1>1, <1>2, <1>3 DEF Numbered, Replying
<1>5. Fresh'
  BY <1>1, <1>2, <1>3 DEF Fresh, IsNew, Replying
<1>6. Marked'
  <2>1. \A p \in pending' \ pending : IsNew(p.native) /\ p.conn = conn
    BY <1>2, <1>3 DEF Fresh
  <2>2. QED
    BY <1>1, <2>1 DEF Marked, Answers, Replying, IsNew
<1>7. QED
  BY <1>1, <1>4, <1>5, <1>6 DEF RepliesTyped, ReplyOnce

(* Each reply written is a record of its connection and its request.       *)
LEMMA WrittenRange ==
  ASSUME RepliesTyped
  PROVE  \A k \in DOMAIN written :
           written[k] \in [conn : Connections, native : Natives, on : Connections]
<1> DEFINE Replies == [conn : Connections, native : Natives, on : Connections]
<1>1. written \in Seq(Replies)
  BY DEF RepliesTyped
<1> HIDE DEF Replies
<1>2. \A k \in DOMAIN written : written[k] \in Replies
  BY <1>1
<1>3. QED
  BY <1>2 DEF Replies

(* A running provider asks: its request has the next number.               *)
LEMMA AskReplies == ASSUME Typed, ReplyInv, NEW t \in Threads, Ask(t) PROVE ReplyInv'
<1> USE DEF ReplyInv
<1> DEFINE event == Event("request", t, running[t], requests + 1)
<1>1. /\ alive /\ requests' = requests + 1 /\ queue' = Append(queue, event)
      /\ UNCHANGED <<pc, op, pending, written, conn, alive>>
  BY DEF Ask, Emit, snapshotVars, handlerVars
<1>2. requests \in Nat /\ requests + 1 \in Natives
  BY BoundsAssumption DEF Ask, Natives, Typed
<1>3. event \in Events /\ event.method = "request" /\ event.ref = requests + 1
  BY <1>2, EventTyped DEF Typed
<1>4. /\ Len(queue) \in Nat
      /\ \A i \in DOMAIN queue' :
           (i \in DOMAIN queue /\ queue'[i] = queue[i]) \/ (i = Len(queue) + 1 /\ queue'[i] = event)
  BY <1>1, <1>3 DEF Typed
<1>5. /\ \A p \in pending : p.native \in Nat
      /\ \A k \in DOMAIN written : written[k].native \in Nat
      /\ Replying => op.request.native \in Nat
      /\ \A i \in DOMAIN queue : queue[i].method = "request" => queue[i].ref \in Nat
  <2>1. \A p \in Pending : p.native \in Nat
    BY DEF Pending, Natives
  <2>2. \A k \in DOMAIN written : written[k].native \in Nat
    <3>1. \A k \in DOMAIN written :
             written[k] \in [conn : Connections, native : Natives, on : Connections]
      BY WrittenRange
    <3>2. \A r \in [conn : Connections, native : Natives, on : Connections] : r.native \in Natives
      OBVIOUS
    <3>3. Natives \subseteq Nat
      BY DEF Natives
    <3>4. QED
      BY <3>1, <3>2, <3>3
  <2>3. \A i \in DOMAIN queue : queue[i].method = "request" => queue[i].ref \in Nat
    BY DEF Typed, Natives
  <2>4. QED
    BY <2>1, <2>2, <2>3 DEF Typed, Replying
<1>6. Numbered'
  BY <1>1, <1>2, <1>3, <1>4, <1>5 DEF Numbered, Replying
<1>7. IsNew(requests + 1) /\ \A i \in DOMAIN queue : queue[i].method = "request" => queue[i].ref # requests + 1
  BY <1>1, <1>2, <1>5 DEF Numbered, IsNew
<1>8. Fresh'
  BY <1>1, <1>3, <1>4, <1>7 DEF Fresh, IsNew, Replying
<1>9. Marked'
  BY <1>1 DEF Marked, Answers, Replying
<1>10. QED
  BY <1>1, <1>6, <1>8, <1>9 DEF RepliesTyped, ReplyOnce

(* Every step keeps the invariant of replies.                              *)
LEMMA ReplyInvStep == Typed /\ InChannel /\ ReplyInv /\ [Next]_vars => ReplyInv'
<1> SUFFICES ASSUME Typed, InChannel, ReplyInv, [Next]_vars PROVE ReplyInv'
  OBVIOUS
<1>1. ASSUME NEW t \in Mains, BeginStart(t) PROVE ReplyInv'
  <2>1. Command("thread/start", t, NoTurn, 0) \in Commands
    BY CommandTyped DEF Threads
  <2>2. QED
    BY <1>1, <2>1, WriteReplies DEF BeginStart, Await, Replying
<1>2. ASSUME NEW t \in Threads, BeginReconnect(t) PROVE ReplyInv'
  <2>1. Command("thread/resume", t, NoTurn, 0) \in Commands
    BY CommandTyped
  <2>2. QED
    BY <1>2, <2>1, WriteReplies DEF BeginReconnect, Await, Replying
<1>3. CASE WriteSend
  <2>1. Command(IF op.turn = NoTurn THEN "turn/start" ELSE "turn/steer", op.thread, op.turn, 0)
          \in Commands
    BY <1>3, CommandTyped DEF WriteSend, Typed
  <2>2. QED
    BY <1>3, <2>1, WriteReplies DEF WriteSend, Await, Replying
<1>4. CASE WriteInterrupt
  <2>1. Command("turn/interrupt", op.thread, op.turn, 0) \in Commands
    BY <1>4, CommandTyped DEF WriteInterrupt, Typed
  <2>2. QED
    BY <1>4, <2>1, WriteReplies DEF WriteInterrupt, Await, Replying
<1>5. CASE TurnChanged
  <2>1. /\ queue = <<>> /\ pending = {} /\ conn' = conn + 1 /\ conn \in Nat /\ pc' = "idle"
        /\ UNCHANGED <<queue, pending, written>>
    BY <1>5 DEF TurnChanged, Connect, Done, InChannel, PendingCurrent, Typed
  <2>2. Numbered' /\ Fresh' /\ Marked'
    BY <2>1 DEF ReplyInv, Numbered, Fresh, Marked, Answers, Replying
  <2>3. QED
    BY <2>1, <2>2 DEF ReplyInv, RepliesTyped, ReplyOnce
<1>6. CASE \/ RegisterThread \/ StartTurn \/ SetTurn \/ InterruptConfirmed \/ Resumed \/ GiveUp
           \/ UNCHANGED vars
  BY <1>6, RepliesAside
     DEF RegisterThread, StartTurn, SetTurn, InterruptConfirmed, Resumed, GiveUp, Done, Await, vars,
         snapshotVars, providerVars, handlerVars, Replying
<1>7. ASSUME NEW t \in Threads, NEW turn, NEW kind, BeginControlled(kind, t, turn) PROVE ReplyInv'
  BY <1>7, RepliesAside DEF BeginControlled, snapshotVars, providerVars, Replying
<1>8. CASE Serve
  <2>1. PICK command \in ToSet(commands) :
          /\ Read(command)
          /\ \/ AcceptThread(command) \/ AcceptTurn(command) \/ AcceptSteer(command)
             \/ AcceptReply(command) \/ RefuseCommand(command)
    BY <1>8 DEF Serve
  <2>2. command \in Commands /\ UNCHANGED <<alive, pending, written, conn, pc, op>>
    BY <2>1 DEF Read, snapshotVars, Typed
  <2>3. CASE AcceptThread(command) \/ AcceptSteer(command) \/ RefuseCommand(command)
    BY <2>2, <2>3, RepliesAside DEF AcceptThread, AcceptSteer, RefuseCommand, Replying
  <2>4. CASE AcceptTurn(command)
    <3>1. command.thread \in Threads /\ turns + 1 \in Turns
      BY <2>2, <2>4, BoundsAssumption DEF AcceptTurn, Commands, Turns, Typed
    <3>2. Event("turn/started", command.thread, turns + 1, 0) \in Events
          /\ Event("turn/started", command.thread, turns + 1, 0).method # "request"
      BY <3>1, EventTyped
    <3>3. QED
      BY <2>2, <2>4, <3>2, OtherQueued DEF AcceptTurn
  <2>5. CASE AcceptReply(command)
    <3>1. command.thread \in Threads /\ command.ref \in Natives \cup {0}
      BY <2>2 DEF Commands
    <3>2. Event("resolved", command.thread, NoTurn, command.ref) \in Events
          /\ Event("resolved", command.thread, NoTurn, command.ref).method # "request"
      BY <3>1, EventTyped
    <3>3. CASE queue' = queue
      BY <2>2, <2>5, <3>3, RepliesAside DEF AcceptReply, Replying
    <3>4. CASE queue' # queue
      BY <2>2, <2>5, <3>2, <3>4, OtherQueued DEF AcceptReply
    <3>5. QED
      BY <3>3, <3>4
  <2>6. QED
    BY <2>1, <2>3, <2>4, <2>5
<1>9. CASE Die
  <2>1. Event("eof", NoThread, NoTurn, 0).method # "request" /\ Event("eof", NoThread, NoTurn, 0) \in Events
    BY EventTyped
  <2>2. QED
    BY <1>9, <2>1, OtherQueued DEF Die, snapshotVars
<1>10. ASSUME NEW event \in Events, event.method # "request", Emit(event), requests' = requests
       PROVE  ReplyInv'
  BY <1>10, OtherQueued DEF Emit, snapshotVars, handlerVars
<1>11. ASSUME NEW t \in Threads, FinishTurn(t) \/ Chatter(t) PROVE ReplyInv'
  <2>1. running[t] \in Turns \cup {NoTurn}
    BY DEF Typed
  <2>2. QED
    BY <1>10, <1>11, <2>1, EventTyped DEF FinishTurn, Chatter
<1>12. ASSUME NEW t \in Mains, NEW child \in Children, Spawn(t, child) PROVE ReplyInv'
  <2>1. t \in Threads /\ running[t] \in Turns \cup {NoTurn}
    BY DEF Typed, Threads
  <2>2. QED
    BY <1>10, <1>12, <2>1, EventTyped DEF Spawn
<1>13. ASSUME NEW child \in Children, ChildTurn(child) PROVE ReplyInv'
  <2>1. child \in Threads /\ turns + 1 \in Turns
    BY <1>13, BoundsAssumption DEF ChildTurn, Turns, Threads, Typed
  <2>2. QED
    BY <1>10, <1>13, <2>1, EventTyped DEF ChildTurn
<1>14. QED
  BY <1>1, <1>2, <1>3, <1>4, <1>5, <1>6, <1>7, <1>8, <1>9, <1>11, <1>12, <1>13,
     BeginReplyReplies, MarkSentReplies, WriteReplyReplies, ApplyReplies, AskReplies
     DEF Next, Begin, Proceed, EventThread, Provider

(* An approval is answered at most once (execute, Reply): whatever         *)
(* interleaves with the reply_sent mark, and on whichever connection.      *)
THEOREM ReplyOnceCorrect == Spec => []ReplyOnce
<1> DEFINE Inv == Typed /\ InChannel /\ ReplyInv
<1>1. Init => Inv
  <2> SUFFICES ASSUME Init PROVE Inv
    OBVIOUS
  <2>1. InChannel /\ RepliesTyped /\ ReplyOnce
    BY DEF Init, InChannel, PendingCurrent, RepliesTyped, ReplyOnce
  <2>2. Numbered /\ Fresh /\ Marked
    BY DEF Init, Numbered, Fresh, Marked, Replying
  <2>3. QED
    BY <2>1, <2>2, InitTyped DEF ReplyInv
<1>2. Inv => ReplyOnce
  BY DEF ReplyInv
<1>3. Inv /\ [Next]_vars => Inv'
  BY TypedStep, InChannelStep, ReplyInvStep
<1>4. QED
  BY <1>1, <1>2, <1>3, PTL DEF Spec

-----------------------------------------------------------------------------
(* Ownership reaches the provider: a conversation of the host's runs turns *)
(* and is named by events only once the host owns it.                      *)
MainsOwned ==
  /\ managed \subseteq known
  /\ \A t \in Mains : running[t] # NoTurn => t \in managed
  /\ \A i \in DOMAIN queue : queue[i].thread \in Mains => queue[i].thread \in managed

(* What Append and Tail do to the channel, position by position.           *)
LEMMA Appended ==
  ASSUME Typed, NEW event \in Events, queue' = Append(queue, event)
  PROVE  /\ Len(queue) \in Nat /\ DOMAIN queue = 1..Len(queue)
         /\ DOMAIN queue' = 1..(Len(queue) + 1)
         /\ \A i \in DOMAIN queue : i \in DOMAIN queue' /\ i < Len(queue) + 1 /\ queue'[i] = queue[i]
         /\ Len(queue) + 1 \in DOMAIN queue' /\ queue'[Len(queue) + 1] = event
         /\ \A i \in DOMAIN queue' : i \in DOMAIN queue \/ i = Len(queue) + 1
  BY DEF Typed

(* Taking the first event moves the others up by one.                      *)
LEMMA Taken ==
  ASSUME Typed, queue # <<>>, queue' = Tail(queue)
  PROVE  /\ 1 \in DOMAIN queue /\ Head(queue) = queue[1] /\ DOMAIN queue = 1..Len(queue)
         /\ Len(queue) \in Nat /\ DOMAIN queue' \subseteq Nat \ {0}
         /\ \A i \in DOMAIN queue' : i + 1 \in DOMAIN queue /\ queue'[i] = queue[i + 1]
         /\ \A i \in DOMAIN queue : i = 1 \/ (i - 1 \in DOMAIN queue' /\ queue'[i - 1] = queue[i])
  BY DEF Typed

(* A served command is one that was written.                               *)
LEMMA Served ==
  ASSUME Typed, Owned, NEW command \in ToSet(commands), Read(command)
  PROVE  /\ command \in Commands /\ command = commands[1] /\ 1 \in DOMAIN commands
         /\ command.thread \in managed \/ command.kind = "thread/start"
         /\ UNCHANGED <<snapshotVars, conn, pc, op, seen, alive, written, missed>> /\ alive
         /\ \A i \in DOMAIN commands' : i + 1 \in DOMAIN commands /\ commands'[i] = commands[i + 1]
         /\ DOMAIN commands = 1..Len(commands)
<1>1. /\ alive /\ commands # <<>> /\ command = Head(commands) /\ commands' = Tail(commands)
      /\ UNCHANGED <<snapshotVars, conn, pc, op, seen, alive, written, missed>>
  BY DEF Read
<1>2. /\ 1 \in DOMAIN commands /\ command = commands[1] /\ command \in Commands
      /\ \A i \in DOMAIN commands' : i + 1 \in DOMAIN commands /\ commands'[i] = commands[i + 1]
      /\ DOMAIN commands = 1..Len(commands)
  BY <1>1 DEF Typed
<1>3. command.thread \in managed \/ command.kind = "thread/start"
  BY <1>2 DEF Owned
<1>4. QED
  BY <1>1, <1>2, <1>3

(* No step lets the provider run or name a conversation before it is       *)
(* owned.                                                                  *)
LEMMA MainsOwnedStep == Typed /\ Owned /\ MainsOwned /\ [Next]_vars => MainsOwned'
<1> SUFFICES ASSUME Typed, Owned, MainsOwned, [Next]_vars PROVE MainsOwned'
  OBVIOUS
<1>1. ASSUME UNCHANGED <<queue, running, managed, known>> PROVE MainsOwned'
  BY <1>1 DEF MainsOwned
<1>2. ASSUME NEW event \in Events, queue' = Append(queue, event), UNCHANGED <<managed, known>>,
             event.thread \in Mains => event.thread \in managed,
             \A t \in Mains : running'[t] # NoTurn => running[t] # NoTurn \/ t \in managed
      PROVE  MainsOwned'
  BY <1>2, Appended DEF MainsOwned
<1>3. CASE Begin
  BY <1>1, <1>3 DEF Begin, BeginStart, BeginReconnect, BeginControlled, BeginReply, Write, Await,
                    snapshotVars, providerVars
<1>4. CASE RegisterThread
  BY <1>4 DEF RegisterThread, providerVars, MainsOwned
<1>5. CASE \/ StartTurn \/ WriteSend \/ TurnChanged \/ WriteInterrupt \/ SetTurn
           \/ InterruptConfirmed \/ MarkSent \/ WriteReply \/ Resumed \/ GiveUp \/ UNCHANGED vars
  BY <1>1, <1>5 DEF StartTurn, WriteSend, TurnChanged, WriteInterrupt, SetTurn, InterruptConfirmed,
                    MarkSent, WriteReply, Resumed, GiveUp, Write, Done, snapshotVars, providerVars,
                    vars, handlerVars
<1>6. CASE EventThread
  <2>1. /\ queue # <<>> /\ queue' = Tail(queue)
        /\ UNCHANGED <<running, managed>> /\ known \subseteq known'
    BY <1>6 DEF EventThread, ApplyDisconnect, ApplyEvent, ApplySpawn, ApplyRequest, ApplyResolved,
                ApplyStarted, ApplyCompleted, ApplyOther, providerVars
  <2>2. QED
    BY <2>1, Taken DEF MainsOwned
<1>7. CASE Serve
  <2>1. PICK command \in ToSet(commands) :
          /\ Read(command)
          /\ \/ AcceptThread(command) \/ AcceptTurn(command) \/ AcceptSteer(command)
             \/ AcceptReply(command) \/ RefuseCommand(command)
    BY <1>7 DEF Serve
  <2>2. /\ command \in Commands /\ UNCHANGED <<managed, known>>
        /\ command.thread \in managed \/ command.kind = "thread/start"
    BY <2>1, Served DEF snapshotVars
  <2>3. CASE AcceptTurn(command)
    <3>1. command.thread \in Threads /\ turns + 1 \in Turns
      BY <2>2, <2>3, BoundsAssumption DEF AcceptTurn, Commands, Turns, Typed
    <3>2. Event("turn/started", command.thread, turns + 1, 0) \in Events
          /\ Event("turn/started", command.thread, turns + 1, 0).thread = command.thread
      BY <3>1, EventTyped
    <3>3. command.thread \in managed
      BY <2>2, <2>3 DEF AcceptTurn
    <3>4. \A t \in Mains : running'[t] # NoTurn => running[t] # NoTurn \/ t \in managed
      BY <2>3, <3>3 DEF AcceptTurn, Typed, Threads
    <3>5. QED
      BY <1>2, <2>2, <2>3, <3>2, <3>3, <3>4 DEF AcceptTurn
  <2>4. CASE AcceptReply(command)
    <3>1. command.thread \in Threads /\ command.ref \in Natives \cup {0} /\ command.kind = "reply"
      BY <2>2, <2>4 DEF Commands, AcceptReply
    <3>2. Event("resolved", command.thread, NoTurn, command.ref) \in Events
          /\ Event("resolved", command.thread, NoTurn, command.ref).thread = command.thread
      BY <3>1, EventTyped
    <3>3. CASE queue' = queue
      BY <1>1, <2>2, <2>4, <3>3 DEF AcceptReply
    <3>4. CASE queue' # queue
      BY <1>2, <2>2, <2>4, <3>1, <3>2, <3>4 DEF AcceptReply
    <3>5. QED
      BY <3>3, <3>4
  <2>5. QED
    BY <1>1, <2>1, <2>2, <2>3, <2>4 DEF AcceptThread, AcceptSteer, RefuseCommand
<1>8. CASE Die
  <2>1. Event("eof", NoThread, NoTurn, 0).thread = NoThread /\ Event("eof", NoThread, NoTurn, 0) \in Events
    BY EventTyped
  <2>2. \A t \in Mains : running'[t] = NoTurn
    BY <1>8 DEF Die, Threads
  <2>3. QED
    BY <1>2, <1>8, <2>1, <2>2, ThreadsAssumption DEF Die, snapshotVars, Threads
<1>9. ASSUME NEW event \in Events, Emit(event), event.thread \in Mains => event.thread \in managed,
             \A t \in Mains : running'[t] # NoTurn => running[t] # NoTurn \/ t \in managed
      PROVE  MainsOwned'
  BY <1>2, <1>9 DEF Emit, snapshotVars
<1>10. ASSUME NEW t \in Threads, FinishTurn(t) \/ Ask(t) \/ Chatter(t) PROVE MainsOwned'
  <2>1. ASSUME Ask(t) PROVE requests + 1 \in Natives
    BY <2>1, BoundsAssumption DEF Ask, Natives, Typed
  <2>2. running[t] \in Turns \cup {NoTurn} /\ (t \in Mains => t \in managed)
    BY <1>10 DEF Typed, MainsOwned, FinishTurn, Ask, Chatter
  <2>3. \A u \in Mains : running'[u] # NoTurn => running[u] # NoTurn
    BY <1>10 DEF FinishTurn, Ask, Chatter, Typed, Threads
  <2>4. QED
    BY <1>9, <1>10, <2>1, <2>2, <2>3, EventTyped DEF FinishTurn, Ask, Chatter
<1>11. ASSUME NEW t \in Mains, NEW child \in Children, Spawn(t, child) PROVE MainsOwned'
  <2>1. t \in Threads /\ running[t] \in Turns \cup {NoTurn} /\ t \in managed
    BY <1>11 DEF Typed, Threads, MainsOwned, Spawn
  <2>2. QED
    BY <1>9, <1>11, <2>1, EventTyped DEF Spawn
<1>12. ASSUME NEW child \in Children, ChildTurn(child) PROVE MainsOwned'
  <2>1. child \in Threads /\ turns + 1 \in Turns /\ child \notin Mains
    BY <1>12, BoundsAssumption, ThreadsAssumption DEF ChildTurn, Turns, Threads, Typed
  <2>2. \A u \in Mains : running'[u] = running[u]
    BY <1>12, <2>1 DEF ChildTurn, Typed, Threads
  <2>3. QED
    BY <1>9, <1>12, <2>1, <2>2, EventTyped DEF ChildTurn
<1>13. QED
  BY <1>3, <1>4, <1>5, <1>6, <1>7, <1>8, <1>10, <1>11, <1>12
     DEF Next, Proceed, Provider

-----------------------------------------------------------------------------
(* Offers.  What takes a request off the list again: its resolution, or    *)
(* the completion of the turn that made it.                                *)
Closes(i, request) ==
  \/ queue[i].method = "resolved" /\ queue[i].ref = request.native
  \/ /\ queue[i].method = "turn/completed"
     /\ queue[i].thread = request.thread /\ queue[i].turn = request.turn

(* The provider still asks it, in the turn that made it.                   *)
IsOpen(request) ==
  /\ [native |-> request.native, thread |-> request.thread] \in asked
  /\ request.turn = running[request.thread]

RequestAt(i) == [native |-> queue[i].ref, thread |-> queue[i].thread, turn |-> queue[i].turn]

(* A request on offer, or on its way, is open, or what closes it follows.  *)
OffersSettle ==
  /\ \A r \in asked : r.native <= requests
  /\ alive =>
     /\ \A p \in pending : p.thread \in Mains =>
          IsOpen(p) \/ \E i \in DOMAIN queue : Closes(i, p)
     /\ \A i \in DOMAIN queue :
          queue[i].method = "request" /\ queue[i].thread \in Mains =>
            IsOpen(RequestAt(i)) \/ \E j \in DOMAIN queue : j > i /\ Closes(j, RequestAt(i))

(* Steps that touch neither the channel nor what is asked.                 *)
LEMMA OffersAside ==
  ASSUME Typed, OffersSettle, UNCHANGED <<queue, asked, running, requests>>, alive' => alive,
         \A p \in pending' : \E q \in pending :
           p.native = q.native /\ p.thread = q.thread /\ p.turn = q.turn
  PROVE  OffersSettle'
<1>1. \A i : RequestAt(i)' = RequestAt(i)
  BY DEF RequestAt
<1>2. \A i, r : Closes(i, r)' <=> Closes(i, r)
  BY DEF Closes
<1>3. ASSUME alive, NEW p \in pending', p.thread \in Mains
      PROVE  IsOpen(p)' \/ \E i \in DOMAIN queue' : Closes(i, p)'
  BY <1>3 DEF OffersSettle, IsOpen, Closes
<1>4. ASSUME alive, NEW i \in DOMAIN queue', queue'[i].method = "request", queue'[i].thread \in Mains
      PROVE  IsOpen(RequestAt(i))' \/ \E j \in DOMAIN queue' : j > i /\ Closes(j, RequestAt(i))'
  BY <1>1, <1>2, <1>4 DEF OffersSettle, IsOpen, Closes
<1>5. QED
  BY <1>3, <1>4 DEF OffersSettle

(* Writing a command leaves the offers as they are, or empties the         *)
(* connection.                                                             *)
LEMMA WriteOffers ==
  ASSUME Typed, InChannel, OffersSettle, NEW command \in Commands, Write(command), pending' = pending
  PROVE  OffersSettle'
<1>1. UNCHANGED <<queue, asked, running, requests>>
  BY DEF Write
<1>2. CASE Reuse
  BY <1>1, <1>2, OffersAside DEF Reuse
<1>3. CASE ~connected /\ Connect
  <2>1. queue = <<>> /\ pending = {}
    BY <1>3 DEF InChannel, PendingCurrent
  <2>2. QED
    BY <1>1, <2>1 DEF OffersSettle
<1>4. QED
  BY <1>2, <1>3 DEF Write

(* An event is queued.  What is still open is, or the event closes it.     *)
LEMMA EmittedOffers ==
  ASSUME Typed, OffersSettle, alive, NEW event \in Events, queue' = Append(queue, event),
         pending' = pending, requests <= requests', requests' \in Nat,
         \A r \in asked' : r \in asked \/ r.native = requests',
         \A n \in Natives, t \in Mains, turn \in Turns :
           LET request == [native |-> n, thread |-> t, turn |-> turn] IN
           IsOpen(request) =>
             \/ IsOpen(request)'
             \/ event.method = "resolved" /\ event.ref = n
             \/ event.method = "turn/completed" /\ event.thread = t /\ event.turn = turn,
         event.method = "request" /\ event.thread \in Mains =>
           IsOpen([native |-> event.ref, thread |-> event.thread, turn |-> event.turn])'
  PROVE  OffersSettle'
<1>0. PICK last : last = Len(queue) + 1
  OBVIOUS
<1>1. /\ \A i \in DOMAIN queue : i \in DOMAIN queue' /\ i < last /\ queue'[i] = queue[i]
      /\ last \in DOMAIN queue' /\ queue'[last] = event
      /\ \A i \in DOMAIN queue' : i \in DOMAIN queue \/ i = last
  BY <1>0, Appended
<1>2. \A i \in DOMAIN queue : RequestAt(i)' = RequestAt(i)
  BY <1>1 DEF RequestAt
<1>3. \A i \in DOMAIN queue : \A r : Closes(i, r) => Closes(i, r)'
  BY <1>1 DEF Closes
<1>4. ASSUME NEW n \in Natives, NEW t \in Mains, NEW turn \in Turns,
             IsOpen([native |-> n, thread |-> t, turn |-> turn])
      PROVE  \/ IsOpen([native |-> n, thread |-> t, turn |-> turn])'
             \/ Closes(last, [native |-> n, thread |-> t, turn |-> turn])'
  BY <1>1, <1>4 DEF Closes
<1>5. ASSUME NEW p \in pending', p.thread \in Mains
      PROVE  IsOpen(p)' \/ \E i \in DOMAIN queue' : Closes(i, p)'
  <2> DEFINE request == [native |-> p.native, thread |-> p.thread, turn |-> p.turn]
  <2>1. p \in pending /\ p.native \in Natives /\ p.turn \in Turns
    BY DEF Typed, Pending
  <2>2. CASE IsOpen(p)
    <3>1. IsOpen(request)
      BY <2>2 DEF IsOpen
    <3>2. IsOpen(request)' \/ Closes(last, request)'
      BY <1>4, <1>5, <2>1, <3>1
    <3>3. (IsOpen(request)' => IsOpen(p)') /\ (Closes(last, request)' => Closes(last, p)')
      BY DEF IsOpen, Closes
    <3>4. QED
      BY <1>1, <3>2, <3>3
  <2>3. CASE \E i \in DOMAIN queue : Closes(i, p)
    BY <1>1, <1>3, <2>3
  <2>4. QED
    BY <1>5, <2>1, <2>2, <2>3 DEF OffersSettle
<1>6. ASSUME NEW i \in DOMAIN queue', queue'[i].method = "request", queue'[i].thread \in Mains
      PROVE  IsOpen(RequestAt(i))' \/ \E j \in DOMAIN queue' : j > i /\ Closes(j, RequestAt(i))'
  <2>1. CASE i = last
    <3>1. RequestAt(i)' = [native |-> event.ref, thread |-> event.thread, turn |-> event.turn]
      BY <1>1, <2>1 DEF RequestAt
    <3>2. QED
      BY <1>1, <1>6, <2>1, <3>1 DEF IsOpen
  <2>2. CASE i \in DOMAIN queue
    <3>1. /\ queue[i].method = "request" /\ queue[i].thread \in Mains /\ queue[i].ref \in Natives
          /\ queue[i].turn \in Turns
      BY <1>1, <1>6, <2>2 DEF Typed
    <3>2. CASE IsOpen(RequestAt(i))
      <4>1. IsOpen(RequestAt(i))' \/ Closes(last, RequestAt(i))'
        BY <1>2, <1>4, <2>2, <3>1, <3>2 DEF RequestAt
      <4>2. last > i
        BY <1>1, <2>2 DEF Typed
      <4>3. QED
        BY <1>1, <4>1, <4>2
    <3>3. CASE \E j \in DOMAIN queue : j > i /\ Closes(j, RequestAt(i))
      <4>1. PICK j \in DOMAIN queue : j > i /\ Closes(j, RequestAt(i))
        BY <3>3
      <4>2. Closes(j, RequestAt(i))'
        BY <1>1, <1>2, <2>2, <4>1 DEF Closes
      <4>3. QED
        BY <1>1, <4>1, <4>2
    <3>4. QED
      BY <2>2, <3>1, <3>2, <3>3 DEF OffersSettle
  <2>3. QED
    BY <1>1, <2>1, <2>2
<1>7. \A r \in asked' : r.native <= requests'
  BY DEF OffersSettle, Typed, Natives
<1>8. QED
  BY <1>5, <1>6, <1>7 DEF OffersSettle

(* The next event is applied: what it closes leaves the list.              *)
LEMMA ApplyOffers ==
  ASSUME Typed, InChannel, MainsOwned, OffersSettle, ApplyDisconnect \/ ApplyEvent
  PROVE  OffersSettle'
<1>1. /\ queue # <<>> /\ queue' = Tail(queue)
      /\ UNCHANGED <<alive, asked, running, requests>>
  BY DEF ApplyDisconnect, ApplyEvent, providerVars
<1>2. /\ 1 \in DOMAIN queue /\ Head(queue) = queue[1]
      /\ \A i \in DOMAIN queue' : i + 1 \in DOMAIN queue /\ queue'[i] = queue[i + 1]
      /\ \A i \in DOMAIN queue : i = 1 \/ (i - 1 \in DOMAIN queue' /\ queue'[i - 1] = queue[i])
      /\ DOMAIN queue = 1..Len(queue) /\ Len(queue) \in Nat /\ DOMAIN queue' \subseteq Nat \ {0}
  BY <1>1, Taken
<1>3. CASE ApplyDisconnect \/ ~alive
  <2>1. ~alive
    BY <1>2, <1>3 DEF ApplyDisconnect, InChannel, Ends
  <2>2. QED
    BY <1>1, <2>1 DEF OffersSettle
<1>4. CASE ApplyEvent /\ alive
  <2>1. ASSUME NEW p \in pending' PROVE p \in pending \/ (queue[1].method = "request" /\ p.native = queue[1].ref
                                          /\ p.thread = queue[1].thread /\ p.turn = queue[1].turn)
    BY <1>2, <1>4, <2>1 DEF ApplyEvent, ApplySpawn, ApplyRequest, ApplyResolved, ApplyStarted,
                            ApplyCompleted, ApplyOther
  <2>2. ASSUME NEW p \in pending', p.thread \in Mains PROVE ~Closes(1, p)
    BY <1>2, <1>4, <2>2 DEF ApplyEvent, ApplyResolved, ApplyCompleted, Closes, MainsOwned
  <2>3. \A i \in DOMAIN queue : \A r : i # 1 /\ Closes(i, r) => Closes(i - 1, r)'
    BY <1>2 DEF Closes
  <2>4. ASSUME NEW p \in pending', p.thread \in Mains
        PROVE  IsOpen(p)' \/ \E i \in DOMAIN queue' : Closes(i, p)'
    <3>1. CASE p \in pending
      <4>1. IsOpen(p) \/ \E i \in DOMAIN queue : Closes(i, p)
        BY <1>4, <2>4, <3>1 DEF OffersSettle
      <4>2. QED
        BY <1>1, <1>2, <2>2, <2>3, <2>4, <4>1 DEF IsOpen
    <3>2. CASE p \notin pending
      <4>1. /\ queue[1].method = "request" /\ p.native = queue[1].ref
            /\ p.thread = queue[1].thread /\ p.turn = queue[1].turn
        BY <2>1, <2>4, <3>2
      <4>2. IsOpen(RequestAt(1)) \/ \E j \in DOMAIN queue : j > 1 /\ Closes(j, RequestAt(1))
        BY <1>2, <1>4, <2>4, <4>1 DEF OffersSettle
      <4>3. (IsOpen(RequestAt(1)) => IsOpen(p)) /\ \A j : Closes(j, RequestAt(1)) => Closes(j, p)
        BY <4>1 DEF IsOpen, Closes, RequestAt
      <4>4. QED
        BY <1>1, <1>2, <2>3, <4>2, <4>3 DEF IsOpen
    <3>3. QED
      BY <3>1, <3>2
  <2>5. ASSUME NEW i \in DOMAIN queue', queue'[i].method = "request", queue'[i].thread \in Mains
        PROVE  IsOpen(RequestAt(i))' \/ \E j \in DOMAIN queue' : j > i /\ Closes(j, RequestAt(i))'
    <3>1. /\ i + 1 \in DOMAIN queue /\ i + 1 # 1 /\ queue[i + 1].method = "request"
          /\ queue[i + 1].thread \in Mains /\ RequestAt(i)' = RequestAt(i + 1)
      BY <1>2, <2>5 DEF RequestAt
    <3>2. CASE IsOpen(RequestAt(i + 1))
      BY <1>1, <3>1, <3>2 DEF IsOpen
    <3>3. CASE \E j \in DOMAIN queue : j > i + 1 /\ Closes(j, RequestAt(i + 1))
      <4>1. PICK j \in DOMAIN queue : j > i + 1 /\ Closes(j, RequestAt(i + 1))
        BY <3>3
      <4>2. j - 1 \in DOMAIN queue' /\ j - 1 > i /\ queue'[j - 1] = queue[j]
        BY <1>2, <3>1, <4>1
      <4>3. Closes(j - 1, RequestAt(i))'
        BY <3>1, <4>1, <4>2 DEF Closes
      <4>4. QED
        BY <4>2, <4>3
    <3>4. QED
      BY <1>4, <3>1, <3>2, <3>3 DEF OffersSettle
  <2>6. QED
    BY <1>1, <2>4, <2>5 DEF OffersSettle
<1>5. QED
  BY <1>3, <1>4

(* Every step keeps each offer open, or its closing on the way.            *)
LEMMA OffersSettleStep ==
  Typed /\ Owned /\ InChannel /\ MainsOwned /\ OffersSettle /\ [Next]_vars => OffersSettle'
<1> SUFFICES ASSUME Typed, Owned, InChannel, MainsOwned, OffersSettle, [Next]_vars PROVE OffersSettle'
  OBVIOUS
<1>1. ASSUME NEW t \in Mains, BeginStart(t) PROVE OffersSettle'
  <2>1. Command("thread/start", t, NoTurn, 0) \in Commands
    BY CommandTyped DEF Threads
  <2>2. QED
    BY <1>1, <2>1, WriteOffers DEF BeginStart
<1>2. ASSUME NEW t \in Threads, BeginReconnect(t) PROVE OffersSettle'
  <2>1. Command("thread/resume", t, NoTurn, 0) \in Commands
    BY CommandTyped
  <2>2. QED
    BY <1>2, <2>1, WriteOffers DEF BeginReconnect
<1>3. CASE WriteSend
  <2>1. Command(IF op.turn = NoTurn THEN "turn/start" ELSE "turn/steer", op.thread, op.turn, 0)
          \in Commands
    BY <1>3, CommandTyped DEF WriteSend, Typed
  <2>2. QED
    BY <1>3, <2>1, WriteOffers DEF WriteSend
<1>4. CASE WriteInterrupt
  <2>1. Command("turn/interrupt", op.thread, op.turn, 0) \in Commands
    BY <1>4, CommandTyped DEF WriteInterrupt, Typed
  <2>2. QED
    BY <1>4, <2>1, WriteOffers DEF WriteInterrupt
<1>5. CASE WriteReply
  <2>1. op.request.native \in Natives \cup {0}
    BY <1>5 DEF WriteReply, Typed, Pending
  <2>2. Command("reply", op.thread, op.turn, op.request.native) \in Commands
    BY <1>5, <2>1, CommandTyped DEF WriteReply, Typed
  <2>3. QED
    BY <1>5, <2>2, WriteOffers DEF WriteReply
<1>6. CASE TurnChanged
  <2>1. queue = <<>> /\ pending = {} /\ UNCHANGED <<queue, pending, asked, running, requests>>
    BY <1>6 DEF TurnChanged, InChannel, PendingCurrent
  <2>2. QED
    BY <2>1 DEF OffersSettle
<1>7. CASE MarkSent
  <2>1. UNCHANGED <<queue, asked, running, requests, alive>>
    BY <1>7 DEF MarkSent, providerVars
  <2>2. QED
    BY <1>7, <2>1, MarkedTyped, OffersAside
<1>8. CASE \/ RegisterThread \/ StartTurn \/ SetTurn \/ InterruptConfirmed \/ Resumed \/ GiveUp
           \/ UNCHANGED vars
  BY <1>8, OffersAside DEF RegisterThread, StartTurn, SetTurn, InterruptConfirmed, Resumed, GiveUp,
         vars, snapshotVars, providerVars
<1>9. ASSUME \/ \E t \in Threads, turn \in Turns \cup {NoTurn}, kind \in {"send", "interrupt"} :
                  BeginControlled(kind, t, turn)
             \/ \E request \in pending : BeginReply(request)
      PROVE  OffersSettle'
  BY <1>9, OffersAside DEF BeginControlled, BeginReply, snapshotVars, providerVars
<1>10. CASE Serve
  <2>1. PICK command \in ToSet(commands) :
          /\ Read(command)
          /\ \/ AcceptThread(command) \/ AcceptTurn(command) \/ AcceptSteer(command)
             \/ AcceptReply(command) \/ RefuseCommand(command)
    BY <1>10 DEF Serve
  <2>2. command \in Commands /\ alive /\ UNCHANGED <<alive, pending>>
    BY <2>1, Served DEF snapshotVars
  <2>3. CASE AcceptThread(command) \/ AcceptSteer(command) \/ RefuseCommand(command)
    BY <2>2, <2>3, OffersAside DEF AcceptThread, AcceptSteer, RefuseCommand
  <2>4. CASE AcceptTurn(command)
    <3>1. command.thread \in Threads /\ turns + 1 \in Turns
      BY <2>2, <2>4, BoundsAssumption DEF AcceptTurn, Commands, Turns, Typed
    <3>2. Event("turn/started", command.thread, turns + 1, 0) \in Events
          /\ Event("turn/started", command.thread, turns + 1, 0).method = "turn/started"
      BY <3>1, EventTyped
    <3>3. \A n \in Natives, t \in Mains, turn \in Turns :
            IsOpen([native |-> n, thread |-> t, turn |-> turn]) =>
              IsOpen([native |-> n, thread |-> t, turn |-> turn])'
      BY <2>4, <3>1 DEF AcceptTurn, IsOpen, Typed, Turns, NoTurn
    <3>4. requests <= requests' /\ requests' \in Nat /\ asked' = asked
      BY <2>4 DEF AcceptTurn, Typed
    <3>5. QED
      BY <2>2, <2>4, <3>2, <3>3, <3>4, EmittedOffers DEF AcceptTurn
  <2>5. CASE AcceptReply(command)
    <3>1. command.thread \in Threads /\ command.ref \in Natives \cup {0}
      BY <2>2 DEF Commands
    <3>2. /\ Event("resolved", command.thread, NoTurn, command.ref) \in Events
          /\ Event("resolved", command.thread, NoTurn, command.ref).method = "resolved"
          /\ Event("resolved", command.thread, NoTurn, command.ref).ref = command.ref
      BY <3>1, EventTyped
    <3>3. CASE asked' = asked
      BY <2>2, <2>5, <3>3, OffersAside DEF AcceptReply
    <3>4. CASE asked' # asked
      <4>1. \A n \in Natives, t \in Mains, turn \in Turns :
              IsOpen([native |-> n, thread |-> t, turn |-> turn]) =>
                IsOpen([native |-> n, thread |-> t, turn |-> turn])' \/ command.ref = n
        BY <2>5 DEF AcceptReply, IsOpen
      <4>2. requests <= requests' /\ requests' \in Nat /\ asked' \subseteq asked
        BY <2>5 DEF AcceptReply, Typed
      <4>3. QED
        BY <2>2, <2>5, <3>2, <3>4, <4>1, <4>2, EmittedOffers DEF AcceptReply
    <3>5. QED
      BY <3>3, <3>4
  <2>6. QED
    BY <2>1, <2>3, <2>4, <2>5
<1>11. CASE Die
  BY <1>11 DEF Die, OffersSettle
<1>12. ASSUME NEW t \in Threads, FinishTurn(t) PROVE OffersSettle'
  <2> DEFINE event == Event("turn/completed", t, running[t], 0)
  <2>1. running[t] \in Turns /\ running[t] \in Turns \cup {NoTurn}
    BY <1>12 DEF Typed, FinishTurn
  <2>2. /\ event \in Events /\ event.method = "turn/completed" /\ event.thread = t
        /\ event.turn = running[t]
    BY <2>1, EventTyped
  <2>3. /\ alive /\ queue' = Append(queue, event) /\ pending' = pending /\ asked' \subseteq asked
        /\ requests' = requests
    BY <1>12 DEF FinishTurn, Emit, snapshotVars
  <2>4. ASSUME NEW n \in Natives, NEW u \in Mains, NEW turn \in Turns,
               IsOpen([native |-> n, thread |-> u, turn |-> turn])
        PROVE  IsOpen([native |-> n, thread |-> u, turn |-> turn])' \/ (t = u /\ running[t] = turn)
    BY <1>12, <2>4 DEF FinishTurn, IsOpen, Typed, Threads
  <2>5. requests <= requests' /\ requests' \in Nat
    BY <2>3 DEF Typed
  <2> HIDE DEF event
  <2>6. QED
    BY <2>2, <2>3, <2>4, <2>5, EmittedOffers
<1>13. ASSUME NEW t \in Threads, Ask(t) PROVE OffersSettle'
  <2>0. PICK event : event = Event("request", t, running[t], requests + 1)
    OBVIOUS
  <2>1. /\ running[t] \in Turns /\ running[t] \in Turns \cup {NoTurn}
        /\ requests \in Nat /\ requests' = requests + 1 /\ requests + 1 \in Natives
    BY <1>13, BoundsAssumption DEF Typed, Ask, Natives
  <2>2. /\ event \in Events /\ event.method = "request" /\ event.thread = t
        /\ event.turn = running[t] /\ event.ref = requests + 1
    BY <2>0, <2>1, EventTyped
  <2>3. /\ alive /\ queue' = Append(queue, event) /\ pending' = pending /\ running' = running
        /\ asked' = asked \cup {[native |-> requests + 1, thread |-> t]}
    BY <1>13, <2>0 DEF Ask, Emit, snapshotVars
  <2>4. \A n \in Natives, u \in Mains, turn \in Turns :
          IsOpen([native |-> n, thread |-> u, turn |-> turn]) =>
            IsOpen([native |-> n, thread |-> u, turn |-> turn])'
    BY <2>3 DEF IsOpen
  <2>5. IsOpen([native |-> event.ref, thread |-> event.thread, turn |-> event.turn])'
    BY <2>2, <2>3 DEF IsOpen
  <2>6. requests <= requests' /\ requests' \in Nat
        /\ \A r \in asked' : r \in asked \/ r.native = requests'
    BY <2>1, <2>3
  <2>7. QED
    BY <2>2, <2>3, <2>4, <2>5, <2>6, EmittedOffers
<1>14. ASSUME NEW event \in Events, event.method # "request", Emit(event),
              UNCHANGED <<asked, requests>>, \A t \in Mains : running'[t] = running[t]
       PROVE  OffersSettle'
  <2>1. alive /\ queue' = Append(queue, event) /\ pending' = pending
    BY <1>14 DEF Emit, snapshotVars
  <2>2. \A n \in Natives, u \in Mains, turn \in Turns :
          IsOpen([native |-> n, thread |-> u, turn |-> turn]) =>
            IsOpen([native |-> n, thread |-> u, turn |-> turn])'
    BY <1>14 DEF IsOpen
  <2>3. requests <= requests' /\ requests' \in Nat
    BY <1>14 DEF Typed
  <2>4. QED
    BY <1>14, <2>1, <2>2, <2>3, EmittedOffers
<1>15. ASSUME NEW t \in Threads, Chatter(t) PROVE OffersSettle'
  <2>1. running[t] \in Turns \cup {NoTurn}
    BY DEF Typed
  <2>2. QED
    BY <1>14, <1>15, <2>1, EventTyped DEF Chatter
<1>16. ASSUME NEW t \in Mains, NEW child \in Children, Spawn(t, child) PROVE OffersSettle'
  <2>1. t \in Threads /\ running[t] \in Turns \cup {NoTurn}
    BY DEF Typed, Threads
  <2>2. QED
    BY <1>14, <1>16, <2>1, EventTyped DEF Spawn
<1>17. ASSUME NEW child \in Children, ChildTurn(child) PROVE OffersSettle'
  <2>1. child \in Threads /\ turns + 1 \in Turns /\ child \notin Mains
    BY <1>17, BoundsAssumption, ThreadsAssumption DEF ChildTurn, Turns, Threads, Typed
  <2>2. \A u \in Mains : running'[u] = running[u]
    BY <1>17, <2>1 DEF ChildTurn, Typed, Threads
  <2>3. QED
    BY <1>14, <1>17, <2>1, <2>2, EventTyped DEF ChildTurn
<1>18. QED
  BY <1>1, <1>2, <1>3, <1>4, <1>5, <1>6, <1>7, <1>8, <1>9, <1>10, <1>11, <1>12, <1>13, <1>15, <1>16,
     <1>17, ApplyOffers
     DEF Next, Begin, Proceed, EventThread, Provider

(* In quiescence no approval is offered that its provider no longer waits  *)
(* for (apply_event, serverRequest/resolved, turn/completed): what closes  *)
(* a request is always still on its way to the list that holds it.         *)
THEOREM OffersAreOpenCorrect == Spec => []OffersAreOpen
<1> DEFINE Inv == Typed /\ Owned /\ InChannel /\ MainsOwned /\ OffersSettle
<1>1. Init => Inv
  <2> SUFFICES ASSUME Init PROVE Inv
    OBVIOUS
  <2>1. InChannel /\ OffersSettle
    BY DEF Init, InChannel, PendingCurrent, OffersSettle
  <2>2. MainsOwned
    BY DEF Init, MainsOwned, Threads
  <2>3. QED
    BY <2>1, <2>2, InitTyped
<1>2. Inv => OffersAreOpen
  BY DEF OffersAreOpen, Quiet, OffersSettle, IsOpen, Owned
<1>3. Inv /\ [Next]_vars => Inv'
  BY TypedStep, OwnedStep, InChannelStep, MainsOwnedStep, OffersSettleStep
<1>4. QED
  BY <1>1, <1>2, <1>3, PTL DEF Spec

-----------------------------------------------------------------------------
(* Types: what Typed leaves out.                                           *)
Marks == [thread : Threads \cup {NoThread}, turn : Turns \cup {NoTurn}]

Answering ==
  /\ answer \in [result : {"none", "ok", "error"}, turn : Turns \cup {NoTurn}]
  /\ pc \in {"idle", "starting", "registered", "turning", "checked",
             "confirming", "replying", "marked", "resuming"}
  /\ op = NoOp <=> pc = "idle"
  /\ seen \in Turns \cup {NoTurn}

Shaped ==
  /\ known \subseteq Threads /\ active \in [Threads -> Turns \cup {NoTurn}]
  /\ IsFiniteSet(pending) /\ Cardinality(pending) <= RequestLimit
  /\ window \in Seq(Marks) /\ Len(window) <= WindowLimit
  /\ Answering
  /\ loaded \subseteq Threads /\ created \subseteq Threads
  /\ asked \subseteq [native : Natives, thread : Threads]
  /\ \A i \in DOMAIN queue : queue[i].method = "spawn" => queue[i].ref \in Children

(* An answer is one of the three, with a turn or none.                     *)
LEMMA Answered ==
  ASSUME Answering, NEW turn \in Turns \cup {NoTurn}, NEW result \in {"none", "ok", "error"},
         NEW command, Deliver(command, result, turn), UNCHANGED <<pc, op, seen>>
  PROVE  Answering'
  BY DEF Answering, Deliver

(* An operation in progress is told apart from no operation.               *)
LEMMA Operations ==
  ASSUME NEW kind \in Kinds, NEW thread, NEW turn, NEW request
  PROVE  /\ [kind |-> kind, thread |-> thread, turn |-> turn] # NoOp
         /\ [kind |-> kind, thread |-> thread, turn |-> turn, request |-> request] # NoOp
<1>1. [kind |-> kind, thread |-> thread, turn |-> turn].kind # NoOp.kind
  BY DEF NoOp, Kinds
<1>2. [kind |-> kind, thread |-> thread, turn |-> turn, request |-> request].kind # NoOp.kind
  BY DEF NoOp, Kinds
<1>3. QED
  BY <1>1, <1>2

(* Every step keeps the handler and its answer well typed.                 *)
LEMMA AnsweringStep == Typed /\ Shaped /\ [Next]_vars => Answering'
<1> SUFFICES ASSUME Typed, Shaped, [Next]_vars PROVE Answering'
  OBVIOUS
<1> USE DEF NoTurn
<1>1. Answering /\ NoAnswer \in [result : {"none", "ok", "error"}, turn : Turns \cup {NoTurn}]
  BY DEF Shaped, NoAnswer
<1>2. ASSUME UNCHANGED handlerVars PROVE Answering'
  BY <1>1, <1>2 DEF Answering, handlerVars
<1>3. ASSUME Done PROVE Answering'
  BY <1>1, <1>3 DEF Answering, Done
<1>4. ASSUME pc # "idle", UNCHANGED <<op, seen>>, answer' = NoAnswer \/ answer' = answer,
             pc' \in {"starting", "registered", "turning", "confirming", "marked"}
      PROVE  Answering'
  BY <1>1, <1>4 DEF Answering
<1>5. ASSUME op' # NoOp, answer' = NoAnswer, seen' \in Turns \cup {NoTurn},
             pc' \in {"starting", "checked", "replying", "resuming"}
      PROVE  Answering'
  BY <1>1, <1>5 DEF Answering
<1>6. CASE Begin
  <2>1. ASSUME NEW t \in Mains, BeginStart(t) PROVE Answering'
    BY <1>5, <2>1, Operations DEF BeginStart, Await, Kinds
  <2>2. ASSUME NEW t \in Threads, BeginReconnect(t) PROVE Answering'
    BY <1>5, <2>2, Operations DEF BeginReconnect, Await, Kinds
  <2>3. ASSUME NEW t \in Threads, NEW turn \in Turns \cup {NoTurn}, NEW kind \in {"send", "interrupt"},
               BeginControlled(kind, t, turn)
        PROVE  Answering'
    BY <1>5, <2>3, Operations DEF BeginControlled, Kinds, Shaped
  <2>4. ASSUME NEW request \in pending, BeginReply(request) PROVE Answering'
    <3>1. request.turn \in Turns \cup {NoTurn}
      BY DEF Typed, Pending
    <3>2. QED
      BY <1>5, <2>4, <3>1, Operations DEF BeginReply, Kinds
  <2>5. QED
    BY <1>6, <2>1, <2>2, <2>3, <2>4 DEF Begin
<1>7. CASE Proceed
  BY <1>2, <1>3, <1>4, <1>7
     DEF Proceed, RegisterThread, StartTurn, WriteSend, TurnChanged, WriteInterrupt, SetTurn,
         InterruptConfirmed, MarkSent, WriteReply, Resumed, GiveUp, Await, handlerVars
<1>8. CASE EventThread \/ UNCHANGED vars
  BY <1>2, <1>8 DEF EventThread, ApplyDisconnect, ApplyEvent, vars
<1>9. CASE Serve
  <2>1. PICK command \in ToSet(commands) :
          /\ Read(command)
          /\ \/ AcceptThread(command) \/ AcceptTurn(command) \/ AcceptSteer(command)
             \/ AcceptReply(command) \/ RefuseCommand(command)
    BY <1>9 DEF Serve
  <2>2. command \in Commands /\ UNCHANGED <<pc, op, seen>>
    BY <2>1 DEF Read, Typed, ToSet
  <2>3. command.turn \in Turns \cup {NoTurn} /\ (AcceptTurn(command) => turns + 1 \in Turns)
    BY <2>2, BoundsAssumption DEF Commands, AcceptTurn, Typed, Turns
  <2>4. QED
    BY <1>1, <1>2, <2>1, <2>2, <2>3, Answered
       DEF AcceptThread, AcceptTurn, AcceptSteer, AcceptReply, RefuseCommand, handlerVars
<1>10. CASE Die
  BY <1>1, <1>10 DEF Die, Answering
<1>11. CASE \/ \E t \in Threads : FinishTurn(t) \/ Ask(t) \/ Chatter(t)
            \/ \E child \in Children : ChildTurn(child)
            \/ \E t \in Mains, child \in Children : Spawn(t, child)
  BY <1>2, <1>11 DEF FinishTurn, Ask, Chatter, ChildTurn, Spawn, Emit
<1>12. QED
  BY <1>6, <1>7, <1>8, <1>9, <1>10, <1>11 DEF Next, Provider

(* At most RequestLimit approvals are kept.                                *)
PendingBounded == IsFiniteSet(pending) /\ Cardinality(pending) <= RequestLimit

(* Marking a request sent adds none.                                       *)
LEMMA MarkedBounded == ASSUME Typed, PendingBounded, MarkSent PROVE PendingBounded'
<1> DEFINE mark(p) == IF p.conn = op.request.conn /\ p.native = op.request.native
                      THEN [p EXCEPT !.sent = TRUE] ELSE p
           f == [p \in pending |-> mark(p)]
<1>1. pending' = {f[p] : p \in pending}
  BY DEF MarkSent
<1>2. f \in Surjection(pending, pending')
  BY <1>1 DEF Surjection
<1>3. IsFiniteSet(pending') /\ Cardinality(pending') <= Cardinality(pending)
  BY <1>2, FS_Surjection DEF PendingBounded, ExistsSurjection
<1>4. Cardinality(pending) \in Nat /\ Cardinality(pending') \in Nat /\ RequestLimit \in Nat
  BY <1>3, FS_CardinalityType, BoundsAssumption DEF PendingBounded
<1>5. QED
  BY <1>3, <1>4 DEF PendingBounded

(* apply_event adds a request only below the limit.                        *)
LEMMA AppliedBounded == ASSUME Typed, PendingBounded, ApplyEvent PROVE PendingBounded'
<1> DEFINE new == [conn |-> conn, native |-> Head(queue).ref, thread |-> Head(queue).thread,
                   turn |-> Head(queue).turn, sent |-> FALSE]
<1>1. Cardinality(pending) \in Nat /\ RequestLimit \in Nat
  BY FS_CardinalityType, BoundsAssumption DEF PendingBounded
<1>2. CASE pending' = pending \cup {new} /\ Cardinality(pending) < RequestLimit
  <2>1. IsFiniteSet(pending')
        /\ Cardinality(pending') = IF new \in pending THEN Cardinality(pending) ELSE Cardinality(pending) + 1
    BY <1>2, FS_AddElement DEF PendingBounded
  <2>2. QED
    BY <1>1, <1>2, <2>1 DEF PendingBounded
<1>3. CASE pending' \subseteq pending
  <2>1. IsFiniteSet(pending') /\ Cardinality(pending') <= Cardinality(pending)
    BY <1>3, FS_Subset DEF PendingBounded
  <2>2. Cardinality(pending') \in Nat
    BY <2>1, FS_CardinalityType
  <2>3. QED
    BY <1>1, <2>1, <2>2 DEF PendingBounded
<1>4. QED
  BY <1>2, <1>3 DEF ApplyEvent, ApplySpawn, ApplyRequest, ApplyResolved, ApplyStarted, ApplyCompleted,
                    ApplyOther

(* The window keeps the newest WindowLimit events.                         *)
LEMMA Retained ==
  ASSUME window \in Seq(Marks), Len(window) <= WindowLimit, NEW event \in Events, window' = Retain(event)
  PROVE  /\ window' \in Seq(Marks) /\ Len(window') <= WindowLimit
         /\ Mark(event) \in Marks
         /\ Len(window') >= Len(window) /\ Len(window') # 0
         /\ window'[Len(window')] = Mark(event)
         /\ \A i \in DOMAIN window' : window'[i] = Mark(event) \/ \E j \in DOMAIN window : window'[i] = window[j]
         /\ \/ \A i \in DOMAIN window : i \in DOMAIN window' /\ window'[i] = window[i]
            \/ /\ Len(window) = WindowLimit
               /\ \A i \in DOMAIN window : i = 1 \/ (i - 1 \in DOMAIN window' /\ window'[i - 1] = window[i])
<1> DEFINE all == Append(window, Mark(event))
<1>1. Mark(event) \in Marks
  BY DEF Mark, Marks, Events, NoTurn
<1>2. /\ all \in Seq(Marks) /\ Len(all) = Len(window) + 1 /\ Len(window) \in Nat
      /\ DOMAIN all = 1..(Len(window) + 1) /\ DOMAIN window = 1..Len(window)
      /\ all[Len(window) + 1] = Mark(event)
      /\ \A i \in DOMAIN window : i \in DOMAIN all /\ all[i] = window[i]
  BY <1>1
<1> HIDE DEF all
<1>3. WindowLimit \in Nat /\ WindowLimit # 0
  BY BoundsAssumption
<1>4. CASE Len(all) > WindowLimit
  <2>1. window' = Tail(all)
    BY <1>4 DEF Retain, all
  <2>2. /\ window' \in Seq(Marks) /\ Len(window') = Len(all) - 1 /\ DOMAIN window' = 1..(Len(all) - 1)
        /\ \A i \in 1..(Len(all) - 1) : window'[i] = all[i + 1]
    BY <1>2, <2>1
  <2>3. \A i \in DOMAIN window' : window'[i] = Mark(event) \/ \E j \in DOMAIN window : window'[i] = window[j]
    <3> TAKE i \in DOMAIN window'
    <3>1. CASE i = Len(window)
      BY <1>2, <2>2, <3>1
    <3>2. CASE i # Len(window)
      <4>1. i + 1 \in DOMAIN window /\ window'[i] = window[i + 1]
        BY <1>2, <2>2, <3>2
      <4>2. QED
        BY <4>1
    <3>3. QED
      BY <3>1, <3>2
  <2>4. Len(window) = WindowLimit /\ Len(window') = WindowLimit
    <3>1. Len(all) = Len(window) + 1 /\ Len(window) \in Nat /\ Len(window') = Len(all) - 1
      BY <1>2, <2>2
    <3>2. Len(window) <= WindowLimit
      OBVIOUS
    <3>3. QED
      BY <1>3, <1>4, <3>1, <3>2
  <2>5. window'[Len(window')] = Mark(event)
    BY <1>2, <1>3, <2>2, <2>4
  <2>6. ASSUME NEW i \in DOMAIN window, i # 1
        PROVE  i - 1 \in DOMAIN window' /\ window'[i - 1] = window[i]
    BY <1>2, <2>2, <2>6
  <2>7. QED
    BY <1>1, <1>3, <2>2, <2>3, <2>4, <2>5, <2>6
<1>5. CASE ~(Len(all) > WindowLimit)
  <2>1. window' = all
    BY <1>5 DEF Retain, all
  <2>2. \A i \in DOMAIN window : i \in DOMAIN window' /\ window'[i] = window[i]
    BY <1>2, <2>1
  <2>3. \A i \in DOMAIN window' : window'[i] = Mark(event) \/ \E j \in DOMAIN window : window'[i] = window[j]
    BY <1>2, <2>1
  <2>4. /\ window' \in Seq(Marks) /\ Len(window') <= WindowLimit
        /\ Len(window') >= Len(window) /\ Len(window') # 0
        /\ window'[Len(window')] = Mark(event)
    BY <1>2, <1>3, <1>5, <2>1
  <2>5. QED
    BY <1>1, <2>2, <2>3, <2>4
<1>6. QED
  BY <1>4, <1>5

(* Steps that touch nothing but the handler's place and the connection.    *)
LEMMA ShapedAside ==
  ASSUME Shaped, Answering', UNCHANGED <<known, active, pending, window, loaded, created, asked, queue>>
  PROVE  Shaped'
  BY DEF Shaped

(* The provider speaks without touching the view.                          *)
LEMMA EmittedShaped ==
  ASSUME Typed, Shaped, Answering', NEW event \in Events, queue' = Append(queue, event),
         event.method = "spawn" => event.ref \in Children,
         UNCHANGED <<known, active, pending, window>>, loaded' \subseteq Threads,
         created' \subseteq Threads, asked' \subseteq [native : Natives, thread : Threads]
  PROVE  Shaped'
<1>1. \A i \in DOMAIN queue' : queue'[i].method = "spawn" => queue'[i].ref \in Children
  BY Appended DEF Shaped
<1>2. QED
  BY <1>1 DEF Shaped

(* apply_event keeps the view in its types and limits.                     *)
LEMMA ApplyShaped == ASSUME Typed, Shaped, Answering', ApplyEvent PROVE Shaped'
<1> DEFINE event == Head(queue)
<1>1. /\ queue # <<>> /\ queue' = Tail(queue) /\ window' = Retain(event) /\ event \in Events
      /\ UNCHANGED <<loaded, created, asked>>
  BY DEF ApplyEvent, providerVars, Typed
<1>2. \A i \in DOMAIN queue' : queue'[i].method = "spawn" => queue'[i].ref \in Children
  BY <1>1, Taken DEF Shaped
<1>3. window' \in Seq(Marks) /\ Len(window') <= WindowLimit
  BY <1>1, Retained DEF Shaped
<1>4. PendingBounded'
  BY AppliedBounded DEF Shaped, PendingBounded
<1>5. event.method = "spawn" => event.ref \in Children
  BY <1>1, Taken DEF Shaped
<1>6. event.turn \in Turns \cup {NoTurn}
  BY <1>1 DEF Events
<1>7. known' \subseteq Threads
  BY <1>1, <1>5 DEF ApplyEvent, ApplySpawn, ApplyRequest, ApplyResolved, ApplyStarted, ApplyCompleted,
                    ApplyOther, Shaped, Threads
<1>8. active' \in [Threads -> Turns \cup {NoTurn}]
  BY <1>1, <1>6 DEF ApplyEvent, ApplySpawn, ApplyRequest, ApplyResolved, ApplyStarted, ApplyCompleted,
                    ApplyOther, Shaped, NoTurn
<1>9. QED
  BY <1>1, <1>2, <1>3, <1>4, <1>7, <1>8 DEF Shaped, PendingBounded

(* Every step keeps the types and limits of the view.                      *)
LEMMA ShapedStep == Typed /\ Shaped /\ [Next]_vars => Shaped'
<1> SUFFICES ASSUME Typed, Shaped, [Next]_vars PROVE Shaped'
  OBVIOUS
<1>1. Answering'
  BY AnsweringStep
<1>2. CASE Begin
  BY <1>1, <1>2, ShapedAside DEF Begin, BeginStart, BeginReconnect, BeginControlled, BeginReply,
                                 Write, snapshotVars, providerVars
<1>3. CASE RegisterThread \/ SetTurn \/ Resumed
  <2>1. op.thread \in Threads /\ answer.turn \in Turns \cup {NoTurn}
    BY <1>3 DEF RegisterThread, SetTurn, Resumed, Typed, Shaped, Answering
  <2>2. active' \in [Threads -> Turns \cup {NoTurn}] /\ known' \subseteq Threads
    BY <1>3, <2>1 DEF RegisterThread, SetTurn, Resumed, Shaped, NoTurn
  <2>3. UNCHANGED <<pending, window, loaded, created, asked, queue>>
    BY <1>3 DEF RegisterThread, SetTurn, Resumed, providerVars
  <2>4. QED
    BY <1>1, <2>2, <2>3 DEF Shaped
<1>4. CASE MarkSent
  <2>1. PendingBounded'
    BY <1>4, MarkedBounded DEF Shaped, PendingBounded
  <2>2. UNCHANGED <<known, active, window, loaded, created, asked, queue>>
    BY <1>4 DEF MarkSent, providerVars
  <2>3. QED
    BY <1>1, <2>1, <2>2 DEF Shaped, PendingBounded
<1>5. CASE \/ StartTurn \/ WriteSend \/ TurnChanged \/ WriteInterrupt \/ InterruptConfirmed
           \/ WriteReply \/ GiveUp \/ UNCHANGED vars
  BY <1>1, <1>5, ShapedAside
     DEF StartTurn, WriteSend, TurnChanged, WriteInterrupt, InterruptConfirmed, WriteReply, GiveUp,
         Write, Done, snapshotVars, providerVars, vars
<1>6. CASE ApplyDisconnect
  <2>1. UNCHANGED <<known, window, loaded, created, asked>> /\ pending' = {}
    BY <1>6 DEF ApplyDisconnect, providerVars
  <2>2. active' \in [Threads -> Turns \cup {NoTurn}]
    BY <1>6 DEF ApplyDisconnect
  <2>3. PendingBounded'
    BY <2>1, FS_EmptySet, BoundsAssumption DEF PendingBounded
  <2>4. \A i \in DOMAIN queue' : queue'[i].method = "spawn" => queue'[i].ref \in Children
    BY <1>6, Taken DEF ApplyDisconnect, Shaped
  <2>5. QED
    BY <1>1, <2>1, <2>2, <2>3, <2>4 DEF Shaped, PendingBounded
<1>7. CASE Serve
  <2>1. PICK command \in ToSet(commands) :
          /\ Read(command)
          /\ \/ AcceptThread(command) \/ AcceptTurn(command) \/ AcceptSteer(command)
             \/ AcceptReply(command) \/ RefuseCommand(command)
    BY <1>7 DEF Serve
  <2>2. command \in Commands /\ UNCHANGED <<known, active, pending, window>>
    BY <2>1 DEF Read, snapshotVars, Typed, ToSet
  <2>3. command.thread \in Threads /\ command.ref \in Natives \cup {0}
    BY <2>2 DEF Commands
  <2>4. CASE AcceptThread(command) \/ AcceptSteer(command) \/ RefuseCommand(command)
    BY <1>1, <2>2, <2>3, <2>4 DEF AcceptThread, AcceptSteer, RefuseCommand, Shaped
  <2>5. CASE AcceptTurn(command)
    <3>1. turns + 1 \in Turns
      BY <2>5, BoundsAssumption DEF AcceptTurn, Turns, Typed
    <3>2. Event("turn/started", command.thread, turns + 1, 0) \in Events
          /\ Event("turn/started", command.thread, turns + 1, 0).method # "spawn"
      BY <2>3, <3>1, EventTyped
    <3>3. UNCHANGED <<loaded, created, asked>> /\ queue' = Append(queue, Event("turn/started", command.thread, turns + 1, 0))
      BY <2>5 DEF AcceptTurn
    <3>4. QED
      BY <1>1, <2>2, <3>2, <3>3, EmittedShaped DEF Shaped
  <2>6. CASE AcceptReply(command)
    <3>1. Event("resolved", command.thread, NoTurn, command.ref) \in Events
          /\ Event("resolved", command.thread, NoTurn, command.ref).method # "spawn"
      BY <2>3, EventTyped
    <3>2. UNCHANGED <<loaded, created>> /\ asked' \subseteq asked
      BY <2>6 DEF AcceptReply
    <3>3. CASE queue' = queue
      BY <1>1, <2>2, <3>2, <3>3 DEF Shaped
    <3>4. CASE queue' # queue
      <4>1. queue' = Append(queue, Event("resolved", command.thread, NoTurn, command.ref))
        BY <2>6, <3>4 DEF AcceptReply
      <4>2. QED
        BY <1>1, <2>2, <3>1, <3>2, <4>1, EmittedShaped DEF Shaped
    <3>5. QED
      BY <3>3, <3>4
  <2>7. QED
    BY <2>1, <2>4, <2>5, <2>6
<1>8. CASE Die
  <2>1. Event("eof", NoThread, NoTurn, 0).method # "spawn" /\ Event("eof", NoThread, NoTurn, 0) \in Events
    BY EventTyped
  <2>2. QED
    BY <1>1, <1>8, <2>1, EmittedShaped DEF Die, snapshotVars, Shaped
<1>9. ASSUME NEW event \in Events, Emit(event), event.method = "spawn" => event.ref \in Children,
             asked' \subseteq [native : Natives, thread : Threads]
      PROVE  Shaped'
  BY <1>1, <1>9, EmittedShaped DEF Emit, snapshotVars, Shaped
<1>10. ASSUME NEW t \in Threads, FinishTurn(t) \/ Ask(t) \/ Chatter(t) PROVE Shaped'
  <2>1. ASSUME Ask(t) PROVE requests + 1 \in Natives
    BY <2>1, BoundsAssumption DEF Ask, Natives, Typed
  <2>2. running[t] \in Turns \cup {NoTurn}
    BY DEF Typed
  <2>3. asked' \subseteq [native : Natives, thread : Threads]
    BY <1>10, <2>1 DEF FinishTurn, Ask, Chatter, Shaped
  <2>4. QED
    BY <1>9, <1>10, <2>1, <2>2, <2>3, EventTyped DEF FinishTurn, Ask, Chatter
<1>11. ASSUME NEW t \in Mains, NEW child \in Children, Spawn(t, child) PROVE Shaped'
  <2>1. t \in Threads /\ running[t] \in Turns \cup {NoTurn}
    BY DEF Typed, Threads
  <2>2. QED
    BY <1>9, <1>11, <2>1, EventTyped DEF Spawn, Shaped
<1>12. ASSUME NEW child \in Children, ChildTurn(child) PROVE Shaped'
  <2>1. child \in Threads /\ turns + 1 \in Turns
    BY <1>12, BoundsAssumption DEF ChildTurn, Turns, Threads, Typed
  <2>2. QED
    BY <1>9, <1>12, <2>1, EventTyped DEF ChildTurn, Shaped
<1>13. QED
  BY <1>2, <1>3, <1>4, <1>5, <1>6, <1>7, <1>8, <1>10, <1>11, <1>12, ApplyShaped, <1>1
     DEF Next, Proceed, EventThread, Provider

(* The view starts empty.                                                  *)
LEMMA InitShaped == Init => Shaped
<1> SUFFICES ASSUME Init PROVE Shaped
  OBVIOUS
<1>1. pending = {} /\ IsFiniteSet(pending) /\ Cardinality(pending) <= RequestLimit
  BY FS_EmptySet, BoundsAssumption DEF Init
<1>2. window \in Seq(Marks) /\ Len(window) <= WindowLimit
  BY BoundsAssumption DEF Init
<1>3. Answering
  BY DEF Init, Answering, NoAnswer, NoTurn
<1>4. active \in [Threads -> Turns \cup {NoTurn}]
  BY DEF Init
<1>5. QED
  BY <1>1, <1>2, <1>3, <1>4 DEF Init, Shaped

(* What is noted as missed is a turn that was acknowledged.                *)
MissedTyped == missed \subseteq Turns \cup {NoTurn}

LEMMA MissedTypedStep == Shaped /\ MissedTyped /\ [Next]_vars => MissedTyped'
<1> SUFFICES ASSUME Shaped, MissedTyped, [Next]_vars PROVE MissedTyped'
  OBVIOUS
<1>1. ASSUME missed' = missed PROVE MissedTyped'
  BY <1>1 DEF MissedTyped
<1>2. CASE ApplyEvent
  BY <1>2 DEF ApplyEvent, MissedTyped, Shaped, Answering
<1>3. CASE Begin \/ Proceed \/ ApplyDisconnect \/ Die
  BY <1>1, <1>3
     DEF Begin, BeginStart, BeginReconnect, BeginControlled, BeginReply, Proceed, RegisterThread,
         StartTurn, WriteSend, TurnChanged, WriteInterrupt, SetTurn, InterruptConfirmed, MarkSent,
         WriteReply, Resumed, GiveUp, ApplyDisconnect, Die
<1>4. CASE Serve
  BY <1>1, <1>4 DEF Serve, Read
<1>5. CASE \/ \E t \in Threads : FinishTurn(t) \/ Ask(t) \/ Chatter(t)
           \/ \E child \in Children : ChildTurn(child)
           \/ \E t \in Mains, child \in Children : Spawn(t, child)
  BY <1>1, <1>5 DEF FinishTurn, Ask, Chatter, ChildTurn, Spawn, Emit
<1>6. QED
  BY <1>1, <1>2, <1>3, <1>4, <1>5 DEF vars, Next, EventThread, Provider

(* Every variable keeps its type, with the limits on approvals and events  *)
(* that apply_event and append_event keep.                                 *)
THEOREM TypeOKCorrect == Spec => []TypeOK
<1> DEFINE Inv == Typed /\ Owned /\ InChannel /\ ReplyInv /\ MainsOwned /\ Shaped /\ MissedTyped
<1>1. Init => Inv
  <2> SUFFICES ASSUME Init PROVE Inv
    OBVIOUS
  <2>1. InChannel /\ RepliesTyped /\ ReplyOnce
    BY DEF Init, InChannel, PendingCurrent, RepliesTyped, ReplyOnce
  <2>2. Numbered /\ Fresh /\ Marked /\ MainsOwned
    BY DEF Init, Numbered, Fresh, Marked, Replying, MainsOwned, Threads
  <2>3. MissedTyped
    BY DEF Init, MissedTyped
  <2>4. QED
    BY <2>1, <2>2, <2>3, InitTyped, InitShaped DEF ReplyInv
<1>2. Inv => TypeOK
  <2> SUFFICES ASSUME Inv PROVE TypeOK
    OBVIOUS
  <2>1. alive \in BOOLEAN /\ connected \in BOOLEAN /\ missed \subseteq Turns \cup {NoTurn}
    BY DEF Typed, MissedTyped
  <2>2. QED
    BY <2>1, Zenon DEF TypeOK, Typed, Owned, ReplyInv, RepliesTyped, MainsOwned, Shaped, Answering, Marks, Threads
<1>3. Inv /\ [Next]_vars => Inv'
  BY TypedStep, OwnedStep, InChannelStep, ReplyInvStep, MainsOwnedStep, ShapedStep, MissedTypedStep
<1>4. QED
  BY <1>1, <1>2, <1>3, PTL DEF Spec

-----------------------------------------------------------------------------
(* Waiting: the only command that somebody waits for is the last one, and  *)
(* its answer is the operation's.                                          *)
Awaits(kind) ==
  \/ pc = "starting" /\ kind = "thread/start"
  \/ pc = "turning" /\ kind \in {"turn/start", "turn/steer"}
  \/ pc = "confirming" /\ kind = "turn/interrupt"
  \/ pc = "resuming" /\ kind = "thread/resume"

Awaited(i) == commands[i].awaited /\ commands[i].kind # "reply"

Waiting ==
  /\ \A i \in DOMAIN commands : Awaited(i) =>
       /\ i = Len(commands) /\ answer = NoAnswer
       /\ Awaits(commands[i].kind) /\ commands[i].thread = op.thread
  /\ alive /\ pc = "turning" /\ answer.result = "ok" => commands = <<>>

(* A handler that is not waiting has no command that waits.                *)
LEMMA NobodyWaits ==
  ASSUME Waiting, pc \in {"idle", "registered", "checked", "replying", "marked"} \/ answer # NoAnswer
  PROVE  \A i \in DOMAIN commands : ~Awaited(i)
  BY DEF Waiting, Awaits

(* The operation writes its command, and waits.                            *)
LEMMA WriteWaiting ==
  ASSUME Typed, Waiting, NEW kind, NEW t, NEW turn, NEW ref,
         commands' \in {commands, Append(commands, Command(kind, t, turn, ref))},
         pc \in {"idle", "registered", "checked", "replying", "marked"},
         answer' = NoAnswer, kind = "reply" \/ (Awaits(kind)' /\ t = op'.thread)
  PROVE  Waiting'
<1> DEFINE command == Command(kind, t, turn, ref)
<1>1. \A i \in DOMAIN commands : ~Awaited(i)
  BY NobodyWaits
<1>2. NoAnswer.result # "ok" /\ command.kind = kind /\ command.thread = t
  BY DEF NoAnswer, Command
<1>3. CASE commands' = commands
  <2>1. \A i \in DOMAIN commands' : ~Awaited(i)'
    BY <1>1, <1>3 DEF Awaited
  <2>2. QED
    BY <1>2, <2>1 DEF Waiting
<1>4. CASE commands' = Append(commands, command)
  <2>1. /\ Len(commands') = Len(commands) + 1
        /\ \A i \in DOMAIN commands' : \/ i \in DOMAIN commands /\ commands'[i] = commands[i]
                                       \/ i = Len(commands') /\ commands'[i] = command
    BY <1>4 DEF Typed
  <2>2. ASSUME NEW i \in DOMAIN commands', Awaited(i)'
        PROVE  i = Len(commands') /\ commands'[i] = command
    BY <1>1, <2>1, <2>2 DEF Awaited
  <2>3. ASSUME NEW i \in DOMAIN commands', Awaited(i)'
        PROVE  Awaits(commands[i].kind)' /\ commands'[i].thread = op'.thread
    <3>1. commands'[i] = command /\ commands'[i].kind # "reply"
      BY <2>2, <2>3 DEF Awaited
    <3>2. commands'[i].kind = kind /\ kind # "reply" /\ commands'[i].thread = t
      BY <1>2, <3>1
    <3>3. QED
      BY <3>2 DEF Awaits
  <2>4. QED
    BY <1>2, <2>2, <2>3 DEF Waiting
<1>5. QED
  BY <1>3, <1>4

(* Nobody waited, and nobody does.                                         *)
LEMMA WaitingAside ==
  ASSUME Waiting, commands' = commands,
         pc \in {"idle", "registered", "checked", "replying", "marked"} \/ answer # NoAnswer,
         pc' # "turning" \/ answer'.result # "ok"
  PROVE  Waiting'
<1>1. \A i \in DOMAIN commands' : ~Awaited(i)'
  BY NobodyWaits DEF Awaited
<1>2. QED
  BY <1>1 DEF Waiting

(* The command that the provider answers is the one waited for, if any is. *)
LEMMA ServeWaiting == ASSUME Typed, Owned, Waiting, Serve PROVE Waiting'
<1>1. PICK command \in ToSet(commands) :
        /\ Read(command)
        /\ \/ AcceptThread(command) \/ AcceptTurn(command) \/ AcceptSteer(command)
           \/ AcceptReply(command) \/ RefuseCommand(command)
  BY DEF Serve
<1>2. /\ command = commands[1] /\ 1 \in DOMAIN commands /\ UNCHANGED <<pc, op, alive>>
      /\ \A i \in DOMAIN commands' : i + 1 \in DOMAIN commands /\ commands'[i] = commands[i + 1]
      /\ Len(commands) \in Nat /\ Len(commands') = Len(commands) - 1 /\ commands' \in Seq(Commands)
      /\ DOMAIN commands = 1..Len(commands) /\ alive
  BY <1>1, Served DEF Read, Typed
<1>3. CASE Awaited(1)
  <2>1. Len(commands) = 1
    BY <1>2, <1>3 DEF Waiting
  <2>2. commands' = <<>>
    BY <1>2, <2>1
  <2>3. DOMAIN commands' = {}
    BY <2>2
  <2>4. QED
    BY <2>2, <2>3 DEF Waiting
<1>4. CASE ~Awaited(1)
  <2>1. answer' = answer
    BY <1>1, <1>2, <1>4 DEF AcceptThread, AcceptTurn, AcceptSteer, AcceptReply, RefuseCommand, Deliver, Awaited
  <2>2. \A i \in DOMAIN commands' : Awaited(i)' => Awaited(i + 1)
    BY <1>2 DEF Awaited
  <2>3. ASSUME NEW i \in DOMAIN commands', Awaited(i)'
        PROVE  /\ i = Len(commands') /\ answer' = NoAnswer
               /\ Awaits(commands[i].kind)' /\ commands'[i].thread = op'.thread
    <3>1. i + 1 \in DOMAIN commands /\ Awaited(i + 1) /\ commands'[i] = commands[i + 1] /\ i \in Nat
      BY <1>2, <2>2, <2>3
    <3>2. /\ i + 1 = Len(commands) /\ answer = NoAnswer
          /\ Awaits(commands[i + 1].kind) /\ commands[i + 1].thread = op.thread
      BY <3>1 DEF Waiting
    <3>3. QED
      BY <1>2, <2>1, <3>1, <3>2 DEF Awaits
  <2>4. commands # <<>>
    BY <1>2
  <2>5. QED
    BY <1>2, <2>1, <2>3, <2>4 DEF Waiting
<1>5. QED
  BY <1>3, <1>4

(* Every step keeps at most one command waited for, the last.              *)
LEMMA WaitingStep == Typed /\ Owned /\ Waiting /\ [Next]_vars => Waiting'
<1> SUFFICES ASSUME Typed, Owned, Waiting, [Next]_vars PROVE Waiting'
  OBVIOUS
<1>1. NoAnswer.result # "ok"
  BY DEF NoAnswer
<1>2. ASSUME UNCHANGED <<commands, pc, op, answer>>, alive' => alive PROVE Waiting'
  BY <1>2 DEF Waiting, Awaited, Awaits
<1>3. ASSUME NEW t \in Mains, BeginStart(t) PROVE Waiting'
  BY <1>3, WriteWaiting DEF BeginStart, Write, Await, Awaits
<1>4. ASSUME NEW t \in Threads, BeginReconnect(t) PROVE Waiting'
  BY <1>4, WriteWaiting DEF BeginReconnect, Write, Await, Awaits
<1>5. CASE StartTurn
  BY <1>5, WriteWaiting DEF StartTurn, Await, Awaits
<1>6. CASE WriteSend
  BY <1>6, WriteWaiting DEF WriteSend, Write, Await, Awaits
<1>7. CASE WriteInterrupt
  BY <1>7, WriteWaiting DEF WriteInterrupt, Write, Await, Awaits
<1>8. CASE WriteReply
  BY <1>8, WriteWaiting DEF WriteReply, Write, Done
<1>9. CASE \/ RegisterThread \/ TurnChanged \/ SetTurn \/ InterruptConfirmed \/ Resumed \/ MarkSent
           \/ \E t \in Threads, turn \in Turns \cup {NoTurn}, kind \in {"send", "interrupt"} :
                BeginControlled(kind, t, turn)
           \/ \E request \in pending : BeginReply(request)
  <2>1. commands' = commands /\ pc' # "turning"
    BY <1>9 DEF RegisterThread, TurnChanged, SetTurn, InterruptConfirmed, Resumed, MarkSent,
                BeginControlled, BeginReply, Done, providerVars
  <2>2. pc \in {"idle", "registered", "checked", "replying", "marked"} \/ answer # NoAnswer
    BY <1>1, <1>9 DEF RegisterThread, TurnChanged, SetTurn, InterruptConfirmed, Resumed, MarkSent,
                BeginControlled, BeginReply
  <2>3. QED
    BY <2>1, <2>2, WaitingAside
<1>10. CASE GiveUp
  <2>1. commands' = [i \in DOMAIN commands |-> [commands[i] EXCEPT !.awaited = FALSE]] /\ pc' = "idle"
    BY <1>10 DEF GiveUp, Abandoned, Done
  <2>2. ASSUME NEW i \in DOMAIN commands PROVE ~[commands[i] EXCEPT !.awaited = FALSE].awaited
    <3>1. commands[i] \in Commands
      BY DEF Typed
    <3>2. QED
      BY <3>1 DEF Commands
  <2>3. \A i \in DOMAIN commands' : ~Awaited(i)'
    BY <2>1, <2>2 DEF Awaited
  <2>4. QED
    BY <2>1, <2>3 DEF Waiting
<1>11. CASE EventThread \/ UNCHANGED vars
  BY <1>2, <1>11 DEF EventThread, ApplyDisconnect, ApplyEvent, vars, handlerVars, providerVars
<1>12. CASE Die
  <2>1. commands' = <<>> /\ DOMAIN commands' = {}
    BY <1>12 DEF Die
  <2>2. QED
    BY <2>1 DEF Waiting
<1>13. CASE \/ \E t \in Threads : FinishTurn(t) \/ Ask(t) \/ Chatter(t)
            \/ \E child \in Children : ChildTurn(child)
            \/ \E t \in Mains, child \in Children : Spawn(t, child)
  BY <1>2, <1>13 DEF FinishTurn, Ask, Chatter, ChildTurn, Spawn, Emit, handlerVars
<1>14. QED
  BY <1>3, <1>4, <1>5, <1>6, <1>7, <1>8, <1>9, <1>10, <1>11, <1>12, <1>13, ServeWaiting
     DEF Next, Begin, Proceed, Provider

-----------------------------------------------------------------------------
(* Lives of conversations: created before owned, owned before shown to     *)
(* work, and attached to the process before a turn runs in it.             *)
TurnEvent(i, t) ==
  queue[i].thread = t /\ queue[i].method \in {"turn/started", "turn/completed"}

Lives ==
  /\ managed \subseteq created
  /\ pc = "starting" =>
       op.thread \notin managed /\ (answer.result = "ok" => op.thread \in created)
  /\ pc = "turning" => op.thread \in managed
  /\ \A t \in Mains : active[t] # NoTurn => t \in managed

Attachments ==
  /\ loaded \subseteq Mains
  /\ \A i \in DOMAIN commands : commands[i].thread \in Mains
  /\ \A t \in Mains : running[t] # NoTurn => t \in loaded
  /\ alive => \A t \in Mains, i \in DOMAIN queue : TurnEvent(i, t) => t \in loaded
  /\ ~alive => commands = <<>> /\ loaded = {} /\ \A t \in Threads : running[t] = NoTurn

(* Every step keeps creation before ownership, and ownership before work.  *)
LEMMA LivesStep ==
  Typed /\ Owned /\ MainsOwned /\ Shaped /\ Waiting /\ Lives /\ [Next]_vars => Lives'
<1> SUFFICES ASSUME Typed, Owned, MainsOwned, Shaped, Waiting, Lives, [Next]_vars PROVE Lives'
  OBVIOUS
<1>1. NoAnswer.result # "ok"
  BY DEF NoAnswer
<1>2. ASSUME UNCHANGED <<managed, active>>, created \subseteq created', pc' \notin {"starting", "turning"}
      PROVE  Lives'
  BY <1>2 DEF Lives
<1>3. ASSUME UNCHANGED <<managed, created, pc, op, answer>>,
             \A t \in Mains : active'[t] # NoTurn => active[t] # NoTurn \/ t \in managed
      PROVE  Lives'
  BY <1>3 DEF Lives
<1>4. ASSUME NEW t \in Mains, BeginStart(t) PROVE Lives'
  BY <1>1, <1>4 DEF BeginStart, Await, Write, Lives
<1>5. CASE StartTurn \/ WriteSend
  BY <1>1, <1>5 DEF StartTurn, WriteSend, Await, Write, Lives, Owned, snapshotVars
<1>6. CASE \/ TurnChanged \/ WriteInterrupt \/ InterruptConfirmed \/ MarkSent \/ WriteReply \/ Resumed
           \/ GiveUp \/ \E t \in Threads : BeginReconnect(t)
           \/ \E t \in Threads, turn \in Turns \cup {NoTurn}, kind \in {"send", "interrupt"} :
                BeginControlled(kind, t, turn)
           \/ \E request \in pending : BeginReply(request)
  BY <1>2, <1>6 DEF TurnChanged, WriteInterrupt, InterruptConfirmed, MarkSent, WriteReply, Resumed,
                    GiveUp, BeginReconnect, BeginControlled, BeginReply, Await, Write, Done,
                    snapshotVars, providerVars
<1>7. CASE RegisterThread
  BY <1>7 DEF RegisterThread, Lives, providerVars, Shaped
<1>8. CASE SetTurn
  <2>1. op.thread \in managed /\ UNCHANGED <<managed, created>> /\ pc' = "idle"
    BY <1>8 DEF SetTurn, Lives, Done, providerVars
  <2>2. \A t \in Mains : active'[t] # NoTurn => t \in managed
    BY <1>8, <2>1 DEF SetTurn, Lives, Shaped, Threads
  <2>3. QED
    BY <2>1, <2>2 DEF Lives
<1>9. CASE ApplyDisconnect
  BY <1>3, <1>9 DEF ApplyDisconnect, handlerVars, providerVars, Threads
<1>10. CASE ApplyEvent
  <2>1. /\ queue # <<>> /\ queue' = Tail(queue) /\ UNCHANGED <<managed, created, pc, op, answer>>
    BY <1>10 DEF ApplyEvent, handlerVars, providerVars
  <2>2. Head(queue).thread \in Mains => Head(queue).thread \in managed
    BY <2>1, Taken DEF MainsOwned
  <2>3. \A t \in Mains : active'[t] # NoTurn => active[t] # NoTurn \/ t \in managed
    BY <1>10, <2>2 DEF ApplyEvent, ApplySpawn, ApplyRequest, ApplyResolved, ApplyStarted, ApplyCompleted,
                       ApplyOther, Shaped, Threads
  <2>4. QED
    BY <1>3, <2>1, <2>3
<1>11. CASE Serve
  <2>1. PICK command \in ToSet(commands) :
          /\ Read(command)
          /\ \/ AcceptThread(command) \/ AcceptTurn(command) \/ AcceptSteer(command)
             \/ AcceptReply(command) \/ RefuseCommand(command)
    BY <1>11 DEF Serve
  <2>2. /\ command = commands[1] /\ 1 \in DOMAIN commands /\ UNCHANGED <<pc, op, managed, active>>
    BY <2>1, Served DEF snapshotVars
  <2>3. created \subseteq created'
    BY <2>1 DEF AcceptThread, AcceptTurn, AcceptSteer, AcceptReply, RefuseCommand
  <2>4. ASSUME pc = "starting", answer'.result = "ok" PROVE op.thread \in created'
    <3>1. CASE answer' = answer
      BY <2>3, <2>4, <3>1 DEF Lives
    <3>2. CASE answer' # answer
      <4>1. Awaited(1)
        BY <2>1, <2>2, <3>2 DEF AcceptThread, AcceptTurn, AcceptSteer, AcceptReply, RefuseCommand,
                                Deliver, Awaited
      <4>2. command.kind = "thread/start" /\ command.thread = op.thread
        BY <2>2, <2>4, <4>1 DEF Waiting, Awaits
      <4>3. AcceptThread(command)
        BY <2>1, <2>4, <3>2, <4>2 DEF AcceptTurn, AcceptSteer, AcceptReply, RefuseCommand, Deliver
      <4>4. QED
        BY <4>2, <4>3 DEF AcceptThread
    <3>3. QED
      BY <3>1, <3>2
  <2>5. QED
    BY <2>2, <2>3, <2>4 DEF Lives
<1>12. CASE Die
  <2>1. UNCHANGED <<managed, active, created, pc, op>> /\ (answer' = answer \/ answer'.result # "ok")
    BY <1>12 DEF Die, snapshotVars
  <2>2. QED
    BY <2>1 DEF Lives
<1>13. CASE \/ \E t \in Threads : FinishTurn(t) \/ Ask(t) \/ Chatter(t)
            \/ \E child \in Children : ChildTurn(child)
            \/ \E t \in Mains, child \in Children : Spawn(t, child)
            \/ UNCHANGED vars
  BY <1>3, <1>13 DEF FinishTurn, Ask, Chatter, ChildTurn, Spawn, Emit, handlerVars, snapshotVars, vars,
                     providerVars
<1>14. QED
  BY <1>4, <1>5, <1>6, <1>7, <1>8, <1>9, <1>10, <1>11, <1>12, <1>13
     DEF Next, Begin, Proceed, EventThread, Provider

(* A command is written, here or in a new process with an empty channel.   *)
LEMMA WriteAttachments ==
  ASSUME Typed, InChannel, Attachments, NEW kind, NEW t \in Mains, NEW turn, NEW ref,
         Write(Command(kind, t, turn, ref))
  PROVE  Attachments'
<1>1. UNCHANGED <<queue, loaded, running>>
  BY DEF Write
<1>2. Command(kind, t, turn, ref).thread = t
  BY DEF Command
<1>3. \A i \in DOMAIN commands' : commands'[i].thread \in Mains
  BY <1>2 DEF Write, Attachments, Typed
<1>4. CASE Reuse
  <2>1. alive' = alive /\ (~alive => commands' = commands)
    BY <1>4 DEF Reuse, Write
  <2>2. QED
    BY <1>1, <1>3, <2>1 DEF Attachments, TurnEvent
<1>5. CASE ~connected /\ Connect
  <2>1. queue = <<>> /\ alive'
    BY <1>5 DEF InChannel, Connect
  <2>2. QED
    BY <1>1, <1>3, <2>1 DEF Attachments
<1>6. QED
  BY <1>4, <1>5 DEF Write

(* An event of a loaded conversation, or none of a turn, is queued.        *)
LEMMA EmittedAttachments ==
  ASSUME Typed, Attachments, NEW event \in Events, alive, alive', queue' = Append(queue, event),
         event.method \in {"turn/started", "turn/completed"} => event.thread \notin Mains \ loaded,
         loaded' = loaded, \A t \in Mains : running'[t] # NoTurn => t \in loaded,
         \A i \in DOMAIN commands' : commands'[i].thread \in Mains
  PROVE  Attachments'
<1>1. \A t \in Mains, i \in DOMAIN queue' : TurnEvent(i, t)' => t \in loaded
  BY Appended DEF TurnEvent, Attachments
<1>2. QED
  BY <1>1 DEF Attachments

(* Every step keeps turns inside attached conversations of a live process. *)
LEMMA AttachmentsStep ==
  Typed /\ Owned /\ InChannel /\ MainsOwned /\ Attachments /\ [Next]_vars => Attachments'
<1> SUFFICES ASSUME Typed, Owned, InChannel, MainsOwned, Attachments, [Next]_vars PROVE Attachments'
  OBVIOUS
<1>1. ASSUME UNCHANGED <<queue, loaded, running, alive, commands>> PROVE Attachments'
  BY <1>1 DEF Attachments, TurnEvent
<1>2. ASSUME NEW t \in Mains, BeginStart(t) PROVE Attachments'
  BY <1>2, WriteAttachments DEF BeginStart
<1>3. ASSUME NEW t \in Threads, BeginReconnect(t) PROVE Attachments'
  BY <1>3, WriteAttachments DEF BeginReconnect, Owned
<1>4. CASE WriteSend
  BY <1>4, WriteAttachments DEF WriteSend, Owned
<1>5. CASE WriteInterrupt
  BY <1>5, WriteAttachments DEF WriteInterrupt, Owned
<1>6. CASE WriteReply
  BY <1>6, WriteAttachments DEF WriteReply, Owned
<1>7. CASE StartTurn
  <2>1. op.thread \in Mains /\ Command("turn/start", op.thread, NoTurn, 0).thread = op.thread
    BY <1>7 DEF StartTurn, Owned, Command
  <2>2. UNCHANGED <<queue, loaded, running, alive>> /\ (~alive => commands' = commands)
    BY <1>7 DEF StartTurn
  <2>3. \A i \in DOMAIN commands' : commands'[i].thread \in Mains
    BY <1>7, <2>1 DEF StartTurn, Attachments, Typed
  <2>4. QED
    BY <2>2, <2>3 DEF Attachments, TurnEvent
<1>8. CASE TurnChanged
  <2>1. queue = <<>> /\ alive' /\ UNCHANGED <<queue, loaded, running, commands>>
    BY <1>8 DEF TurnChanged, InChannel, Connect
  <2>2. QED
    BY <2>1 DEF Attachments
<1>9. CASE GiveUp
  <2>1. UNCHANGED <<queue, loaded, running, alive>> /\ commands' = Abandoned
    BY <1>9 DEF GiveUp
  <2>2. \A i \in DOMAIN commands' : commands'[i].thread \in Mains
    BY <2>1, AbandonedTyped DEF Attachments, Typed
  <2>3. commands = <<>> => commands' = <<>>
    BY <2>1, AbandonedTyped DEF Typed
  <2>4. QED
    BY <2>1, <2>2, <2>3 DEF Attachments, TurnEvent
<1>10. CASE \/ RegisterThread \/ SetTurn \/ InterruptConfirmed \/ Resumed \/ MarkSent \/ UNCHANGED vars
            \/ \E t \in Threads, turn \in Turns \cup {NoTurn}, kind \in {"send", "interrupt"} :
                 BeginControlled(kind, t, turn)
            \/ \E request \in pending : BeginReply(request)
  BY <1>1, <1>10 DEF RegisterThread, SetTurn, InterruptConfirmed, Resumed, MarkSent, BeginControlled,
                     BeginReply, vars, snapshotVars, providerVars
<1>11. CASE EventThread
  <2>1. /\ queue # <<>> /\ queue' = Tail(queue)
        /\ UNCHANGED <<loaded, running, alive, commands>>
    BY <1>11 DEF EventThread, ApplyDisconnect, ApplyEvent, providerVars
  <2>2. \A t \in Mains, i \in DOMAIN queue' : TurnEvent(i, t)' => i + 1 \in DOMAIN queue /\ TurnEvent(i + 1, t)
    BY <2>1, Taken DEF TurnEvent
  <2>3. QED
    BY <2>1, <2>2 DEF Attachments
<1>12. CASE Serve
  <2>1. PICK command \in ToSet(commands) :
          /\ Read(command)
          /\ \/ AcceptThread(command) \/ AcceptTurn(command) \/ AcceptSteer(command)
             \/ AcceptReply(command) \/ RefuseCommand(command)
    BY <1>12 DEF Serve
  <2>2. /\ command = commands[1] /\ 1 \in DOMAIN commands /\ alive /\ alive' = alive /\ command \in Commands
        /\ \A i \in DOMAIN commands' : i + 1 \in DOMAIN commands /\ commands'[i] = commands[i + 1]
    BY <2>1, Served
  <2>3. /\ command.thread \in Mains /\ command.thread \in Threads /\ command.ref \in Natives \cup {0}
        /\ \A i \in DOMAIN commands' : commands'[i].thread \in Mains
    BY <2>2 DEF Attachments, Commands
  <2>4. CASE AcceptThread(command) \/ AcceptSteer(command) \/ RefuseCommand(command)
    BY <2>2, <2>3, <2>4 DEF AcceptThread, AcceptSteer, RefuseCommand, Attachments, TurnEvent
  <2>5. CASE AcceptTurn(command)
    <3>1. turns + 1 \in Turns /\ command.thread \in loaded
      BY <2>5, BoundsAssumption DEF AcceptTurn, Turns, Typed
    <3>2. Event("turn/started", command.thread, turns + 1, 0) \in Events
          /\ Event("turn/started", command.thread, turns + 1, 0).thread = command.thread
      BY <2>3, <3>1, EventTyped
    <3>3. \A t \in Mains : running'[t] # NoTurn => t \in loaded
      BY <2>3, <2>5, <3>1 DEF AcceptTurn, Typed, Attachments, Threads
    <3>4. QED
      BY <2>2, <2>3, <2>5, <3>1, <3>2, <3>3, EmittedAttachments DEF AcceptTurn
  <2>6. CASE AcceptReply(command)
    <3>1. Event("resolved", command.thread, NoTurn, command.ref) \in Events
          /\ Event("resolved", command.thread, NoTurn, command.ref).method = "resolved"
      <4>1. command.thread \in Threads /\ command.ref \in Natives \cup {0}
        BY <2>3
      <4>2. QED
        BY <4>1, EventTyped
    <3>2. UNCHANGED <<loaded, running>>
      BY <2>6 DEF AcceptReply
    <3>3. CASE queue' = queue
      BY <2>2, <2>3, <3>2, <3>3 DEF Attachments, TurnEvent
    <3>4. CASE queue' # queue
      <4>1. queue' = Append(queue, Event("resolved", command.thread, NoTurn, command.ref))
        BY <2>6, <3>4 DEF AcceptReply
      <4>2. \A t \in Mains : running'[t] # NoTurn => t \in loaded
        BY <3>2 DEF Attachments
      <4>3. QED
        BY <2>2, <2>3, <3>1, <3>2, <4>1, <4>2, EmittedAttachments
    <3>5. QED
      BY <3>3, <3>4
  <2>7. QED
    BY <2>1, <2>4, <2>5, <2>6
<1>13. CASE Die
  <2>1. ~alive' /\ commands' = <<>> /\ loaded' = {} /\ running' = [t \in Threads |-> NoTurn]
    BY <1>13 DEF Die
  <2>2. (\A t \in Threads : running'[t] = NoTurn) /\ DOMAIN commands' = {}
    BY <2>1
  <2>3. QED
    BY <2>1, <2>2 DEF Attachments, Threads
<1>14. ASSUME NEW event \in Events, Emit(event),
              event.method \in {"turn/started", "turn/completed"} => event.thread \notin Mains \ loaded,
              \A t \in Mains : running'[t] # NoTurn => t \in loaded
       PROVE  Attachments'
  <2>1. UNCHANGED <<alive, commands, loaded>> /\ alive /\ queue' = Append(queue, event)
    BY <1>14 DEF Emit
  <2>2. QED
    BY <1>14, <2>1, EmittedAttachments DEF Attachments
<1>15. ASSUME NEW t \in Threads, FinishTurn(t) \/ Ask(t) \/ Chatter(t) PROVE Attachments'
  <2>1. ASSUME Ask(t) PROVE requests + 1 \in Natives
    BY <2>1, BoundsAssumption DEF Ask, Natives, Typed
  <2>2. running[t] \in Turns \cup {NoTurn} /\ running[t] # NoTurn
    BY <1>15 DEF Typed, FinishTurn, Ask, Chatter
  <2>3. \A u \in Mains : running'[u] # NoTurn => u \in loaded
    BY <1>15 DEF FinishTurn, Ask, Chatter, Attachments, Typed, Threads
  <2>4. QED
    BY <1>14, <1>15, <2>1, <2>2, <2>3, EventTyped DEF FinishTurn, Ask, Chatter, Attachments
<1>16. ASSUME NEW t \in Mains, NEW child \in Children, Spawn(t, child) PROVE Attachments'
  <2>1. t \in Threads /\ running[t] \in Turns \cup {NoTurn} /\ \A u \in Mains : running'[u] # NoTurn => u \in loaded
    BY <1>16 DEF Typed, Threads, Spawn, Attachments
  <2>2. QED
    BY <1>14, <1>16, <2>1, EventTyped DEF Spawn
<1>17. ASSUME NEW child \in Children, ChildTurn(child) PROVE Attachments'
  <2>1. child \in Threads /\ turns + 1 \in Turns /\ child \notin Mains
    BY <1>17, BoundsAssumption, ThreadsAssumption DEF ChildTurn, Turns, Threads, Typed
  <2>2. \A u \in Mains : running'[u] # NoTurn => u \in loaded
    BY <1>17, <2>1 DEF ChildTurn, Typed, Threads, Attachments
  <2>3. QED
    BY <1>14, <1>17, <2>1, <2>2, EventTyped DEF ChildTurn
<1>18. QED
  BY <1>2, <1>3, <1>4, <1>5, <1>6, <1>7, <1>8, <1>9, <1>10, <1>11, <1>12, <1>13, <1>15, <1>16, <1>17
     DEF Next, Begin, Proceed, Provider

-----------------------------------------------------------------------------
(* Turns are numbered once: a running turn was not completed, neither in   *)
(* the window nor in the channel.                                          *)
CompletedAt(i, t, turn) ==
  queue[i].method = "turn/completed" /\ queue[i].thread = t /\ queue[i].turn = turn

TurnsOnce ==
  /\ \A t \in Threads : running[t] <= turns
  /\ \A i \in DOMAIN queue : queue[i].turn <= turns
  /\ \A i \in DOMAIN window : window[i].turn <= turns
  /\ \A t \in Threads : running[t] # NoTurn =>
       ~Completed(t, running[t]) /\ \A i \in DOMAIN queue : ~CompletedAt(i, t, running[t])

(* The provider ends a turn when it reports the completion, never before.  *)
LEMMA EmittedTurns ==
  ASSUME Typed, Shaped, TurnsOnce, NEW event \in Events, queue' = Append(queue, event), window' = window,
         turns <= turns', turns' \in Nat, event.turn <= turns',
         \A t \in Threads : \/ running'[t] = NoTurn
                            \/ running'[t] = running[t] /\ ~(event.method = "turn/completed"
                                 /\ event.thread = t /\ event.turn = running[t])
                            \/ running'[t] = turns' /\ turns < turns' /\ event.method # "turn/completed"
  PROVE  TurnsOnce'
<1> DEFINE last == Len(queue) + 1
<1>1. /\ \A i \in DOMAIN queue : i \in DOMAIN queue' /\ queue'[i] = queue[i]
      /\ \A i \in DOMAIN queue' : i \in DOMAIN queue \/ queue'[i] = event
  BY Appended
<1>2. /\ turns \in Nat /\ \A t \in Threads : running[t] \in Nat
      /\ \A i \in DOMAIN queue : queue[i].turn \in Nat
      /\ \A i \in DOMAIN window : window[i].turn \in Nat
      /\ event.turn \in Nat
  <2>1. turns \in Nat /\ \A t \in Threads : running[t] \in Nat
    BY DEF Typed, Turns, NoTurn
  <2>2. \A e \in Events : e.turn \in Nat
    BY DEF Events, Turns, NoTurn
  <2>3. \A i \in DOMAIN queue : queue[i] \in Events
    BY DEF Typed
  <2>4. \A m \in Marks : m.turn \in Nat
    BY DEF Marks, Turns, NoTurn
  <2>5. \A i \in DOMAIN window : window[i] \in Marks
    BY DEF Shaped
  <2>6. QED
    BY <2>1, <2>2, <2>3, <2>4, <2>5
<1>3. \A t \in Threads : running'[t] <= turns'
  BY <1>2 DEF TurnsOnce, NoTurn
<1>4. \A i \in DOMAIN queue' : queue'[i].turn <= turns'
  BY <1>1, <1>2 DEF TurnsOnce
<1>5. \A i \in DOMAIN window' : window'[i].turn <= turns'
  BY <1>2 DEF TurnsOnce
<1>6. ASSUME NEW t \in Threads, running'[t] # NoTurn
      PROVE  ~Completed(t, running[t])' /\ \A i \in DOMAIN queue' : ~CompletedAt(i, t, running[t])'
  <2>1. CASE running'[t] = running[t]
    <3>1. ~Completed(t, running[t]) /\ \A i \in DOMAIN queue : ~CompletedAt(i, t, running[t])
      BY <1>6, <2>1 DEF TurnsOnce
    <3>2. ~(event.method = "turn/completed" /\ event.thread = t /\ event.turn = running[t])
      BY <1>2, <1>6, <2>1 DEF TurnsOnce
    <3>3. QED
      BY <1>1, <2>1, <3>1, <3>2 DEF Completed, CompletedAt
  <2>2. CASE running'[t] = turns' /\ turns < turns' /\ event.method # "turn/completed"
    <3>1. \A i \in DOMAIN queue : queue[i].turn # turns'
      BY <1>2, <2>2 DEF TurnsOnce
    <3>2. \A i \in DOMAIN window : window[i].turn # turns'
      BY <1>2, <2>2 DEF TurnsOnce
    <3>3. \A i \in DOMAIN window : window[i] # [thread |-> t, turn |-> turns']
      BY <3>2
    <3>4. QED
      BY <1>1, <2>2, <3>1, <3>3 DEF Completed, CompletedAt
  <2>3. QED
    BY <1>6, <2>1, <2>2
<1>7. QED
  BY <1>3, <1>4, <1>5, <1>6 DEF TurnsOnce

(* apply_event moves completions from the channel to the window.           *)
LEMMA ApplyTurns == ASSUME Typed, Shaped, TurnsOnce, EventThread PROVE TurnsOnce'
<1>1. /\ queue # <<>> /\ queue' = Tail(queue) /\ UNCHANGED <<running, turns>>
      /\ window' = window \/ window' = Retain(Head(queue))
  BY DEF EventThread, ApplyDisconnect, ApplyEvent, providerVars
<1>2. /\ 1 \in DOMAIN queue /\ Head(queue) = queue[1] /\ queue[1] \in Events
      /\ \A i \in DOMAIN queue' : i + 1 \in DOMAIN queue /\ queue'[i] = queue[i + 1]
  BY <1>1, Taken DEF Typed
<1>3. \A i \in DOMAIN window' : window'[i] = Mark(queue[1]) \/ \E j \in DOMAIN window : window'[i] = window[j]
  BY <1>1, <1>2, Retained DEF Shaped
<1>4. Mark(queue[1]).turn <= turns
  <2>1. NoTurn <= turns /\ queue[1].turn <= turns
    BY <1>2 DEF TurnsOnce, Typed, NoTurn
  <2>2. QED
    BY <2>1 DEF Mark
<1>5. \A i \in DOMAIN window' : window'[i].turn <= turns
  BY <1>3, <1>4 DEF TurnsOnce
<1>6. ASSUME NEW t \in Threads, running[t] # NoTurn
      PROVE  ~Completed(t, running[t])' /\ \A i \in DOMAIN queue' : ~CompletedAt(i, t, running[t])'
  <2>1. ~Completed(t, running[t]) /\ \A i \in DOMAIN queue : ~CompletedAt(i, t, running[t])
    BY <1>6 DEF TurnsOnce
  <2>2. Mark(queue[1]) # [thread |-> t, turn |-> running[t]]
    BY <1>2, <1>6, <2>1 DEF Mark, CompletedAt
  <2>3. QED
    BY <1>1, <1>2, <1>3, <2>1, <2>2 DEF Completed, CompletedAt
<1>7. QED
  BY <1>1, <1>2, <1>5, <1>6 DEF TurnsOnce

(* Every step keeps turn numbers used once.                                *)
LEMMA TurnsOnceStep == Typed /\ Owned /\ Shaped /\ TurnsOnce /\ [Next]_vars => TurnsOnce'
<1> SUFFICES ASSUME Typed, Owned, Shaped, TurnsOnce, [Next]_vars PROVE TurnsOnce'
  OBVIOUS
<1>1. ASSUME UNCHANGED <<queue, window, running, turns>> PROVE TurnsOnce'
  BY <1>1 DEF TurnsOnce, Completed, CompletedAt
<1>2. turns \in Nat /\ turns <= turns /\ NoTurn <= turns /\ turns < turns + 1 /\ turns + 1 \in Nat
      /\ \A t \in Threads : running[t] \in Nat
  BY DEF Typed, NoTurn, Turns
<1>3. CASE Begin
  BY <1>1, <1>3 DEF Begin, BeginStart, BeginReconnect, BeginControlled, BeginReply, Write,
                    snapshotVars, providerVars
<1>4. CASE Proceed \/ UNCHANGED vars
  BY <1>1, <1>4
     DEF Proceed, RegisterThread, StartTurn, WriteSend, TurnChanged, WriteInterrupt, SetTurn,
         InterruptConfirmed, MarkSent, WriteReply, Resumed, GiveUp, Write, snapshotVars, providerVars, vars
<1>5. CASE Serve
  <2>1. PICK command \in ToSet(commands) :
          /\ Read(command)
          /\ \/ AcceptThread(command) \/ AcceptTurn(command) \/ AcceptSteer(command)
             \/ AcceptReply(command) \/ RefuseCommand(command)
    BY <1>5 DEF Serve
  <2>2. command \in Commands /\ window' = window
    BY <2>1 DEF Read, snapshotVars, Typed, ToSet
  <2>3. command.thread \in Threads /\ command.ref \in Natives \cup {0}
    BY <2>2 DEF Commands
  <2>4. CASE AcceptThread(command) \/ AcceptSteer(command) \/ RefuseCommand(command)
    BY <1>1, <2>2, <2>4 DEF AcceptThread, AcceptSteer, RefuseCommand
  <2>5. CASE AcceptTurn(command)
    <3>1. turns + 1 \in Turns
      BY <2>5, BoundsAssumption DEF AcceptTurn, Turns, Typed
    <3>2. /\ Event("turn/started", command.thread, turns + 1, 0) \in Events
          /\ Event("turn/started", command.thread, turns + 1, 0).method = "turn/started"
          /\ Event("turn/started", command.thread, turns + 1, 0).turn = turns + 1
      BY <2>3, <3>1, EventTyped
    <3>3. /\ turns' = turns + 1 /\ queue' = Append(queue, Event("turn/started", command.thread, turns + 1, 0))
          /\ \A t \in Threads : running'[t] = running[t] \/ running'[t] = turns + 1
      BY <2>5 DEF AcceptTurn, Typed
    <3>4. turns + 1 <= turns'
      BY <1>2, <3>3
    <3>5. turns <= turns' /\ turns' \in Nat /\ turns < turns'
      BY <1>2, <3>3
    <3>6. QED
      BY <2>2, <3>2, <3>3, <3>4, <3>5, EmittedTurns
  <2>6. CASE AcceptReply(command)
    <3>1. /\ Event("resolved", command.thread, NoTurn, command.ref) \in Events
          /\ Event("resolved", command.thread, NoTurn, command.ref).method = "resolved"
          /\ Event("resolved", command.thread, NoTurn, command.ref).turn = NoTurn
      BY <2>3, EventTyped
    <3>2. UNCHANGED <<turns, running>>
      BY <2>6 DEF AcceptReply
    <3>3. CASE queue' = queue
      BY <1>1, <2>2, <3>2, <3>3
    <3>4. CASE queue' # queue
      <4>1. queue' = Append(queue, Event("resolved", command.thread, NoTurn, command.ref))
        BY <2>6, <3>4 DEF AcceptReply
      <4>2. QED
        BY <1>2, <2>2, <3>1, <3>2, <4>1, EmittedTurns
    <3>5. QED
      BY <3>3, <3>4
  <2>7. QED
    BY <2>1, <2>4, <2>5, <2>6
<1>6. CASE Die
  <2>1. /\ Event("eof", NoThread, NoTurn, 0).turn = NoTurn /\ Event("eof", NoThread, NoTurn, 0) \in Events
        /\ Event("eof", NoThread, NoTurn, 0).method = "eof"
    BY EventTyped
  <2>2. /\ UNCHANGED <<window, turns>> /\ \A t \in Threads : running'[t] = NoTurn
        /\ queue' = Append(queue, Event("eof", NoThread, NoTurn, 0))
    BY <1>6 DEF Die, snapshotVars
  <2>3. QED
    BY <1>2, <2>1, <2>2, EmittedTurns
<1>7. ASSUME NEW event \in Events, Emit(event), turns <= turns', turns' \in Nat, event.turn <= turns',
             \A t \in Threads : \/ running'[t] = NoTurn
                                \/ running'[t] = running[t] /\ ~(event.method = "turn/completed"
                                     /\ event.thread = t /\ event.turn = running[t])
                                \/ running'[t] = turns' /\ turns < turns' /\ event.method # "turn/completed"
      PROVE  TurnsOnce'
  BY <1>7, EmittedTurns DEF Emit, snapshotVars
<1>8. ASSUME NEW t \in Threads, Ask(t) \/ Chatter(t) PROVE TurnsOnce'
  <2>1. ASSUME Ask(t) PROVE requests + 1 \in Natives
    BY <2>1, BoundsAssumption DEF Ask, Natives, Typed
  <2>2. running[t] \in Turns \cup {NoTurn} /\ running[t] <= turns /\ UNCHANGED <<running, turns>>
    BY <1>8 DEF Typed, TurnsOnce, Ask, Chatter
  <2>3. QED
    BY <1>2, <1>7, <1>8, <2>1, <2>2, EventTyped DEF Ask, Chatter
<1>9. ASSUME NEW t \in Threads, FinishTurn(t) PROVE TurnsOnce'
  <2>1. /\ running[t] \in Turns \cup {NoTurn} /\ running[t] <= turns /\ turns' = turns
        /\ \A u \in Threads : running'[u] = NoTurn \/ (running'[u] = running[u] /\ u # t)
    BY <1>9 DEF Typed, TurnsOnce, FinishTurn
  <2>2. QED
    BY <1>2, <1>7, <1>9, <2>1, EventTyped DEF FinishTurn
<1>10. ASSUME NEW t \in Mains, NEW child \in Children, Spawn(t, child) PROVE TurnsOnce'
  <2>1. t \in Threads /\ running[t] \in Turns \cup {NoTurn} /\ running[t] <= turns /\ UNCHANGED <<running, turns>>
    BY <1>10 DEF Typed, Threads, Spawn, TurnsOnce
  <2>2. QED
    BY <1>2, <1>7, <1>10, <2>1, EventTyped DEF Spawn
<1>11. ASSUME NEW child \in Children, ChildTurn(child) PROVE TurnsOnce'
  <2>1. child \in Threads /\ turns + 1 \in Turns
    BY <1>11, BoundsAssumption, ThreadsAssumption DEF ChildTurn, Turns, Threads, Typed
  <2>2. turns' = turns + 1 /\ \A u \in Threads : running'[u] = running[u] \/ running'[u] = turns + 1
    BY <1>11 DEF ChildTurn, Typed
  <2>3. turns + 1 <= turns' /\ turns <= turns' /\ turns' \in Nat /\ turns < turns'
    BY <1>2, <2>2
  <2>4. QED
    BY <1>7, <1>11, <2>1, <2>2, <2>3, EventTyped DEF ChildTurn
<1>12. QED
  BY <1>3, <1>4, <1>5, <1>6, <1>8, <1>9, <1>10, <1>11, ApplyTurns DEF Next, Provider

-----------------------------------------------------------------------------
(* Acknowledged turns: the turn that the handler is about to show runs, or *)
(* its completion is on its way, in the window or was pushed out of it.    *)
Acked == alive /\ pc = "turning" /\ answer.result = "ok"

Acknowledged ==
  Acked =>
    \/ running[op.thread] = answer.turn
    \/ /\ running[op.thread] = NoTurn
       /\ \/ \E i \in DOMAIN queue : CompletedAt(i, op.thread, answer.turn)
          \/ Completed(op.thread, answer.turn)
          \/ answer.turn \in missed

(* A turn is acknowledged when it starts to run.                           *)
LEMMA ServeAcknowledged == ASSUME Typed, Owned, Waiting, Acknowledged, Serve PROVE Acknowledged'
<1>1. PICK command \in ToSet(commands) :
        /\ Read(command)
        /\ \/ AcceptThread(command) \/ AcceptTurn(command) \/ AcceptSteer(command)
           \/ AcceptReply(command) \/ RefuseCommand(command)
  BY DEF Serve
<1>2. /\ command = commands[1] /\ 1 \in DOMAIN commands /\ UNCHANGED <<pc, op, alive>> /\ commands # <<>>
      /\ command \in Commands
  BY <1>1, Served DEF Read
<1> SUFFICES ASSUME Acked' PROVE running'[op.thread] = answer'.turn
  BY <1>2 DEF Acknowledged
<1>3. alive /\ pc = "turning" /\ answer'.result = "ok"
  BY <1>2 DEF Acked
<1>4. answer' # answer
  BY <1>2, <1>3 DEF Waiting
<1>5. Awaited(1)
  BY <1>1, <1>2, <1>4 DEF AcceptThread, AcceptTurn, AcceptSteer, AcceptReply, RefuseCommand,
                          Deliver, Awaited
<1>6. command.thread = op.thread /\ command.kind \in {"turn/start", "turn/steer"}
  BY <1>2, <1>3, <1>5 DEF Waiting, Awaits
<1>7. CASE AcceptTurn(command)
  BY <1>2, <1>4, <1>6, <1>7 DEF AcceptTurn, Deliver, Typed, Commands
<1>8. CASE AcceptSteer(command)
  BY <1>4, <1>6, <1>8 DEF AcceptSteer, Deliver
<1>9. CASE RefuseCommand(command)
  BY <1>3, <1>4, <1>9 DEF RefuseCommand, Deliver
<1>10. QED
  BY <1>1, <1>6, <1>7, <1>8, <1>9 DEF AcceptThread, AcceptReply

(* The process goes on; what it queues, and whom it lets run.              *)
LEMMA EmittedAcknowledged ==
  ASSUME Typed, Acknowledged, UNCHANGED <<window, missed, pc, op, answer, alive>>,
         NEW event \in Events, queue' = Append(queue, event),
         Acked => \/ running'[op.thread] = running[op.thread]
                  \/ /\ running'[op.thread] = NoTurn /\ event.method = "turn/completed"
                     /\ event.thread = op.thread /\ event.turn = running[op.thread]
  PROVE  Acknowledged'
<1>1. /\ \A i \in DOMAIN queue : i \in DOMAIN queue' /\ queue'[i] = queue[i]
      /\ Len(queue) + 1 \in DOMAIN queue' /\ queue'[Len(queue) + 1] = event
  BY Appended
<1>2. \A i \in DOMAIN queue : CompletedAt(i, op.thread, answer.turn) => CompletedAt(i, op.thread, answer.turn)'
  BY <1>1 DEF CompletedAt
<1>3. Acked' => Acked
  BY DEF Acked
<1>4. CASE Acked /\ running'[op.thread] = running[op.thread]
  BY <1>1, <1>2, <1>3, <1>4 DEF Acknowledged, Completed
<1>5. CASE /\ Acked /\ running'[op.thread] = NoTurn /\ event.method = "turn/completed"
           /\ event.thread = op.thread /\ event.turn = running[op.thread]
  <2>1. CASE running[op.thread] = answer.turn
    <3>1. \E i \in DOMAIN queue' : CompletedAt(i, op.thread, answer.turn)'
      BY <1>1, <1>5, <2>1 DEF CompletedAt
    <3>2. QED
      BY <1>5, <3>1 DEF Acknowledged
  <2>2. CASE running[op.thread] # answer.turn
    BY <1>1, <1>2, <1>5, <2>2 DEF Acknowledged, Completed
  <2>3. QED
    BY <2>1, <2>2
<1>6. QED
  BY <1>3, <1>4, <1>5 DEF Acknowledged

(* apply_event moves the completion of an acknowledged turn to the window. *)
LEMMA ApplyAcknowledged == ASSUME Typed, Shaped, Acknowledged, EventThread PROVE Acknowledged'
<1>1. /\ queue # <<>> /\ queue' = Tail(queue) /\ UNCHANGED <<running, pc, op, answer, alive>>
  BY DEF EventThread, ApplyDisconnect, ApplyEvent, handlerVars, providerVars
<1>2. /\ 1 \in DOMAIN queue /\ Head(queue) = queue[1] /\ queue[1] \in Events
      /\ \A i \in DOMAIN queue : i = 1 \/ (i - 1 \in DOMAIN queue' /\ queue'[i - 1] = queue[i])
  BY <1>1, Taken DEF Typed
<1>3. CASE ApplyDisconnect
  <2>1. window' = window /\ missed' = missed
    BY <1>3 DEF ApplyDisconnect
  <2>2. \A i, t, turn : CompletedAt(i, t, turn) => i # 1
    BY <1>2, <1>3 DEF ApplyDisconnect, CompletedAt
  <2>3. \A i \in DOMAIN queue : \A t, turn : CompletedAt(i, t, turn) => i - 1 \in DOMAIN queue' /\ CompletedAt(i - 1, t, turn)'
    BY <1>2, <2>2 DEF CompletedAt
  <2>4. QED
    BY <1>1, <2>1, <2>3 DEF Acknowledged, Acked, Completed
<1>4. CASE ApplyEvent
  <2>1. /\ window' = Retain(queue[1])
        /\ missed' = missed \cup (IF DropsAwaited THEN {answer.turn} ELSE {})
    BY <1>2, <1>4 DEF ApplyEvent
  <2>2. /\ Len(window') \in DOMAIN window' /\ window'[Len(window')] = Mark(queue[1])
        /\ \/ \A i \in DOMAIN window : i \in DOMAIN window' /\ window'[i] = window[i]
           \/ /\ Len(window) = WindowLimit
              /\ \A i \in DOMAIN window : i = 1 \/ (i - 1 \in DOMAIN window' /\ window'[i - 1] = window[i])
        /\ Len(window) \in Nat /\ Len(window') \in Nat
    BY <1>2, <2>1, Retained DEF Shaped
  <2>3. missed \subseteq missed'
    BY <2>1
  <2>4. ASSUME Acked, Completed(op.thread, answer.turn)
        PROVE  Completed(op.thread, answer.turn)' \/ answer.turn \in missed'
    <3>1. PICK i \in DOMAIN window : window[i] = [thread |-> op.thread, turn |-> answer.turn]
      BY <2>4 DEF Completed
    <3>2. CASE i \in DOMAIN window' /\ window'[i] = window[i]
      BY <1>1, <3>1, <3>2 DEF Completed
    <3>3. CASE i - 1 \in DOMAIN window' /\ window'[i - 1] = window[i]
      BY <1>1, <3>1, <3>3 DEF Completed
    <3>4. CASE i = 1 /\ Len(window) = WindowLimit
      <4>1. Head(window) = window[1]
        BY <3>1, <3>4
      <4>2. DropsAwaited
        BY <2>4, <3>1, <3>4, <4>1 DEF DropsAwaited, Acked
      <4>3. QED
        BY <2>1, <4>2
    <3>5. QED
      BY <2>2, <3>1, <3>2, <3>3, <3>4
  <2>5. \A t, turn : CompletedAt(1, t, turn) => Completed(t, turn)'
    BY <2>2 DEF CompletedAt, Completed, Mark
  <2>6. \A i \in DOMAIN queue : \A t, turn :
          CompletedAt(i, t, turn) => i = 1 \/ (i - 1 \in DOMAIN queue' /\ CompletedAt(i - 1, t, turn)')
    BY <1>2 DEF CompletedAt
  <2>7. QED
    BY <1>1, <2>3, <2>4, <2>5, <2>6 DEF Acknowledged, Acked
<1>5. QED
  BY <1>3, <1>4 DEF EventThread

(* Every step keeps the acknowledged turn running, or its completion       *)
(* known.                                                                  *)
LEMMA AcknowledgedStep ==
  Typed /\ Owned /\ Shaped /\ Waiting /\ Lives /\ Acknowledged /\ [Next]_vars => Acknowledged'
<1> SUFFICES ASSUME Typed, Owned, Shaped, Waiting, Lives, Acknowledged, [Next]_vars PROVE Acknowledged'
  OBVIOUS
<1>1. ASSUME UNCHANGED <<queue, window, missed, running, pc, op, answer, alive>> PROVE Acknowledged'
  BY <1>1 DEF Acknowledged, Acked, Completed, CompletedAt
<1>2. ASSUME pc' # "turning" \/ answer'.result # "ok" PROVE Acknowledged'
  BY <1>2 DEF Acknowledged, Acked
<1>3. NoAnswer.result # "ok"
  BY DEF NoAnswer
<1>4. CASE Begin
  BY <1>2, <1>4 DEF Begin, BeginStart, BeginReconnect, BeginControlled, BeginReply, Await
<1>5. CASE Proceed
  BY <1>2, <1>3, <1>5
     DEF Proceed, RegisterThread, StartTurn, WriteSend, TurnChanged, WriteInterrupt, SetTurn,
         InterruptConfirmed, MarkSent, WriteReply, Resumed, GiveUp, Await, Done
<1>6. CASE UNCHANGED vars
  BY <1>1, <1>6 DEF vars, snapshotVars, handlerVars, providerVars
<1>7. CASE Die
  BY <1>7 DEF Die, Acknowledged, Acked
<1>8. ASSUME NEW event \in Events, Emit(event),
             Acked => \/ running'[op.thread] = running[op.thread]
                      \/ /\ running'[op.thread] = NoTurn /\ event.method = "turn/completed"
                         /\ event.thread = op.thread /\ event.turn = running[op.thread]
      PROVE  Acknowledged'
  BY <1>8, EmittedAcknowledged DEF Emit, snapshotVars, handlerVars
<1>9. Acked => op.thread \in Mains /\ op.thread \in Threads
  BY DEF Acked, Lives, Owned, Threads
<1>10. ASSUME NEW t \in Threads, Ask(t) \/ Chatter(t) PROVE Acknowledged'
  <2>1. ASSUME Ask(t) PROVE requests + 1 \in Natives
    BY <2>1, BoundsAssumption DEF Ask, Natives, Typed
  <2>2. running[t] \in Turns \cup {NoTurn} /\ running' = running
    BY <1>10 DEF Typed, Ask, Chatter
  <2>3. QED
    BY <1>8, <1>10, <2>1, <2>2, EventTyped DEF Ask, Chatter
<1>11. ASSUME NEW t \in Threads, FinishTurn(t) PROVE Acknowledged'
  <2>1. /\ running[t] \in Turns \cup {NoTurn}
        /\ running'[t] = NoTurn /\ \A u \in Threads : u # t => running'[u] = running[u]
    BY <1>11 DEF Typed, FinishTurn
  <2>2. QED
    BY <1>8, <1>9, <1>11, <2>1, EventTyped DEF FinishTurn
<1>12. ASSUME NEW t \in Mains, NEW child \in Children, Spawn(t, child) PROVE Acknowledged'
  <2>1. t \in Threads /\ running[t] \in Turns \cup {NoTurn} /\ running' = running
    BY <1>12 DEF Typed, Threads, Spawn
  <2>2. QED
    BY <1>8, <1>12, <2>1, EventTyped DEF Spawn
<1>13. ASSUME NEW child \in Children, ChildTurn(child) PROVE Acknowledged'
  <2>1. child \in Threads /\ turns + 1 \in Turns /\ child \notin Mains
    BY <1>13, BoundsAssumption, ThreadsAssumption DEF ChildTurn, Turns, Threads, Typed
  <2>2. \A u \in Mains : running'[u] = running[u]
    BY <1>13, <2>1 DEF ChildTurn, Typed, Threads
  <2>3. QED
    BY <1>8, <1>9, <1>13, <2>1, <2>2, EventTyped DEF ChildTurn
<1>14. QED
  BY <1>4, <1>5, <1>6, <1>7, <1>10, <1>11, <1>12, <1>13, ServeAcknowledged, ApplyAcknowledged
     DEF Next, Provider

-----------------------------------------------------------------------------
(* Views.  The last event of a turn that is on its way tells which turn    *)
(* runs; a completion finds the turn it ends shown, or none.  Without one  *)
(* the snapshot shows the turn that runs.                                  *)
LastFor(i, t) == TurnEvent(i, t) /\ \A j \in DOMAIN queue : j > i => ~TurnEvent(j, t)

FirstFor(i, t) == \A j \in DOMAIN queue : j < i => ~TurnEvent(j, t)

JustStarted(i, t) ==
  \E j \in DOMAIN queue :
    /\ j < i /\ TurnEvent(j, t) /\ queue[j].method = "turn/started"
    /\ queue[j].turn = queue[i].turn
    /\ \A m \in DOMAIN queue : j < m /\ m < i => ~TurnEvent(m, t)

Attached(t) ==
  t \in loaded \/ \E i \in DOMAIN commands :
    commands[i].thread = t /\ commands[i].kind \in {"thread/start", "thread/resume"}

Ending(i, t) ==
  /\ running[t] = NoTurn
  /\ \/ JustStarted(i, t)
     \/ FirstFor(i, t) /\ (active[t] \in {NoTurn, queue[i].turn} \cup missed)

Settled(t) == active[t] = running[t] \/ (running[t] = NoTurn /\ active[t] \in missed)

View(t) ==
  /\ \A i \in DOMAIN queue : LastFor(i, t) =>
       /\ queue[i].method = "turn/started" => running[t] = queue[i].turn
       /\ queue[i].method = "turn/completed" => Ending(i, t)
  /\ Attached(t) /\ (\A i \in DOMAIN queue : ~TurnEvent(i, t)) => Settled(t)

Views == alive => \A t \in Mains : View(t)

(* Some position of the channel is the last of those in a set.             *)
LEMMA LastOf ==
  ASSUME NEW n \in Nat, NEW T \in SUBSET (1..n), T # {}
  PROVE  \E i \in T : \A j \in T : j <= i
<1> DEFINE D == {n - i : i \in T}
<1>1. D \in SUBSET Nat /\ D # {}
  <2>1. \A i \in T : n - i \in Nat
    OBVIOUS
  <2>2. QED
    BY <2>1
<1>2. PICK d \in D : \A m \in D : ~ (<<m, d>> \in OpToRel(<, Nat))
  BY <1>1, WFMin, NatLessThanWellFounded
<1>3. PICK i \in T : d = n - i
  BY <1>2
<1>4. ASSUME NEW j \in T PROVE j <= i
  <2>1. n - j \in D /\ n - j \in Nat /\ d \in Nat
    BY <1>1, <1>2
  <2>2. ~ (n - j < d)
    BY <1>2, <2>1 DEF OpToRel
  <2>3. QED
    BY <1>3, <2>2
<1>5. QED
  BY <1>4

(* Steps that leave a conversation's channel and turn alone.               *)
LEMMA ViewAside ==
  ASSUME NEW t \in Mains, View(t), queue' = queue, running'[t] = running[t], missed' = missed,
         active'[t] = active[t] \/ (active'[t] = NoTurn /\ running[t] = NoTurn),
         Attached(t)' => Attached(t) \/ active'[t] = running'[t]
  PROVE  View(t)'
<1>1. \A i : TurnEvent(i, t)' <=> TurnEvent(i, t)
  BY DEF TurnEvent
<1>2. \A i : (LastFor(i, t)' <=> LastFor(i, t)) /\ (FirstFor(i, t)' <=> FirstFor(i, t))
             /\ (JustStarted(i, t)' <=> JustStarted(i, t))
  BY <1>1 DEF LastFor, FirstFor, JustStarted
<1>3. \A i : Ending(i, t) => Ending(i, t)'
  BY <1>2 DEF Ending
<1>4. (Settled(t) => Settled(t)') /\ (active'[t] = running'[t] => Settled(t)')
  BY DEF Settled
<1>5. QED
  BY <1>1, <1>2, <1>3, <1>4 DEF View

(* Queueing leaves order as it is: what was last is last unless the new    *)
(* event is of the same conversation's turn.                               *)
LEMMA QueuedOrder ==
  ASSUME Typed, NEW event \in Events, queue' = Append(queue, event), NEW t,
         NEW last, last = Len(queue) + 1
  PROVE  /\ last \in DOMAIN queue' /\ queue'[last] = event /\ \A i \in DOMAIN queue : i < last
         /\ TurnEvent(last, t)' <=> event.thread = t /\ event.method \in {"turn/started", "turn/completed"}
         /\ \A i \in DOMAIN queue' : i \in DOMAIN queue \/ i = last
         /\ \A i \in DOMAIN queue :
              /\ i \in DOMAIN queue' /\ queue'[i] = queue[i]
              /\ TurnEvent(i, t)' <=> TurnEvent(i, t)
              /\ LastFor(i, t)' <=> LastFor(i, t) /\ ~TurnEvent(last, t)'
              /\ FirstFor(i, t)' <=> FirstFor(i, t)
              /\ JustStarted(i, t) => JustStarted(i, t)'
<1>1. /\ Len(queue) \in Nat /\ DOMAIN queue = 1..Len(queue)
      /\ \A i \in DOMAIN queue : i \in DOMAIN queue' /\ i < last /\ queue'[i] = queue[i]
      /\ last \in DOMAIN queue' /\ queue'[last] = event
      /\ \A i \in DOMAIN queue' : i \in DOMAIN queue \/ i = last
  BY Appended
<1>2. TurnEvent(last, t)' <=> event.thread = t /\ event.method \in {"turn/started", "turn/completed"}
  BY <1>1 DEF TurnEvent
<1>3. \A i \in DOMAIN queue : TurnEvent(i, t)' <=> TurnEvent(i, t)
  BY <1>1 DEF TurnEvent
<1>4. \A i \in DOMAIN queue : ~(last < i) /\ last > i
  BY <1>1
<1>5. \A i \in DOMAIN queue : LastFor(i, t)' <=> LastFor(i, t) /\ ~TurnEvent(last, t)'
  BY <1>1, <1>3, <1>4 DEF LastFor
<1>6. \A i \in DOMAIN queue : FirstFor(i, t)' <=> FirstFor(i, t)
  BY <1>1, <1>3, <1>4 DEF FirstFor
<1>7. \A i \in DOMAIN queue : JustStarted(i, t) => JustStarted(i, t)'
  BY <1>1, <1>3, <1>4 DEF JustStarted
<1>8. QED
  BY <1>1, <1>2, <1>3, <1>5, <1>6, <1>7

(* Another event is queued.                                                *)
LEMMA OtherView ==
  ASSUME Typed, NEW t \in Mains, View(t), NEW event \in Events, queue' = Append(queue, event),
         event.thread # t \/ event.method \notin {"turn/started", "turn/completed"},
         running'[t] = running[t], active'[t] = active[t], missed' = missed,
         Attached(t)' => Attached(t)
  PROVE  View(t)'
<1>0. PICK last : last = Len(queue) + 1
  OBVIOUS
<1>1. ~TurnEvent(last, t)'
  BY <1>0, QueuedOrder
<1>2. \A i \in DOMAIN queue : LastFor(i, t)' => LastFor(i, t)
  BY <1>0, QueuedOrder
<1>3. ASSUME NEW i \in DOMAIN queue, Ending(i, t) PROVE Ending(i, t)'
  <2>1. /\ FirstFor(i, t) => FirstFor(i, t)'
        /\ JustStarted(i, t) => JustStarted(i, t)'
        /\ queue'[i] = queue[i]
    BY <1>0, QueuedOrder
  <2>2. QED
    BY <1>3, <2>1 DEF Ending
<1>4. ASSUME NEW i \in DOMAIN queue', LastFor(i, t)'
      PROVE  /\ queue'[i].method = "turn/started" => running'[t] = queue'[i].turn
             /\ queue'[i].method = "turn/completed" => Ending(i, t)'
  <2>1. i \in DOMAIN queue /\ queue'[i] = queue[i]
    BY <1>0, <1>1, <1>4, QueuedOrder DEF LastFor
  <2>2. QED
    BY <1>2, <1>3, <1>4, <2>1 DEF View
<1>5. (\A i \in DOMAIN queue' : ~TurnEvent(i, t)') => \A i \in DOMAIN queue : ~TurnEvent(i, t)
  BY <1>0, QueuedOrder
<1>6. Settled(t) => Settled(t)'
  BY DEF Settled
<1>7. QED
  BY <1>4, <1>5, <1>6 DEF View

(* A turn of the conversation starts.                                      *)
LEMMA StartedView ==
  ASSUME Typed, NEW t \in Mains, NEW event \in Events, queue' = Append(queue, event),
         event.thread = t, event.method = "turn/started", running'[t] = event.turn
  PROVE  View(t)'
<1>0. PICK last : last = Len(queue) + 1
  OBVIOUS
<1>1. TurnEvent(last, t)' /\ last \in DOMAIN queue' /\ queue'[last] = event
  BY <1>0, QueuedOrder
<1>2. \A i \in DOMAIN queue' : LastFor(i, t)' => i = last
  BY <1>0, <1>1, QueuedOrder DEF LastFor
<1>3. QED
  BY <1>1, <1>2 DEF View

(* The turn of the conversation ends.                                      *)
LEMMA EndedView ==
  ASSUME Typed, NEW t \in Mains, View(t), NEW event \in Events, queue' = Append(queue, event),
         event.thread = t, event.method = "turn/completed", event.turn = running[t],
         running[t] # NoTurn, running'[t] = NoTurn, active'[t] = active[t], Attached(t)
  PROVE  View(t)'
<1>0. PICK last : last = Len(queue) + 1
  OBVIOUS
<1>1. TurnEvent(last, t)' /\ last \in DOMAIN queue' /\ queue'[last] = event
  BY <1>0, QueuedOrder
<1>2. \A i \in DOMAIN queue' : LastFor(i, t)' => i = last
  BY <1>0, <1>1, QueuedOrder DEF LastFor
<1>3. Ending(last, t)'
  <2>1. CASE \A i \in DOMAIN queue : ~TurnEvent(i, t)
    <3>1. active[t] = running[t]
      BY <2>1 DEF View, Settled
    <3>2. FirstFor(last, t)'
      <4>1. \A i \in DOMAIN queue : ~TurnEvent(i, t)'
        BY <1>0, <2>1, QueuedOrder
      <4>2. \A i \in DOMAIN queue' : i \in DOMAIN queue \/ i = last
        BY <1>0, QueuedOrder
      <4>3. ~(last < last)
        BY <1>0 DEF Typed
      <4>4. QED
        BY <4>1, <4>2, <4>3 DEF FirstFor
    <3>3. active'[t] = queue'[last].turn
      BY <1>1, <3>1
    <3>4. QED
      BY <3>2, <3>3 DEF Ending
  <2>2. CASE \E i \in DOMAIN queue : TurnEvent(i, t)
    <3>1. PICK i \in DOMAIN queue : LastFor(i, t)
      <4> DEFINE ofTurns == {i \in DOMAIN queue : TurnEvent(i, t)}
      <4>1. DOMAIN queue = 1..Len(queue) /\ Len(queue) \in Nat
        BY DEF Typed
      <4>2. ofTurns # {} /\ ofTurns \in SUBSET (1..Len(queue))
        BY <2>2, <4>1
      <4>3. PICK m \in ofTurns : \A j \in ofTurns : j <= m
        BY <4>1, <4>2, LastOf
      <4>4. \A j \in DOMAIN queue : j > m => ~TurnEvent(j, t)
        BY <4>1, <4>2, <4>3
      <4>5. QED
        BY <4>3, <4>4 DEF LastFor
    <3>2. queue[i].method = "turn/started"
      BY <3>1 DEF View, Ending, LastFor, TurnEvent
    <3>3. queue[i].turn = running[t]
      BY <3>1, <3>2 DEF View
    <3>4. ASSUME NEW m \in DOMAIN queue', i < m, m < last PROVE ~TurnEvent(m, t)'
      <4>1. m \in DOMAIN queue
        BY <1>0, <3>4, QueuedOrder DEF Typed
      <4>2. ~TurnEvent(m, t)
        BY <3>1, <3>4, <4>1 DEF LastFor, Typed
      <4>3. QED
        BY <1>0, <4>1, <4>2, QueuedOrder
    <3>5. JustStarted(last, t)'
      BY <1>0, <1>1, <3>1, <3>2, <3>3, <3>4, QueuedOrder DEF JustStarted, LastFor
    <3>6. QED
      BY <3>5 DEF Ending
  <2>3. QED
    BY <2>1, <2>2
<1>4. QED
  BY <1>1, <1>2, <1>3 DEF View

(* What the next event leaves behind.                                      *)
LEMMA TakenOrder ==
  ASSUME Typed, queue # <<>>, queue' = Tail(queue), NEW t, NEW i \in DOMAIN queue'
  PROVE  /\ i + 1 \in DOMAIN queue /\ queue'[i] = queue[i + 1] /\ i \in Nat /\ i > 0
         /\ TurnEvent(i, t)' <=> TurnEvent(i + 1, t)
         /\ LastFor(i, t)' => LastFor(i + 1, t)
         /\ FirstFor(i + 1, t) => FirstFor(i, t)' /\ ~TurnEvent(1, t)
         /\ JustStarted(i + 1, t) =>
              \/ JustStarted(i, t)'
              \/ /\ FirstFor(i, t)' /\ TurnEvent(1, t) /\ queue[1].method = "turn/started"
                 /\ queue[1].turn = queue[i + 1].turn
<1>1. /\ 1 \in DOMAIN queue /\ DOMAIN queue = 1..Len(queue) /\ Len(queue) \in Nat
      /\ DOMAIN queue' \subseteq Nat \ {0}
      /\ \A j \in DOMAIN queue' : j + 1 \in DOMAIN queue /\ queue'[j] = queue[j + 1]
      /\ \A j \in DOMAIN queue : j = 1 \/ (j - 1 \in DOMAIN queue' /\ queue'[j - 1] = queue[j])
  BY Taken
<1>2. i + 1 \in DOMAIN queue /\ queue'[i] = queue[i + 1] /\ i \in Nat /\ i > 0
  BY <1>1
<1>3. \A j \in DOMAIN queue' : TurnEvent(j, t)' <=> TurnEvent(j + 1, t)
  BY <1>1 DEF TurnEvent
<1>4. \A j \in DOMAIN queue : j # 1 => (TurnEvent(j, t) <=> TurnEvent(j - 1, t)') /\ j - 1 \in DOMAIN queue'
  BY <1>1 DEF TurnEvent
<1>5. ASSUME LastFor(i, t)' PROVE LastFor(i + 1, t)
  <2>1. ASSUME NEW j \in DOMAIN queue, j > i + 1 PROVE ~TurnEvent(j, t)
    <3>1. j # 1 /\ j - 1 > i
      BY <1>1, <1>2, <2>1
    <3>2. QED
      BY <1>4, <1>5, <3>1 DEF LastFor
  <2>2. QED
    BY <1>3, <1>5, <2>1 DEF LastFor
<1>6. ASSUME \A j \in DOMAIN queue : 1 < j /\ j < i + 1 => ~TurnEvent(j, t) PROVE FirstFor(i, t)'
  <2>1. ASSUME NEW j \in DOMAIN queue', j < i PROVE ~TurnEvent(j, t)'
    <3>1. j + 1 \in DOMAIN queue /\ 1 < j + 1 /\ j + 1 < i + 1
      BY <1>1, <1>2, <2>1
    <3>2. QED
      BY <1>3, <1>6, <3>1
  <2>2. QED
    BY <2>1 DEF FirstFor
<1>7. ASSUME FirstFor(i + 1, t) PROVE FirstFor(i, t)' /\ ~TurnEvent(1, t)
  BY <1>1, <1>2, <1>6, <1>7 DEF FirstFor
<1>8. ASSUME JustStarted(i + 1, t)
      PROVE  \/ JustStarted(i, t)'
             \/ /\ FirstFor(i, t)' /\ TurnEvent(1, t) /\ queue[1].method = "turn/started"
                /\ queue[1].turn = queue[i + 1].turn
  <2>1. PICK j \in DOMAIN queue :
          /\ j < i + 1 /\ TurnEvent(j, t) /\ queue[j].method = "turn/started"
          /\ queue[j].turn = queue[i + 1].turn
          /\ \A m \in DOMAIN queue : j < m /\ m < i + 1 => ~TurnEvent(m, t)
    BY <1>8 DEF JustStarted
  <2>2. CASE j = 1
    BY <1>6, <2>1, <2>2
  <2>3. CASE j # 1
    <3>1. /\ j - 1 \in DOMAIN queue' /\ j - 1 < i /\ TurnEvent(j - 1, t)' /\ queue'[j - 1] = queue[j]
      BY <1>1, <1>2, <1>4, <2>1, <2>3
    <3>2. ASSUME NEW m \in DOMAIN queue', j - 1 < m, m < i PROVE ~TurnEvent(m, t)'
      <4>1. m + 1 \in DOMAIN queue /\ j < m + 1 /\ m + 1 < i + 1
        BY <1>1, <1>2, <3>2
      <4>2. QED
        BY <1>3, <2>1, <4>1
    <3>3. JustStarted(i, t)'
      BY <1>2, <2>1, <3>1, <3>2 DEF JustStarted
    <3>4. QED
      BY <3>3
  <2>4. QED
    BY <2>2, <2>3
<1>9. QED
  BY <1>2, <1>3, <1>5, <1>7, <1>8

(* The next event is applied.                                              *)
LEMMA AppliedView ==
  ASSUME Typed, MainsOwned, Shaped, NEW t \in Mains, View(t), ApplyEvent
  PROVE  View(t)'
<1>1. /\ queue # <<>> /\ queue' = Tail(queue) /\ UNCHANGED <<running, loaded, commands>>
      /\ 1 \in DOMAIN queue /\ Head(queue) = queue[1] /\ queue[1] \in Events
      /\ \A i \in DOMAIN queue : i = 1 \/ i - 1 \in DOMAIN queue'
      /\ DOMAIN queue = 1..Len(queue)
  BY Taken DEF ApplyEvent, providerVars, Typed
<1>2. missed \subseteq missed'
  BY DEF ApplyEvent
<1>3. t \in Threads /\ (queue[1].thread = t => t \in known)
  BY <1>1 DEF MainsOwned, Threads
<1>4. TurnEvent(1, t) /\ queue[1].method = "turn/started" => active'[t] = queue[1].turn
  BY <1>1, <1>3 DEF ApplyEvent, ApplyStarted, TurnEvent, Shaped
<1>5. TurnEvent(1, t) /\ queue[1].method = "turn/completed" =>
        active'[t] = IF active[t] = queue[1].turn THEN NoTurn ELSE active[t]
  BY <1>1, <1>3 DEF ApplyEvent, ApplyCompleted, TurnEvent, Shaped
<1>6. ~TurnEvent(1, t) => active'[t] = active[t]
  BY <1>1, <1>3 DEF ApplyEvent, ApplySpawn, ApplyRequest, ApplyResolved, ApplyStarted, ApplyCompleted,
                    ApplyOther, TurnEvent, Shaped
<1>7. ASSUME NEW i \in DOMAIN queue', LastFor(i, t)'
      PROVE  /\ queue'[i].method = "turn/started" => running'[t] = queue'[i].turn
             /\ queue'[i].method = "turn/completed" => Ending(i, t)'
  <2>1. i + 1 \in DOMAIN queue /\ queue'[i] = queue[i + 1] /\ LastFor(i + 1, t)
    BY <1>1, <1>7, TakenOrder
  <2>2. queue'[i].method = "turn/started" => running'[t] = queue'[i].turn
    BY <1>1, <2>1 DEF View
  <2>3. ASSUME queue'[i].method = "turn/completed" PROVE Ending(i, t)'
    <3>1. Ending(i + 1, t)
      BY <2>1, <2>3 DEF View
    <3>2. CASE JustStarted(i + 1, t)
      <4>1. \/ JustStarted(i, t)'
            \/ /\ FirstFor(i, t)' /\ TurnEvent(1, t) /\ queue[1].method = "turn/started"
               /\ queue[1].turn = queue[i + 1].turn
        BY <1>1, <3>2, TakenOrder
      <4>2. QED
        BY <1>1, <1>4, <2>1, <3>1, <4>1 DEF Ending
    <3>3. CASE FirstFor(i + 1, t) /\ (active[t] \in {NoTurn, queue[i + 1].turn} \cup missed)
      <4>1. FirstFor(i, t)' /\ ~TurnEvent(1, t)
        BY <1>1, <3>3, TakenOrder
      <4>2. QED
        BY <1>1, <1>2, <1>6, <2>1, <3>1, <3>3, <4>1 DEF Ending
    <3>4. QED
      BY <3>1, <3>2, <3>3 DEF Ending
  <2>4. QED
    BY <2>2, <2>3
<1>8. ASSUME Attached(t)', \A i \in DOMAIN queue' : ~TurnEvent(i, t)' PROVE Settled(t)'
  <2>1. \A i \in DOMAIN queue : i # 1 => ~TurnEvent(i, t)
    <3> SUFFICES ASSUME NEW i \in DOMAIN queue, i # 1 PROVE ~TurnEvent(i, t)
      OBVIOUS
    <3>1. i - 1 \in DOMAIN queue' /\ (i - 1) + 1 = i
      BY <1>1
    <3>2. TurnEvent(i - 1, t)' <=> TurnEvent((i - 1) + 1, t)
      BY <1>1, <3>1, TakenOrder
    <3>3. QED
      BY <1>8, <3>1, <3>2
  <2>2. Attached(t)
    BY <1>1, <1>8 DEF Attached
  <2>3. CASE ~TurnEvent(1, t)
    <3>1. Settled(t)
      BY <2>1, <2>2, <2>3 DEF View
    <3>2. QED
      BY <1>1, <1>2, <1>6, <2>3, <3>1 DEF Settled
  <2>4. CASE TurnEvent(1, t)
    <3>1. LastFor(1, t)
      BY <1>1, <2>1, <2>4 DEF LastFor
    <3>2. CASE queue[1].method = "turn/started"
      BY <1>1, <1>4, <2>4, <3>1, <3>2 DEF View, Settled
    <3>3. CASE queue[1].method = "turn/completed"
      <4>1. Ending(1, t)
        BY <1>1, <3>1, <3>3 DEF View
      <4>2. ~JustStarted(1, t)
        BY <1>1 DEF JustStarted
      <4>3. QED
        BY <1>1, <1>2, <1>5, <2>4, <3>3, <4>1, <4>2 DEF Ending, Settled
    <3>4. QED
      BY <2>4, <3>2, <3>3 DEF TurnEvent
  <2>5. QED
    BY <2>3, <2>4
<1>9. QED
  BY <1>7, <1>8 DEF View

(* A step beside the turns and the events leaves the view of a             *)
(* conversation as it is.                                                  *)
LEMMA ViewKept ==
  ASSUME NEW t \in Mains, View(t), UNCHANGED <<queue, running, active, missed>>, Attached(t)' => Attached(t)
  PROVE  View(t)'
<1>1. running'[t] = running[t] /\ active'[t] = active[t]
  OBVIOUS
<1>2. QED
  BY <1>1, ViewAside

(* set_turn shows the acknowledged turn, or finds it completed.            *)
LEMMA SetTurnView ==
  ASSUME Typed, Owned, Shaped, TurnsOnce, Lives, Acknowledged, alive, NEW t \in Mains, View(t), SetTurn
  PROVE  View(t)'
<1>1. /\ pc = "turning" /\ answer.result = "ok" /\ Acked /\ op.thread \in Mains
      /\ UNCHANGED <<queue, running, window, missed, loaded, commands>>
      /\ active' = [active EXCEPT ![op.thread] =
           IF Completed(op.thread, answer.turn) THEN NoTurn ELSE answer.turn]
  BY DEF SetTurn, Acked, Lives, Owned, providerVars
<1>2. Attached(t)' => Attached(t)
  BY <1>1 DEF Attached
<1>3. CASE t # op.thread
  <2>1. active'[t] = active[t]
    BY <1>1, <1>3 DEF Shaped, Threads
  <2>2. running'[t] = running[t]
    BY <1>1
  <2>3. QED
    BY <1>1, <1>2, <2>1, <2>2, ViewAside
<1>4. CASE t = op.thread
  <2> DEFINE turn == answer.turn
  <2>1. active'[t] = IF Completed(t, turn) THEN NoTurn ELSE turn
    BY <1>1, <1>4 DEF Shaped, Threads
  <2>2. \/ running[t] = turn
        \/ /\ running[t] = NoTurn
           /\ (\E i \in DOMAIN queue : CompletedAt(i, t, turn)) \/ Completed(t, turn) \/ turn \in missed
    BY <1>1, <1>4 DEF Acknowledged
  <2>3. \A i : TurnEvent(i, t)' <=> TurnEvent(i, t)
    BY <1>1 DEF TurnEvent
  <2>4. \A i : (LastFor(i, t)' <=> LastFor(i, t)) /\ (FirstFor(i, t)' <=> FirstFor(i, t))
               /\ (JustStarted(i, t)' <=> JustStarted(i, t))
    BY <1>1, <2>3 DEF LastFor, FirstFor, JustStarted
  <2>5. ASSUME NEW i \in DOMAIN queue, LastFor(i, t), Ending(i, t) PROVE Ending(i, t)'
    <3>1. CASE JustStarted(i, t)
      BY <1>1, <2>4, <2>5, <3>1 DEF Ending
    <3>2. CASE FirstFor(i, t)
      <4>1. running[t] = NoTurn /\ FirstFor(i, t)'
        BY <2>4, <2>5, <3>2 DEF Ending
      <4>2. ASSUME NEW j \in DOMAIN queue, CompletedAt(j, t, turn) PROVE queue[i].turn = turn
        <5>1. TurnEvent(j, t)
          BY <4>2 DEF CompletedAt, TurnEvent
        <5>2. j = i
          BY <2>5, <3>2, <5>1 DEF LastFor, FirstFor, Typed
        <5>3. QED
          BY <4>2, <5>2 DEF CompletedAt
      <4>3. active'[t] \in {NoTurn, queue[i].turn} \cup missed
        BY <2>1, <2>2, <4>1, <4>2
      <4>4. QED
        BY <1>1, <4>1, <4>3 DEF Ending
    <3>3. QED
      BY <2>5, <3>1, <3>2 DEF Ending
  <2>6. ASSUME \A i \in DOMAIN queue : ~TurnEvent(i, t) PROVE Settled(t)'
    <3>1. \A i \in DOMAIN queue : ~CompletedAt(i, t, turn)
      BY <2>6 DEF CompletedAt, TurnEvent
    <3>2. running[t] # NoTurn => ~Completed(t, running[t])
      BY DEF TurnsOnce, Threads
    <3>3. QED
      BY <1>1, <2>1, <2>2, <3>1, <3>2 DEF Settled
  <2>7. QED
    BY <1>1, <2>3, <2>4, <2>5, <2>6 DEF View
<1>5. QED
  BY <1>3, <1>4

(* A command is written, here or to a new process.                         *)
LEMMA WriteViews ==
  ASSUME Typed, InChannel, Attachments, Views, NEW kind, NEW t \in Mains, NEW turn, NEW ref,
         Write(Command(kind, t, turn, ref)), UNCHANGED <<active, missed>>,
         kind \in {"thread/start", "thread/resume"} => active[t] = NoTurn
  PROVE  Views'
<1> DEFINE command == Command(kind, t, turn, ref)
<1>1. UNCHANGED <<queue, loaded, running>> /\ command.thread = t /\ command.kind = kind
  BY DEF Write, Command
<1>2. ASSUME NEW i \in DOMAIN commands'
      PROVE  (i \in DOMAIN commands /\ commands'[i] = commands[i]) \/ commands'[i] = command
  BY <1>2 DEF Write, Typed
<1>3. ASSUME NEW u \in Mains, Attached(u)', ~Attached(u)
      PROVE  u = t /\ kind \in {"thread/start", "thread/resume"} /\ active[u] = NoTurn /\ running[u] = NoTurn
  <2>1. u \notin loaded /\ running[u] = NoTurn
    BY <1>3 DEF Attached, Attachments
  <2>2. QED
    BY <1>1, <1>2, <1>3, <2>1 DEF Attached
<1> SUFFICES ASSUME alive', NEW u \in Mains PROVE View(u)'
  BY DEF Views
<1>4. CASE Reuse
  <2>1. alive /\ View(u)
    BY <1>4 DEF Reuse, Views
  <2>2. Attached(u)' => Attached(u) \/ active'[u] = running'[u]
    BY <1>1, <1>3
  <2>3. missed' = missed
    OBVIOUS
  <2>4. queue' = queue /\ running'[u] = running[u] /\ active'[u] = active[u]
    BY <1>1
  <2>5. QED
    BY <2>1, <2>2, <2>3, <2>4, ViewAside
<1>5. CASE ~connected /\ Connect
  <2>1. queue = <<>> /\ queue' = <<>> /\ ~alive
    BY <1>1, <1>5 DEF InChannel
  <2>2. ~Attached(u)
    <3>1. loaded = {} /\ DOMAIN commands = {}
      BY <2>1 DEF Attachments
    <3>2. QED
      BY <3>1 DEF Attached
  <2>3. Attached(u)' => Settled(u)'
    BY <1>1, <1>3, <2>2 DEF Settled
  <2>4. DOMAIN queue' = {}
    BY <2>1
  <2>5. QED
    BY <2>3, <2>4 DEF View
<1>6. QED
  BY <1>4, <1>5 DEF Write

(* A turn that the provider starts or interrupts is announced in the       *)
(* channel.                                                                *)
LEMMA ServeViews == ASSUME Typed, Owned, Shaped, Attachments, Views, Serve PROVE Views'
<1>1. PICK command \in ToSet(commands) :
        /\ Read(command)
        /\ \/ AcceptThread(command) \/ AcceptTurn(command) \/ AcceptSteer(command)
           \/ AcceptReply(command) \/ RefuseCommand(command)
  BY DEF Serve
<1>2. /\ command = commands[1] /\ 1 \in DOMAIN commands /\ alive /\ command \in Commands
      /\ UNCHANGED <<active, missed>>
      /\ \A i \in DOMAIN commands' : i + 1 \in DOMAIN commands /\ commands'[i] = commands[i + 1]
  BY <1>1, Served DEF snapshotVars
<1>3. command.thread \in Mains /\ command.thread \in Threads /\ command.ref \in Natives \cup {0}
  BY <1>2 DEF Attachments, Commands
<1> SUFFICES ASSUME NEW u \in Mains PROVE View(u)'
  BY DEF Views
<1>4. View(u) /\ u \in Threads
  BY <1>2 DEF Views, Threads
<1>5. Attached(u)' => Attached(u)
  <2>1. loaded' = loaded \/ (loaded' = loaded \cup {command.thread} /\ command.kind \in {"thread/start", "thread/resume"})
    BY <1>1 DEF AcceptThread, AcceptTurn, AcceptSteer, AcceptReply, RefuseCommand
  <2>2. QED
    BY <1>2, <2>1 DEF Attached
<1>6. CASE AcceptThread(command) \/ AcceptSteer(command) \/ RefuseCommand(command)
  BY <1>2, <1>4, <1>5, <1>6, ViewKept DEF AcceptThread, AcceptSteer, RefuseCommand
<1>7. CASE AcceptTurn(command)
  <2>1. turns + 1 \in Turns
    BY <1>7, BoundsAssumption DEF AcceptTurn, Turns, Typed
  <2>2. PICK event : event = Event("turn/started", command.thread, turns + 1, 0)
    OBVIOUS
  <2>3. /\ event \in Events /\ event.thread = command.thread /\ event.method = "turn/started"
        /\ event.turn = turns + 1
    <3>1. command.thread \in Threads
      BY <1>3
    <3>2. QED
      BY <2>1, <2>2, <3>1, EventTyped
  <2>4. queue' = Append(queue, event) /\ running' = [running EXCEPT ![command.thread] = turns + 1]
    BY <1>7, <2>2 DEF AcceptTurn
  <2>5. CASE u = command.thread
    <3>1. running'[u] = event.turn
      BY <1>4, <2>3, <2>4, <2>5 DEF Typed
    <3>2. QED
      BY <2>3, <2>4, <2>5, <3>1, StartedView
  <2>6. CASE u # command.thread
    <3>1. running'[u] = running[u]
      BY <1>4, <2>4, <2>6 DEF Typed
    <3>2. QED
      BY <1>2, <1>4, <1>5, <2>3, <2>4, <2>6, <3>1, OtherView
  <2>7. QED
    BY <2>5, <2>6
<1>8. CASE AcceptReply(command)
  <2>1. running' = running
    BY <1>8 DEF AcceptReply
  <2>2. CASE queue' = queue
    BY <1>2, <1>4, <1>5, <2>1, <2>2, ViewKept
  <2>3. CASE queue' # queue
    <3>1. queue' = Append(queue, Event("resolved", command.thread, NoTurn, command.ref))
      BY <1>8, <2>3 DEF AcceptReply
    <3>2. command.thread \in Threads /\ command.ref \in Natives \cup {0}
      BY <1>3
    <3>3. Event("resolved", command.thread, NoTurn, command.ref) \in Events
          /\ Event("resolved", command.thread, NoTurn, command.ref).method = "resolved"
      <4>1. NoTurn \in Turns \cup {NoTurn} /\ command.thread \in Threads \cup {NoThread}
            /\ command.ref \in Natives \cup {0} \cup Children
        BY <3>2
      <4>2. QED
        BY <4>1, EventTyped
    <3>4. QED
      BY <1>2, <1>4, <1>5, <2>1, <3>1, <3>3, OtherView
  <2>4. QED
    BY <2>2, <2>3
<1>9. QED
  BY <1>1, <1>6, <1>7, <1>8

(* Every step keeps the views.                                             *)
LEMMA ViewsStep ==
  /\ Typed /\ Owned /\ InChannel /\ MainsOwned /\ Shaped /\ Waiting /\ Lives /\ Attachments
  /\ TurnsOnce /\ Acknowledged /\ Views /\ [Next]_vars
  => Views'
<1> SUFFICES ASSUME Typed, Owned, InChannel, MainsOwned, Shaped, Waiting, Lives, Attachments,
                    TurnsOnce, Acknowledged, Views, [Next]_vars
             PROVE  Views'
  OBVIOUS
<1>1. ASSUME UNCHANGED <<queue, running, active, missed, loaded, alive>>,
             \A t : Attached(t)' => Attached(t)
      PROVE  Views'
  BY <1>1, ViewKept DEF Views
<1>2. ASSUME UNCHANGED <<queue, running, active, missed, loaded, alive, commands>> PROVE Views'
  BY <1>1, <1>2 DEF Attached
<1>3. ASSUME NEW t \in Mains, BeginStart(t) PROVE Views'
  <2>1. active[t] = NoTurn
    BY <1>3 DEF BeginStart, Lives
  <2>2. QED
    BY <1>3, <2>1, WriteViews DEF BeginStart
<1>4. ASSUME NEW t \in Threads, BeginReconnect(t) PROVE Views'
  BY <1>4, WriteViews DEF BeginReconnect, Owned
<1>5. CASE WriteSend
  BY <1>5, WriteViews DEF WriteSend, Owned
<1>6. CASE WriteInterrupt
  BY <1>6, WriteViews DEF WriteInterrupt, Owned
<1>7. CASE WriteReply
  BY <1>7, WriteViews DEF WriteReply, Owned
<1>8. CASE StartTurn
  <2>1. /\ UNCHANGED <<queue, running, active, missed, loaded, alive>>
        /\ commands' \in {commands, Append(commands, Command("turn/start", op.thread, NoTurn, 0))}
    BY <1>8 DEF StartTurn, snapshotVars
  <2>2. Command("turn/start", op.thread, NoTurn, 0).kind = "turn/start"
    BY DEF Command
  <2>3. ASSUME NEW t, Attached(t)' PROVE Attached(t)
    <3>1. ASSUME NEW i \in DOMAIN commands', commands'[i].kind \in {"thread/start", "thread/resume"}
          PROVE  i \in DOMAIN commands /\ commands'[i] = commands[i]
      BY <2>1, <2>2, <3>1 DEF Typed
    <3>2. QED
      BY <2>1, <2>3, <3>1 DEF Attached
  <2>4. QED
    BY <1>1, <2>1, <2>3
<1>9. CASE TurnChanged
  <2>1. queue = <<>> /\ ~alive /\ UNCHANGED <<queue, loaded, commands>>
    BY <1>9 DEF TurnChanged, InChannel
  <2>2. loaded = {} /\ DOMAIN commands = {} /\ DOMAIN queue' = {}
    BY <2>1 DEF Attachments
  <2>3. \A t : ~Attached(t)'
    BY <2>1, <2>2 DEF Attached
  <2>4. QED
    BY <2>2, <2>3 DEF Views, View
<1>10. CASE GiveUp
  <2>1. UNCHANGED <<queue, running, active, missed, loaded, alive>> /\ commands' = Abandoned
    BY <1>10 DEF GiveUp, snapshotVars
  <2>2. \A t : Attached(t)' => Attached(t)
    BY <2>1, AbandonedTyped DEF Attached, Typed
  <2>3. QED
    BY <1>1, <2>1, <2>2
<1>11. CASE RegisterThread
  <2>1. /\ op.thread \in Mains /\ op.thread \notin managed
        /\ UNCHANGED <<queue, running, missed, loaded, alive, commands>>
        /\ active' = [active EXCEPT ![op.thread] = NoTurn]
    BY <1>11 DEF RegisterThread, Owned, Lives, providerVars
  <2>2. running[op.thread] = NoTurn
    BY <2>1 DEF MainsOwned
  <2>3. \A t \in Mains : active'[t] = active[t] \/ (active'[t] = NoTurn /\ running[t] = NoTurn)
    BY <2>1, <2>2 DEF Shaped, Threads
  <2>4. \A t : Attached(t)' => Attached(t)
    BY <2>1 DEF Attached
  <2>5. ASSUME NEW t \in Mains, View(t) PROVE View(t)'
    BY <2>1, <2>3, <2>4, <2>5, ViewAside
  <2>6. QED
    BY <2>1, <2>5 DEF Views
<1>12. CASE SetTurn
  <2>1. alive' = alive
    BY <1>12 DEF SetTurn, providerVars
  <2>2. QED
    BY <1>12, <2>1, SetTurnView DEF Views
<1>13. CASE \/ InterruptConfirmed \/ Resumed \/ MarkSent \/ UNCHANGED vars
            \/ \E t \in Threads, turn \in Turns \cup {NoTurn}, kind \in {"send", "interrupt"} :
                 BeginControlled(kind, t, turn)
            \/ \E request \in pending : BeginReply(request)
  BY <1>2, <1>13 DEF InterruptConfirmed, Resumed, MarkSent, BeginControlled, BeginReply, vars,
                     snapshotVars, providerVars
<1>14. CASE ApplyDisconnect
  <2>1. ~alive
    BY <1>14, Taken DEF ApplyDisconnect, InChannel, Ends
  <2>2. QED
    BY <1>14, <2>1 DEF ApplyDisconnect, providerVars, Views
<1>15. CASE ApplyEvent
  <2>1. alive' = alive
    BY <1>15 DEF ApplyEvent, providerVars
  <2>2. QED
    BY <1>15, <2>1, AppliedView DEF Views
<1>16. CASE Die
  BY <1>16 DEF Die, Views
<1>17. ASSUME NEW event \in Events, Emit(event),
              \A t \in Mains : \/ event.thread # t
                               \/ event.method \notin {"turn/started", "turn/completed"},
              \A t \in Mains : running'[t] = running[t]
       PROVE  Views'
  <2>1. UNCHANGED <<active, missed, loaded, alive, commands>> /\ alive /\ queue' = Append(queue, event)
    BY <1>17 DEF Emit, snapshotVars
  <2>2. \A t : Attached(t)' => Attached(t)
    BY <2>1 DEF Attached
  <2>3. ASSUME NEW t \in Mains PROVE View(t)'
    <3>1. View(t) /\ active'[t] = active[t]
      BY <2>1 DEF Views
    <3>2. QED
      BY <1>17, <2>1, <2>2, <3>1, OtherView
  <2>4. QED
    BY <2>3 DEF Views
<1>18. ASSUME NEW t \in Threads, Ask(t) \/ Chatter(t) PROVE Views'
  <2>1. ASSUME Ask(t) PROVE requests + 1 \in Natives
    BY <2>1, BoundsAssumption DEF Ask, Natives, Typed
  <2>2. running[t] \in Turns \cup {NoTurn} /\ running' = running
    BY <1>18 DEF Typed, Ask, Chatter
  <2>3. QED
    BY <1>17, <1>18, <2>1, <2>2, EventTyped DEF Ask, Chatter
<1>19. ASSUME NEW t \in Threads, FinishTurn(t) PROVE Views'
  <2>1. PICK event : event = Event("turn/completed", t, running[t], 0)
    OBVIOUS
  <2>2. running[t] \in Turns \cup {NoTurn} /\ running[t] # NoTurn
    BY <1>19 DEF Typed, FinishTurn
  <2>3. /\ event \in Events /\ event.thread = t /\ event.method = "turn/completed" /\ event.turn = running[t]
    BY <2>1, <2>2, EventTyped
  <2>4. /\ UNCHANGED <<active, missed, loaded, alive, commands>> /\ alive /\ queue' = Append(queue, event)
        /\ running'[t] = NoTurn /\ \A u \in Threads : u # t => running'[u] = running[u]
    BY <1>19, <2>1 DEF FinishTurn, Emit, snapshotVars, Typed
  <2>5. \A u : Attached(u)' => Attached(u)
    BY <2>4 DEF Attached
  <2>6. ASSUME NEW u \in Mains PROVE View(u)'
    <3>1. View(u) /\ active'[u] = active[u] /\ u \in Threads
      BY <2>4 DEF Views, Threads
    <3>2. CASE u = t
      <4>1. Attached(u)
        BY <2>2, <3>2 DEF Attached, Attachments
      <4>2. QED
        BY <2>2, <2>3, <2>4, <3>1, <3>2, <4>1, EndedView
    <3>3. CASE u # t
      BY <2>3, <2>4, <2>5, <3>1, <3>3, OtherView
    <3>4. QED
      BY <3>2, <3>3
  <2>7. QED
    BY <2>6 DEF Views
<1>20. ASSUME NEW t \in Mains, NEW child \in Children, Spawn(t, child) PROVE Views'
  <2>1. t \in Threads /\ running[t] \in Turns \cup {NoTurn} /\ running' = running
    BY <1>20 DEF Typed, Threads, Spawn
  <2>2. QED
    BY <1>17, <1>20, <2>1, EventTyped DEF Spawn
<1>21. ASSUME NEW child \in Children, ChildTurn(child) PROVE Views'
  <2>1. child \in Threads /\ turns + 1 \in Turns /\ child \notin Mains
    BY <1>21, BoundsAssumption, ThreadsAssumption DEF ChildTurn, Turns, Threads, Typed
  <2>2. \A u \in Mains : running'[u] = running[u]
    BY <1>21, <2>1 DEF ChildTurn, Typed, Threads
  <2>3. QED
    BY <1>17, <1>21, <2>1, <2>2, EventTyped DEF ChildTurn
<1>22. QED
  BY <1>3, <1>4, <1>5, <1>6, <1>7, <1>8, <1>9, <1>10, <1>11, <1>12, <1>13, <1>14, <1>15, <1>16,
     <1>18, <1>19, <1>20, <1>21, ServeViews
     DEF Next, Begin, Proceed, EventThread, Provider

(* In quiescence the snapshot shows the turn each live conversation runs,  *)
(* in whichever order acknowledgement, start and completion arrived        *)
(* (set_turn against apply_event).  A finished turn is shown only if its   *)
(* own completion left the window before set_turn could look for it.       *)
THEOREM TurnViewAgreesCorrect == Spec => []TurnViewAgrees
<1> DEFINE Inv == /\ Typed /\ Owned /\ InChannel /\ MainsOwned /\ Shaped /\ Waiting /\ Lives
                  /\ Attachments /\ TurnsOnce /\ Acknowledged /\ Views
<1>1. Init => Inv
  <2> SUFFICES ASSUME Init PROVE Inv
    OBVIOUS
  <2>1. Typed /\ Owned /\ Shaped
    BY InitTyped, InitShaped
  <2>2. InChannel /\ MainsOwned /\ Waiting /\ Acknowledged /\ Views
    BY DEF Init, InChannel, PendingCurrent, MainsOwned, Threads, Waiting, Acknowledged, Acked, Views
  <2>3. Lives /\ Attachments
    BY DEF Init, Lives, Attachments, Threads
  <2>4. TurnsOnce
    BY DEF Init, TurnsOnce, NoTurn
  <2>5. QED
    BY <2>1, <2>2, <2>3, <2>4
<1>2. Inv => TurnViewAgrees
  <2> SUFFICES ASSUME Inv, Quiet, NEW t \in loaded
               PROVE  active[t] = running[t] \/ (running[t] = NoTurn /\ active[t] \in missed)
    BY DEF TurnViewAgrees
  <2>1. t \in Mains /\ alive /\ DOMAIN queue = {}
    BY DEF Quiet, Attachments
  <2>2. Settled(t)
    BY <2>1 DEF Views, View, Attached
  <2>3. QED
    BY <2>2 DEF Settled
<1>3. Inv /\ [Next]_vars => Inv'
  BY TypedStep, OwnedStep, InChannelStep, MainsOwnedStep, ShapedStep, WaitingStep, LivesStep,
     AttachmentsStep, TurnsOnceStep, AcknowledgedStep, ViewsStep
<1>4. QED
  BY <1>1, <1>2, <1>3, PTL DEF Spec

=============================================================================
