------------------------------ MODULE EventStream ------------------------------
(***************************************************************************)
(* The numbered window of provider events a host keeps and publishes       *)
(* (theywork-control, stream.rs, the batched save of supervisor.rs and     *)
(* Host::load).  Live snapshots show events before they are saved, so a    *)
(* crash loses a tail that clients have seen; a restart therefore starts a *)
(* new lineage (stream_id) over the events that were saved.                *)
(*                                                                         *)
(* An event is its sequence, its conversation, if it is about one (account *)
(* and configuration notices are not), and a ghost identity that no two    *)
(* events ever share.  A snapshot's revision is a ghost too: how often its *)
(* roster changed, with an event or without.                               *)
(***************************************************************************)
EXTENDS Naturals, Sequences, FiniteSets, SequencesExt

CONSTANTS
  Threads,     \* conversations events are about
  NoThread,    \* the thread_id of an event that is about none
  WindowLimit, \* events retained (256)
  MaxSequence, \* the last sequence number (u64::MAX)
  MaxEvents,   \* bound: events ever received
  MaxStreams,  \* bound: lineages ever started
  MaxRevision, \* bound: the last revision the roster reaches without an event
  Legacy       \* saved windows of older versions: sequences of sequence numbers

ASSUME StreamAssumption ==
  /\ WindowLimit \in Nat \ {0} /\ MaxSequence \in Nat \ {0}
  /\ MaxEvents \in Nat /\ MaxStreams \in Nat /\ MaxRevision \in Nat
  /\ NoThread \notin Threads
  /\ \A sequences \in Legacy : sequences \in Seq(Nat) /\ Len(sequences) <= MaxEvents

NoStream == 0  \* no valid event_window

VARIABLES
  up,       \* the host serves
  live,     \* ControlSnapshot in memory: stream, prior, last, events, known,
            \* revision
  saved,    \* the same in state.json
  written,  \* state.json exists
  streams,  \* lineages started so far
  received, \* events received so far
  assigned  \* ghost: every [stream, sequence, id] a host ever held

streamVars == <<up, live, saved, written, streams, received, assigned>>

Event == [sequence: Nat, thread: Threads \cup {NoThread}, id: 1..MaxEvents]
Snapshot == [stream: 0..MaxStreams, prior: BOOLEAN, last: Nat,
             events: Seq(Event), known: SUBSET Threads, revision: Nat]

Numbering(snapshot) ==
  {[stream |-> snapshot.stream, sequence |-> snapshot.events[i].sequence,
    id |-> snapshot.events[i].id] : i \in DOMAIN snapshot.events}

LegacyWindow(sequences, thread) ==
  [stream |-> NoStream, prior |-> FALSE, last |-> 0, known |-> {}, revision |-> 0,
   events |-> [i \in DOMAIN sequences |->
                 [sequence |-> sequences[i], thread |-> thread, id |-> i]]]

StreamInit ==
  /\ up = FALSE /\ streams = 0 /\ assigned = {}
  /\ \E sequences \in Legacy, thread \in Threads \cup {NoThread} :
       saved = LegacyWindow(sequences, thread)
  /\ written \in BOOLEAN
  /\ ~written => saved.events = <<>>
  /\ received = Len(saved.events)
  /\ live = saved

-----------------------------------------------------------------------------
(* initialize_event_window: keep a valid lineage only in a fresh host, and *)
(* repair what has none.                                                   *)

Kept(events) ==
  IF Len(events) > WindowLimit
  THEN SubSeq(events, Len(events) - WindowLimit + 1, Len(events)) ELSE events

(* Each number is the successor of the one before, from a positive first.  *)
Consecutive(events) ==
  events # <<>> =>
    /\ events[1].sequence > 0
    /\ \A i \in DOMAIN events : events[i].sequence = events[1].sequence + (i - 1)

Renumbered(events) ==
  IF Consecutive(events) THEN events
  ELSE [i \in DOMAIN events |-> [events[i] EXCEPT !.sequence = i]]

HighWater(events) == IF events = <<>> THEN 0 ELSE Last(events).sequence

Repaired(snapshot, existing, stream) ==
  LET events == Renumbered(Kept(snapshot.events)) IN
  [snapshot EXCEPT !.stream = stream, !.prior = existing,
                   !.last = HighWater(events), !.events = events]

(* Wrong: a restart continues the lineage it finds on disk.                *)
InitializedContinuing(snapshot, existing, stream) ==
  IF snapshot.stream # NoStream THEN snapshot
  ELSE Repaired(snapshot, existing, stream)

Initialized(snapshot, existing, stream) ==
  IF snapshot.stream # NoStream
  THEN IF existing THEN [snapshot EXCEPT !.stream = stream, !.prior = TRUE]
       ELSE snapshot
  ELSE Repaired(snapshot, existing, stream)

(* Host::load, with its save before anyone is served.                      *)
Restart ==
  /\ ~up /\ streams < MaxStreams
  /\ streams' = streams + 1
  /\ live' = Initialized(saved, written, streams + 1)
  /\ saved' = live' /\ written' = TRUE /\ up' = TRUE
  /\ assigned' = assigned \cup Numbering(live')
  /\ UNCHANGED received

-----------------------------------------------------------------------------
(* append_event: the next number, or a new lineage when they run out.      *)

(* The oldest event makes room for the newest.                             *)
Trimmed(events) == IF Len(events) > WindowLimit THEN Tail(events) ELSE events

Appended(snapshot, thread, id, stream) ==
  LET base == IF snapshot.last = MaxSequence
              THEN [snapshot EXCEPT !.stream = stream, !.prior = TRUE,
                                    !.last = 0, !.events = <<>>]
              ELSE snapshot
      all == Append(base.events,
               [sequence |-> base.last + 1, thread |-> thread, id |-> id])
  IN [base EXCEPT !.last = @ + 1, !.revision = @ + 1,
                  !.events = Trimmed(all)]

Receive(thread) ==
  /\ up /\ received < MaxEvents
  /\ live.last = MaxSequence => streams < MaxStreams
  /\ received' = received + 1
  /\ live' = Appended(live, thread, received + 1, streams + 1)
  /\ streams' = IF live.last = MaxSequence THEN streams + 1 ELSE streams
  /\ assigned' = assigned \cup Numbering(live')
  /\ UNCHANGED <<up, saved, written>>

(* A conversation becomes known (registered, or spawned by a known one):   *)
(* no number tells of it.                                                  *)
Learn(thread) ==
  /\ up /\ thread \notin live.known
  /\ live' = [live EXCEPT !.known = @ \cup {thread}, !.revision = @ + 1]
  /\ UNCHANGED <<up, saved, written, streams, received, assigned>>

(* Nor of a turn that set_turn shows, of a transport that ends or is       *)
(* replaced, or of what an operation does to a conversation.               *)
Revise ==
  /\ up /\ live.revision < MaxRevision
  /\ live' = [live EXCEPT !.revision = @ + 1]
  /\ UNCHANGED <<up, saved, written, streams, received, assigned>>

(* Any save: the batched one of the event thread, or an operation's.       *)
SaveState ==
  /\ up /\ saved # live
  /\ saved' = live
  /\ UNCHANGED <<up, live, written, streams, received, assigned>>

(* The process dies; what it had in memory only is gone.                   *)
StreamCrash ==
  /\ up
  /\ up' = FALSE
  /\ live' = saved
  /\ UNCHANGED <<saved, written, streams, received, assigned>>

StreamNext ==
  \/ Restart \/ Revise \/ SaveState \/ StreamCrash
  \/ \E thread \in Threads \cup {NoThread} : Receive(thread)
  \/ \E thread \in Threads : Learn(thread)

-----------------------------------------------------------------------------
(* Properties.                                                             *)

(* Within a lineage a number means one event for ever, although crashes    *)
(* lose events that were already shown and numbers may run out             *)
(* (stream.rs:38 "disk recovery must not reuse that live sequence lineage").*)
LineageTruthful ==
  \A a, b \in assigned :
    a.stream = b.stream /\ a.sequence = b.sequence => a.id = b.id

(* stream.rs valid_window: what a host publishes is a run of consecutive   *)
(* numbers ending at last_assigned_sequence, within the limit.             *)
WindowValid ==
  up => /\ live.stream # NoStream
        /\ Len(live.events) <= WindowLimit
        /\ Consecutive(live.events)
        /\ live.events # <<>> => Last(live.events).sequence = live.last

=============================================================================
