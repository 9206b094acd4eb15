---------------------------- MODULE SnapshotProofs ----------------------------
(***************************************************************************)
(* The event stream and the clients that follow it: for any window, any    *)
(* exhaustion of numbers, any saved windows of older versions and any      *)
(* crashes, a number means one event within its lineage, what a host       *)
(* serves is a valid window, and a client loses nothing of it silently.    *)
(*                                                                         *)
(* The argument.  A host numbers upwards from the last number its lineage  *)
(* ever had (assigned numbers of the live lineage do not exceed            *)
(* live.last), and every restart or exhaustion moves to a lineage nobody   *)
(* has used (Fresh), so what a crash made it forget cannot be assigned     *)
(* again.  A valid window is an interval of numbers, so what a poll        *)
(* observes and what it reports missing are two intervals that meet        *)
(* (Track); and each observed event has a number of its own, after the     *)
(* cursor, so that it can be entered once in the books of its lineage      *)
(* (Books).                                                                *)
(*                                                                         *)
(* The file that the stream is saved in keeps its promises for any number  *)
(* of saves and of disruptions.  Its inductive invariant adds to them      *)
(* where a save is: what its temporary file holds, that a latched fault    *)
(* never meets a save under way, and when a candidate that was left behind *)
(* is accounted for.                                                       *)
(***************************************************************************)
EXTENDS Bridge, StateStorage, TLAPS, SequenceTheorems, FiniteSetTheorems,
        WellFoundedInduction

Valid(snapshot) ==
  /\ Len(snapshot.events) <= WindowLimit
  /\ Consecutive(snapshot.events)
  /\ snapshot.events # <<>> =>
       snapshot.events[Len(snapshot.events)].sequence = snapshot.last

StreamType ==
  /\ up \in BOOLEAN /\ written \in BOOLEAN
  /\ live \in Snapshot /\ saved \in Snapshot
  /\ streams \in 0..MaxStreams /\ received \in 0..MaxEvents
  /\ assigned \subseteq [stream: 1..MaxStreams, sequence: Nat, id: 1..MaxEvents]

Fresh ==
  /\ \A a \in assigned : a.stream <= streams
  /\ live.stream <= streams /\ saved.stream <= streams
  /\ ~written => saved.stream = NoStream
  /\ saved.stream # NoStream => Valid(saved)
  /\ up => /\ written
           /\ live.stream # NoStream
           /\ Valid(live)
           /\ Numbering(live) \subseteq assigned
           /\ \A a \in assigned : a.stream = live.stream => a.sequence <= live.last

IInv == StreamType /\ Fresh /\ LineageTruthful

-----------------------------------------------------------------------------
(* Lemmas about the operators of EventStream.                              *)

(* A saved window that is too long loses its oldest events.                *)
LEMMA KeptFits ==
  ASSUME NEW events \in Seq(Event)
  PROVE  Kept(events) \in Seq(Event) /\ Len(Kept(events)) <= WindowLimit
<1>1. CASE Len(events) > WindowLimit
  <2>1. Len(events) \in Nat /\ WindowLimit \in Nat \ {0}
    BY StreamAssumption
  <2>2. /\ Len(events) - WindowLimit + 1 \in 1..Len(events) + 1
        /\ Len(events) \in 0..Len(events)
    BY <1>1, <2>1
  <2>3. /\ SubSeq(events, Len(events) - WindowLimit + 1, Len(events)) \in Seq(Event)
        /\ Len(SubSeq(events, Len(events) - WindowLimit + 1, Len(events))) = WindowLimit
    BY <1>1, <2>1, <2>2, SubSeqProperties
  <2>4. QED
    BY <1>1, <2>1, <2>3 DEF Kept
<1>2. CASE ~(Len(events) > WindowLimit)
  BY <1>2, StreamAssumption DEF Kept
<1>3. QED
  BY <1>1, <1>2

(* Repairing the numbers keeps the events and makes them consecutive.      *)
LEMMA RenumberedRuns ==
  ASSUME NEW events \in Seq(Event)
  PROVE  /\ Renumbered(events) \in Seq(Event)
         /\ Len(Renumbered(events)) = Len(events)
         /\ Consecutive(Renumbered(events))
<1>1. CASE Consecutive(events)
  BY <1>1 DEF Renumbered
<1>2. CASE ~Consecutive(events)
  <2>1. Renumbered(events) = [i \in 1..Len(events) |-> [events[i] EXCEPT !.sequence = i]]
    BY <1>2 DEF Renumbered
  <2>2. ASSUME NEW i \in 1..Len(events)
        PROVE  /\ [events[i] EXCEPT !.sequence = i] \in Event
               /\ [events[i] EXCEPT !.sequence = i].sequence = i
    <3>1. events[i] \in Event /\ i \in Nat
      OBVIOUS
    <3>2. QED
      BY <3>1 DEF Event
  <2>3. Renumbered(events) \in Seq(Event) /\ Len(Renumbered(events)) = Len(events)
    BY <2>1, <2>2
  <2>4. \A i \in 1..Len(events) : Renumbered(events)[i].sequence = i
    BY <2>1, <2>2
  <2>5. QED
    <3>1. Len(events) \in Nat
      OBVIOUS
    <3>2. CASE Renumbered(events) = <<>>
      BY <2>3, <3>2 DEF Consecutive
    <3>3. CASE Renumbered(events) # <<>>
      <4>1. 1 \in 1..Len(events) /\ DOMAIN Renumbered(events) = 1..Len(events)
        BY <2>3, <3>1, <3>3
      <4>2. QED
        BY <2>3, <2>4, <4>1 DEF Consecutive
    <3>4. QED
      BY <3>2, <3>3
<1>3. QED
  BY <1>1, <1>2

(* In a valid window the numbers are positive, distinct and at most last.  *)
LEMMA ValidNumbers ==
  ASSUME NEW snapshot \in Snapshot, Valid(snapshot)
  PROVE  /\ \A i \in DOMAIN snapshot.events : snapshot.events[i].sequence <= snapshot.last
         /\ \A a, b \in Numbering(snapshot) : a.sequence = b.sequence => a.id = b.id
         /\ \A a \in Numbering(snapshot) :
              a.stream = snapshot.stream /\ a.sequence <= snapshot.last
<1> DEFINE events == snapshot.events
<1>1. events \in Seq(Event)
  BY DEF Snapshot
<1>2. ASSUME NEW i \in DOMAIN events
      PROVE  /\ events[i].sequence = events[1].sequence + (i - 1)
             /\ events[1].sequence \in Nat
             /\ events[Len(events)].sequence = snapshot.last
             /\ events[Len(events)].sequence = events[1].sequence + (Len(events) - 1)
  <2>1. events # <<>> /\ 1 \in DOMAIN events /\ Len(events) \in DOMAIN events
    BY <1>1
  <2>2. events[1] \in Event
    BY <1>1, <2>1
  <2>3. QED
    BY <2>1, <2>2 DEF Valid, Consecutive, Event
<1>3. \A i \in DOMAIN events : events[i].sequence <= snapshot.last
  BY <1>1, <1>2
<1>4. ASSUME NEW i \in DOMAIN events, NEW j \in DOMAIN events,
             events[i].sequence = events[j].sequence
      PROVE  i = j
  <2>1. i \in Int /\ j \in Int
    BY <1>1
  <2>2. /\ events[i].sequence = events[1].sequence + (i - 1)
        /\ events[j].sequence = events[1].sequence + (j - 1)
        /\ events[1].sequence \in Nat
    BY <1>2
  <2>3. \A x \in Nat : x + (i - 1) = x + (j - 1) => i = j
    BY <2>1
  <2>4. QED
    BY <1>4, <2>2, <2>3
<1>5. QED
  BY <1>3, <1>4 DEF Numbering

(* A snapshot of another lineage is a snapshot with the same events.       *)
LEMMA Relabelled ==
  ASSUME NEW snapshot \in Snapshot, NEW stream \in 0..MaxStreams, NEW prior \in BOOLEAN
  PROVE  LET result == [snapshot EXCEPT !.stream = stream, !.prior = prior] IN
         /\ result \in Snapshot /\ result.stream = stream
         /\ result.events = snapshot.events /\ result.last = snapshot.last
BY DEF Snapshot

(* A restart serves a valid window under a lineage of its own.             *)
LEMMA InitializedValid ==
  ASSUME NEW snapshot \in Snapshot, NEW stream \in 1..MaxStreams,
         snapshot.stream # NoStream => Valid(snapshot),
         NEW existing \in BOOLEAN, snapshot.stream # NoStream => existing
  PROVE  /\ Initialized(snapshot, existing, stream) \in Snapshot
         /\ Initialized(snapshot, existing, stream).stream = stream
         /\ Valid(Initialized(snapshot, existing, stream))
<1>1. CASE snapshot.stream # NoStream
  <2> DEFINE result == [snapshot EXCEPT !.stream = stream, !.prior = TRUE]
  <2>1. Initialized(snapshot, existing, stream) = result
    BY <1>1 DEF Initialized
  <2>2. /\ result \in Snapshot /\ result.stream = stream
        /\ result.events = snapshot.events /\ result.last = snapshot.last
    <3>1. stream \in 0..MaxStreams /\ TRUE \in BOOLEAN
      BY StreamAssumption
    <3>2. QED
      BY <3>1, Relabelled
  <2>4. Valid(result)
    BY <1>1, <2>2 DEF Valid
  <2>5. QED
    BY <2>1, <2>2, <2>4
<1>2. CASE snapshot.stream = NoStream
  <2> DEFINE events == Renumbered(Kept(snapshot.events))
             result == Repaired(snapshot, existing, stream)
  <2>1. /\ events \in Seq(Event) /\ Len(events) <= WindowLimit
        /\ Consecutive(events)
    BY KeptFits, RenumberedRuns DEF Snapshot
  <2>2. /\ HighWater(events) \in Nat
        /\ events # <<>> => events[Len(events)].sequence = HighWater(events)
    <3>1. events # <<>> => events[Len(events)] \in Event
      BY <2>1
    <3>2. QED
      BY <3>1 DEF HighWater, Last, Event
  <2>3. result = [snapshot EXCEPT !.stream = stream, !.prior = existing,
                                  !.last = HighWater(events), !.events = events]
    BY DEF Repaired
  <2> HIDE DEF events
  <2>4. /\ result \in Snapshot /\ result.stream = stream
        /\ result.events = events /\ result.last = HighWater(events)
    <3>1. result = [stream |-> stream, prior |-> existing, last |-> HighWater(events),
                    events |-> events, known |-> snapshot.known,
                    revision |-> snapshot.revision]
      BY <2>3 DEF Snapshot
    <3>2. stream \in 0..MaxStreams
      BY StreamAssumption
    <3>3. QED
      BY <2>1, <2>2, <3>1, <3>2 DEF Snapshot
  <2>6. Valid(result)
    BY <2>1, <2>2, <2>4 DEF Valid
  <2>5. QED
    BY <1>2, <2>4, <2>6 DEF Initialized
<1>3. QED
  BY <1>1, <1>2

(* Numbers that end at last, without a gap, and stay positive.             *)
Runs(events, last) ==
  \A i \in 1..Len(events) :
    events[i].sequence = last - Len(events) + i /\ events[i].sequence > 0

LEMMA ValidRuns ==
  ASSUME NEW snapshot \in Snapshot
  PROVE  Valid(snapshot) <=>
           Len(snapshot.events) <= WindowLimit /\ Runs(snapshot.events, snapshot.last)
<1> DEFINE events == snapshot.events
           n == Len(events)
<1>1. events \in Seq(Event) /\ snapshot.last \in Nat /\ n \in Nat
  BY DEF Snapshot
<1>2. events # <<>> => 1 \in 1..n /\ n \in 1..n
  BY <1>1
<1>3. ASSUME NEW i \in 1..n PROVE events[i].sequence \in Nat /\ i \in Int
  <2>1. events[i] \in Event /\ i \in Int
    BY <1>1
  <2>2. QED
    BY <2>1 DEF Event
<1>4. DOMAIN events = 1..n
  BY <1>1
<1>5. n = 0 => events = <<>>
  BY <1>1
<1>6. events = <<>> => n = 0
  OBVIOUS
<1>7. ASSUME Valid(snapshot) PROVE Runs(events, snapshot.last)
  <2>1. CASE events = <<>>
    BY <1>6, <2>1 DEF Runs
  <2>2. CASE events # <<>>
    <3>1. /\ events[1].sequence > 0 /\ events[1].sequence \in Nat
          /\ \A i \in 1..n : events[i].sequence = events[1].sequence + (i - 1)
          /\ events[n].sequence = snapshot.last
      BY <1>2, <1>3, <1>4, <1>7, <2>2 DEF Valid, Consecutive
    <3>2. snapshot.last = events[1].sequence + (n - 1)
      BY <1>2, <2>2, <3>1
    <3> HIDE DEF n
    <3>3. ASSUME NEW i \in 1..n
          PROVE  events[i].sequence = snapshot.last - n + i /\ events[i].sequence > 0
      <4>1. \A x, y \in Nat : y = x + (n - 1) /\ x > 0 =>
              x + (i - 1) = y - n + i /\ x + (i - 1) > 0
        BY <1>1
      <4>2. /\ snapshot.last \in Nat /\ events[1].sequence \in Nat /\ events[1].sequence > 0
            /\ snapshot.last = events[1].sequence + (n - 1)
        BY <1>1, <3>1, <3>2
      <4>3. /\ events[1].sequence + (i - 1) = snapshot.last - n + i
            /\ events[1].sequence + (i - 1) > 0
        BY <4>1, <4>2
      <4>4. events[i].sequence = events[1].sequence + (i - 1)
        BY <3>1
      <4>5. QED
        BY <4>3, <4>4
    <3>4. QED
      BY <3>3 DEF Runs, n
  <2>3. QED
    BY <2>1, <2>2
<1>8. ASSUME n <= WindowLimit, Runs(events, snapshot.last) PROVE Valid(snapshot)
  <2>1. CASE events = <<>>
    BY <1>8, <2>1 DEF Valid, Consecutive
  <2>2. CASE events # <<>>
    <3>1. \A i \in 1..n : events[i].sequence = snapshot.last - n + i
                        /\ events[i].sequence > 0
      BY <1>8 DEF Runs
    <3>2. /\ events[1].sequence = snapshot.last - n + 1
          /\ events[1].sequence > 0
          /\ events[n].sequence = snapshot.last
      BY <1>1, <1>2, <2>2, <3>1
    <3>3. \A i \in 1..n : events[i].sequence = events[1].sequence + (i - 1)
      BY <1>1, <1>3, <3>1, <3>2
    <3>4. QED
      BY <1>4, <1>8, <3>2, <3>3 DEF Valid, Consecutive
  <2>3. QED
    BY <2>1, <2>2
<1>9. QED
  BY <1>7, <1>8 DEF Valid

(* append_event at the end of a window, and at its limit.                  *)
LEMMA AppendRuns ==
  ASSUME NEW events \in Seq(Event), NEW last \in Nat, NEW event \in Event,
         Runs(events, last), Len(events) <= WindowLimit, event.sequence = last + 1
  PROVE  LET kept == Trimmed(Append(events, event)) IN
         /\ kept \in Seq(Event) /\ Len(kept) <= WindowLimit
         /\ Runs(kept, last + 1)
         /\ \A i \in DOMAIN kept :
              kept[i] = event \/ \E j \in DOMAIN events : kept[i] = events[j]
<1> DEFINE all == Append(events, event)
           kept == Trimmed(all)
           n == Len(events)
<1>1. /\ all \in Seq(Event) /\ all # <<>> /\ Len(all) = n + 1
      /\ \A i \in 1..n : all[i] = events[i]
      /\ all[n + 1] = event
      /\ n \in Nat
  BY AppendProperties
<1>2. \A i \in 1..n + 1 : all[i].sequence = (last + 1) - (n + 1) + i /\ all[i].sequence > 0
                       /\ (all[i] = event \/ \E j \in DOMAIN events : all[i] = events[j])
  <2> TAKE i \in 1..n + 1
  <2>1. CASE i = n + 1
    BY <1>1, <2>1
  <2>2. CASE i # n + 1
    <3>1. i \in 1..n
      BY <1>1, <2>2
    <3>2. events[i].sequence = last - n + i /\ events[i].sequence > 0
      BY <3>1 DEF Runs
    <3>3. QED
      BY <1>1, <3>1, <3>2
  <2>3. QED
    BY <2>1, <2>2
<1> DEFINE Goal == /\ kept \in Seq(Event) /\ Len(kept) <= WindowLimit
                   /\ Runs(kept, last + 1)
                   /\ \A i \in DOMAIN kept :
                        kept[i] = event \/ \E j \in DOMAIN events : kept[i] = events[j]
<1> SUFFICES Goal
  OBVIOUS
<1> HIDE DEF all, kept
<1>3. CASE Len(all) > WindowLimit
  <2>1. /\ Tail(all) \in Seq(Event) /\ Len(Tail(all)) = n
        /\ \A i \in 1..n : Tail(all)[i] = all[i + 1]
    BY <1>1, HeadTailProperties
  <2>2. kept = Tail(all)
    BY <1>3 DEF kept, Trimmed
  <2>3. \A i \in 1..n : i + 1 \in 1..n + 1
    BY <1>1
  <2>4. ASSUME NEW i \in 1..n PROVE all[i + 1].sequence = (last + 1) - n + i
    <3>1. i + 1 \in 1..n + 1 /\ i \in Int /\ n \in Int /\ last \in Int
      BY <1>1, <2>3
    <3>2. all[i + 1].sequence = last - n + (i + 1)
      BY <1>2, <3>1
    <3>3. QED
      BY <3>1, <3>2
  <2>5. kept \in Seq(Event) /\ Len(kept) = n /\ DOMAIN kept = 1..n
    BY <1>1, <2>1, <2>2
  <2>6. ASSUME NEW i \in 1..n
        PROVE  /\ kept[i].sequence = (last + 1) - n + i
               /\ kept[i].sequence > 0
               /\ kept[i] = event \/ \E j \in DOMAIN events : kept[i] = events[j]
    <3>1. kept[i] = all[i + 1]
      BY <2>1, <2>2
    <3>2. QED
      BY <1>2, <2>3, <2>4, <3>1
  <2>7. Runs(kept, last + 1)
    <3> SUFFICES ASSUME NEW i \in 1..Len(kept)
                 PROVE  /\ kept[i].sequence = (last + 1) - Len(kept) + i
                        /\ kept[i].sequence > 0
      BY DEF Runs
    <3> QED
      BY <2>5, <2>6
  <2>8. n <= WindowLimit
    OBVIOUS
  <2>9. QED
    BY <2>5, <2>6, <2>7, <2>8
<1>4. CASE ~(Len(all) > WindowLimit)
  <2>1. kept = all
    BY <1>4 DEF kept, Trimmed
  <2>2. Len(all) <= WindowLimit
    BY <1>1, <1>4, StreamAssumption
  <2>3. kept \in Seq(Event) /\ Len(kept) = n + 1 /\ DOMAIN kept = 1..n + 1
    BY <1>1, <2>1
  <2>4. Runs(kept, last + 1)
    <3> SUFFICES ASSUME NEW i \in 1..Len(kept)
                 PROVE  /\ kept[i].sequence = (last + 1) - Len(kept) + i
                        /\ kept[i].sequence > 0
      BY DEF Runs
    <3> QED
      BY <1>2, <2>1, <2>3
  <2>5. QED
    BY <1>2, <2>1, <2>2, <2>3, <2>4
<1>5. QED
  BY <1>3, <1>4

(* append_event extends a valid window by the next number of its lineage,  *)
(* or begins a lineage with number 1 when the numbers have run out.        *)
LEMMA AppendedValid ==
  ASSUME NEW snapshot \in Snapshot, Valid(snapshot),
         NEW thread \in Threads \cup {NoThread}, NEW id \in 1..MaxEvents, NEW stream \in Nat,
         snapshot.last = MaxSequence => stream \in 0..MaxStreams,
         NEW result, result = Appended(snapshot, thread, id, stream)
  PROVE  /\ result \in Snapshot /\ Valid(result)
         /\ result.stream = IF snapshot.last = MaxSequence THEN stream ELSE snapshot.stream
         /\ result.last = IF snapshot.last = MaxSequence THEN 1 ELSE snapshot.last + 1
         /\ result.revision = snapshot.revision + 1
         /\ \A i \in DOMAIN result.events :
              \/ result.events[i] = [sequence |-> result.last, thread |-> thread, id |-> id]
              \/ /\ snapshot.last # MaxSequence
                 /\ \E j \in DOMAIN snapshot.events : result.events[i] = snapshot.events[j]
<1> DEFINE full == snapshot.last = MaxSequence
           base == IF full THEN [snapshot EXCEPT !.stream = stream, !.prior = TRUE,
                                                 !.last = 0, !.events = <<>>]
                   ELSE snapshot
           event == [sequence |-> base.last + 1, thread |-> thread, id |-> id]
           kept == Trimmed(Append(base.events, event))
<1>1. /\ base \in Snapshot /\ Valid(base)
      /\ base.stream = IF full THEN stream ELSE snapshot.stream
      /\ base.last = IF full THEN 0 ELSE snapshot.last
      /\ base.events = IF full THEN <<>> ELSE snapshot.events
      /\ base.revision = snapshot.revision
  <2>1. CASE ~full
    BY <2>1
  <2>2. CASE full
    <3>1. ASSUME NEW prior \in BOOLEAN,
                 NEW emptied, emptied = [snapshot EXCEPT !.stream = stream, !.prior = prior,
                                                         !.last = 0, !.events = <<>>]
          PROVE  /\ emptied \in Snapshot /\ emptied.stream = stream
                 /\ emptied.last = 0 /\ emptied.events = <<>>
                 /\ emptied.revision = snapshot.revision
      <4>1. emptied = [stream |-> stream, prior |-> prior, last |-> 0,
                       events |-> <<>>, known |-> snapshot.known,
                       revision |-> snapshot.revision]
        BY <3>1 DEF Snapshot
      <4>2. <<>> \in Seq(Event) /\ stream \in 0..MaxStreams
        BY <2>2
      <4>3. QED
        BY <4>1, <4>2 DEF Snapshot
    <3>2. TRUE \in BOOLEAN
      OBVIOUS
    <3>3. /\ base \in Snapshot /\ base.stream = stream
          /\ base.last = 0 /\ base.events = <<>> /\ base.revision = snapshot.revision
      BY <2>2, <3>1, <3>2
    <3>4. Len(base.events) <= WindowLimit
      BY <3>3, StreamAssumption
    <3>5. QED
      BY <2>2, <3>3, <3>4 DEF Valid, Consecutive
  <2>3. QED
    BY <2>1, <2>2
<1>2. result = [base EXCEPT !.last = @ + 1, !.revision = @ + 1, !.events = kept]
  BY DEF Appended
<1> HIDE DEF base
<1>3. /\ base.events \in Seq(Event) /\ base.last \in Nat
      /\ Len(base.events) <= WindowLimit /\ Runs(base.events, base.last)
  BY <1>1, ValidRuns DEF Snapshot
<1>4. event \in Event /\ event.sequence = base.last + 1
  BY <1>3 DEF Event
<1> HIDE DEF event
<1>5. /\ kept \in Seq(Event) /\ Len(kept) <= WindowLimit
      /\ Runs(kept, base.last + 1)
      /\ \A i \in DOMAIN kept :
           kept[i] = event \/ \E j \in DOMAIN base.events : kept[i] = base.events[j]
  BY <1>3, <1>4, AppendRuns
<1> HIDE DEF kept
<1>6. /\ result \in Snapshot /\ result.stream = base.stream
      /\ result.last = base.last + 1 /\ result.events = kept
      /\ result.revision = base.revision + 1
  <2>1. result = [stream |-> base.stream, prior |-> base.prior, last |-> base.last + 1,
                  events |-> kept, known |-> base.known, revision |-> base.revision + 1]
    BY <1>1, <1>2 DEF Snapshot
  <2>2. base.last + 1 \in Nat /\ base.revision \in Nat /\ base.revision + 1 \in Nat
    BY <1>1, <1>3 DEF Snapshot
  <2>3. QED
    BY <1>1, <1>5, <2>1, <2>2 DEF Snapshot
<1>7. Valid(result)
  BY <1>5, <1>6, ValidRuns
<1>8. result.last = IF full THEN 1 ELSE snapshot.last + 1
  BY <1>1, <1>6
<1>9. ASSUME NEW i \in DOMAIN result.events
      PROVE  \/ result.events[i] = [sequence |-> result.last, thread |-> thread, id |-> id]
             \/ /\ ~full
                /\ \E j \in DOMAIN snapshot.events : result.events[i] = snapshot.events[j]
  <2>1. CASE kept[i] = event
    BY <1>6, <2>1 DEF event
  <2>2. ASSUME NEW j \in DOMAIN base.events, kept[i] = base.events[j]
        PROVE  /\ ~full
               /\ \E k \in DOMAIN snapshot.events : result.events[i] = snapshot.events[k]
    BY <1>1, <1>6, <2>2
  <2>3. QED
    BY <1>5, <1>6, <2>1, <2>2
<1>10. QED
  BY <1>1, <1>6, <1>7, <1>8, <1>9

-----------------------------------------------------------------------------
(* The invariant.                                                          *)

(* Before the first start there is no valid window, and nobody has seen a  *)
(* number.                                                                 *)
LEMMA StreamStarts == StreamInit => IInv
<1> SUFFICES ASSUME StreamInit PROVE IInv
  OBVIOUS
<1>1. PICK sequences \in Legacy, thread \in Threads \cup {NoThread} : saved = LegacyWindow(sequences, thread)
  BY DEF StreamInit
<1>2. sequences \in Seq(Nat) /\ Len(sequences) \in 0..MaxEvents
  BY StreamAssumption
<1>3. saved.events \in Seq(Event)
  <2> DEFINE e(i) == [sequence |-> sequences[i], thread |-> thread, id |-> i]
  <2>1. saved.events = [i \in 1..Len(sequences) |-> e(i)]
    BY <1>1, <1>2 DEF LegacyWindow
  <2>2. \A i \in 1..Len(sequences) : e(i) \in Event
    BY <1>2, StreamAssumption DEF Event
  <2>3. QED
    BY <1>2, <2>1, <2>2
<1>4. /\ saved.stream = NoStream /\ saved.prior = FALSE /\ saved.last = 0
      /\ saved.known = {} /\ Len(saved.events) = Len(sequences)
  BY <1>1, <1>2 DEF LegacyWindow
<1>5. saved \in Snapshot
  <2>1. ASSUME NEW prior \in BOOLEAN, NEW events \in Seq(Event)
        PROVE  [stream |-> NoStream, prior |-> prior, last |-> 0, known |-> {}, revision |-> 0,
                events |-> events] \in Snapshot
    BY StreamAssumption DEF Snapshot, NoStream
  <2>2. saved = [stream |-> NoStream, prior |-> FALSE, last |-> 0, known |-> {}, revision |-> 0,
                 events |-> saved.events]
    BY <1>1 DEF LegacyWindow
  <2>3. FALSE \in BOOLEAN
    OBVIOUS
  <2>4. QED
    BY <1>3, <2>1, <2>2, <2>3
<1>6. StreamType
  <2>1. up \in BOOLEAN /\ written \in BOOLEAN
    BY DEF StreamInit
  <2>2. live = saved /\ received \in 0..MaxEvents /\ streams \in 0..MaxStreams
    BY <1>2, <1>4, StreamAssumption DEF StreamInit
  <2>3. assigned = {}
    BY DEF StreamInit
  <2>4. QED
    BY <1>5, <2>1, <2>2, <2>3 DEF StreamType
<1>7. Fresh /\ LineageTruthful
  BY <1>4 DEF StreamInit, Fresh, LineageTruthful, NoStream
<1>8. QED
  BY <1>6, <1>7 DEF IInv

(* A host restarts in a lineage nobody has used.                           *)
LEMMA RestartStep ==
  ASSUME IInv, Restart
  PROVE  IInv'
<1>1. /\ StreamType /\ Fresh /\ LineageTruthful
      /\ streams + 1 \in 1..MaxStreams /\ streams' = streams + 1
      /\ live' = Initialized(saved, written, streams + 1)
      /\ saved' = live' /\ written' = TRUE /\ up' = TRUE
      /\ assigned' = assigned \cup Numbering(live') /\ received' = received
  BY StreamAssumption DEF IInv, StreamType, Restart
<1>2. /\ saved \in Snapshot /\ written \in BOOLEAN
      /\ saved.stream # NoStream => Valid(saved)
      /\ saved.stream # NoStream => written
      /\ \A a \in assigned : a.stream <= streams
      /\ assigned \subseteq [stream: 1..MaxStreams, sequence: Nat, id: 1..MaxEvents]
  BY <1>1 DEF StreamType, Fresh
<1>3. live' \in Snapshot /\ live'.stream = streams + 1 /\ Valid(live')
  BY <1>1, <1>2, InitializedValid
<1>4. /\ \A a, b \in Numbering(live') : a.sequence = b.sequence => a.id = b.id
      /\ \A a \in Numbering(live') : a.stream = streams + 1 /\ a.sequence <= live'.last
  BY <1>3, ValidNumbers
<1>5. Numbering(live') \subseteq [stream: 1..MaxStreams, sequence: Nat, id: 1..MaxEvents]
  <2>1. live'.events \in Seq(Event)
    BY <1>3 DEF Snapshot
  <2>2. \A i \in DOMAIN live'.events : live'.events[i] \in Event
    BY <2>1
  <2>3. QED
    BY <1>1, <1>3, <2>2 DEF Numbering, Event
<1>6. StreamType'
  BY <1>1, <1>2, <1>3, <1>5 DEF StreamType
<1>7. \A a \in assigned : a.stream # streams + 1
  BY <1>1, <1>2 DEF StreamType
<1>8. LineageTruthful'
  BY <1>1, <1>4, <1>7 DEF LineageTruthful
<1>9. Fresh'
  <2>1. streams \in Nat /\ \A a \in assigned : a.stream \in Nat
    BY <1>1, <1>2, StreamAssumption DEF StreamType
  <2>2. \A a \in assigned' : a.stream <= streams'
    BY <1>1, <1>2, <1>4, <2>1
  <2>3. \A a \in assigned' : a.stream = live'.stream => a.sequence <= live'.last
    BY <1>1, <1>3, <1>4, <1>7
  <2>4. live'.stream <= streams' /\ live'.stream # NoStream
    BY <1>1, <1>3, <2>1 DEF NoStream
  <2>5. Valid(saved)' /\ Valid(live)' /\ (Numbering(live) \subseteq assigned)'
    BY <1>1, <1>3 DEF Valid, Numbering
  <2>6. QED
    BY <1>1, <2>2, <2>3, <2>4, <2>5 DEF Fresh
<1>10. QED
  BY <1>6, <1>8, <1>9 DEF IInv

(* A new event takes a number above all others of its lineage.             *)
LEMMA ReceiveStep ==
  ASSUME IInv, NEW thread \in Threads \cup {NoThread}, Receive(thread)
  PROVE  IInv'
<1> DEFINE full == live.last = MaxSequence
           id == received + 1
           added == [stream |-> live'.stream, sequence |-> live'.last, id |-> id]
<1>1. /\ StreamType /\ Fresh /\ LineageTruthful /\ up
      /\ id \in 1..MaxEvents /\ received' = id
      /\ full => streams + 1 \in 1..MaxStreams
      /\ live' = Appended(live, thread, id, streams + 1)
      /\ streams' = IF full THEN streams + 1 ELSE streams
      /\ assigned' = assigned \cup Numbering(live')
      /\ up' = up /\ saved' = saved /\ written' = written
  BY StreamAssumption DEF IInv, StreamType, Receive
<1>2. /\ live \in Snapshot /\ Valid(live) /\ Numbering(live) \subseteq assigned
      /\ live.stream # NoStream /\ live.stream <= streams /\ saved.stream <= streams
      /\ streams \in Nat /\ live.stream \in Nat /\ saved.stream \in Nat
      /\ live.last \in Nat
      /\ \A a \in assigned : a.stream \in Nat /\ a.sequence \in Nat /\ a.stream <= streams
      /\ \A a \in assigned : a.stream = live.stream => a.sequence <= live.last
  BY <1>1, StreamAssumption, SMTT(30) DEF StreamType, Fresh, Snapshot
<1>3. /\ live' \in Snapshot /\ Valid(live')
      /\ live'.stream = IF full THEN streams + 1 ELSE live.stream
      /\ live'.last = IF full THEN 1 ELSE live.last + 1
      /\ \A i \in DOMAIN live'.events :
           \/ live'.events[i] = [sequence |-> live'.last, thread |-> thread, id |-> id]
           \/ ~full /\ \E j \in DOMAIN live.events : live'.events[i] = live.events[j]
  <2>1. streams + 1 \in Nat /\ (full => streams + 1 \in 0..MaxStreams)
    BY <1>1, <1>2
  <2> HIDE DEF id
  <2>2. QED
    BY <1>1, <1>2, <2>1, AppendedValid
<1>4. \A a \in Numbering(live') : a = added \/ (~full /\ a \in assigned)
  <2> SUFFICES ASSUME NEW i \in DOMAIN live'.events
               PROVE  LET a == [stream |-> live'.stream,
                                sequence |-> live'.events[i].sequence,
                                id |-> live'.events[i].id]
                      IN  a = added \/ (~full /\ a \in assigned)
    BY DEF Numbering
  <2>1. CASE live'.events[i] = [sequence |-> live'.last, thread |-> thread, id |-> id]
    BY <2>1
  <2>2. ASSUME ~full, NEW j \in DOMAIN live.events, live'.events[i] = live.events[j]
        PROVE  [stream |-> live'.stream, sequence |-> live'.events[i].sequence,
                id |-> live'.events[i].id] \in assigned
    BY <1>2, <1>3, <2>2 DEF Numbering
  <2>3. QED
    BY <1>3, <2>1, <2>2
<1>5. \A a \in assigned : a.stream = live'.stream => a.sequence < live'.last
  BY <1>2, <1>3
<1>6. assigned' \subseteq assigned \cup {added}
  BY <1>1, <1>4
<1>7. /\ added \in [stream: 1..MaxStreams, sequence: Nat, id: 1..MaxEvents]
      /\ added.stream = live'.stream /\ added.sequence = live'.last
      /\ live'.last \in Nat /\ live'.stream <= streams' /\ live'.stream # NoStream
  BY <1>1, <1>2, <1>3, StreamAssumption DEF Snapshot, NoStream
<1> HIDE DEF added, id
<1>8. StreamType'
  <2>1. assigned' \subseteq [stream: 1..MaxStreams, sequence: Nat, id: 1..MaxEvents]
    BY <1>1, <1>6, <1>7 DEF StreamType
  <2>2. id \in 0..MaxEvents /\ streams' \in 0..MaxStreams
    BY <1>1 DEF StreamType
  <2>3. QED
    BY <1>1, <1>3, <2>1, <2>2 DEF StreamType
<1>9. LineageTruthful'
  BY <1>1, <1>2, <1>5, <1>6, <1>7 DEF LineageTruthful
<1>10. Fresh'
  <2>1. streams <= streams' /\ streams' \in Nat
    BY <1>1, <1>2
  <2>2. \A a \in assigned' : a.stream <= streams'
    BY <1>2, <1>6, <1>7, <2>1
  <2>3. \A a \in assigned' : a.stream = live'.stream => a.sequence <= live'.last
    BY <1>2, <1>5, <1>6, <1>7
  <2>4. saved'.stream <= streams' /\ (Numbering(live) \subseteq assigned)'
    BY <1>1, <1>2, <2>1 DEF Numbering
  <2>5. /\ (~written => saved.stream = NoStream)'
        /\ (saved.stream # NoStream => Valid(saved))'
    BY <1>1 DEF Fresh, Valid
  <2>6. Valid(live)'
    BY <1>3 DEF Valid
  <2>7. QED
    BY <1>1, <1>7, <2>2, <2>3, <2>4, <2>5, <2>6 DEF Fresh
<1>11. QED
  BY <1>8, <1>9, <1>10 DEF IInv

(* Knowing a conversation, saving and dying number nothing.                *)
LEMMA OtherSteps ==
  ASSUME IInv,
         \/ \E thread \in Threads : Learn(thread)
         \/ Revise
         \/ SaveState \/ StreamCrash \/ UNCHANGED streamVars
  PROVE  IInv'
<1> USE DEF IInv
<1>1. ASSUME (\E thread \in Threads : Learn(thread)) \/ Revise PROVE IInv'
  <2>1. /\ live' \in Snapshot /\ live'.stream = live.stream
        /\ live'.last = live.last /\ live'.events = live.events
    <3>1. live \in Snapshot /\ live.revision \in Nat /\ live.revision + 1 \in Nat
      BY DEF StreamType, Snapshot
    <3>2. CASE \E thread \in Threads : Learn(thread)
      <4>1. PICK thread \in Threads : Learn(thread)
        BY <3>2
      <4>2. live' = [live EXCEPT !.known = @ \cup {thread}, !.revision = @ + 1]
        BY <4>1 DEF Learn
      <4>3. QED
        BY <3>1, <4>2 DEF Snapshot
    <3>3. CASE Revise
      <4>1. live' = [live EXCEPT !.revision = @ + 1]
        BY <3>3 DEF Revise
      <4>2. QED
        BY <3>1, <4>1 DEF Snapshot
    <3>4. QED
      BY <1>1, <3>2, <3>3
  <2>2. /\ up' = up /\ saved' = saved /\ written' = written /\ streams' = streams
        /\ received' = received /\ assigned' = assigned
    BY <1>1 DEF Learn, Revise
  <2>3. StreamType' /\ LineageTruthful'
    BY <2>1, <2>2 DEF StreamType, LineageTruthful
  <2>4. Fresh'
    BY <2>1, <2>2 DEF Fresh, Valid, Numbering
  <2>5. QED
    BY <2>3, <2>4
<1>2. CASE SaveState
  <2>1. /\ up /\ up' = up /\ saved' = live /\ live' = live /\ written' = written
        /\ streams' = streams /\ received' = received /\ assigned' = assigned
    BY <1>2 DEF SaveState
  <2>2. StreamType' /\ LineageTruthful'
    BY <2>1 DEF StreamType, LineageTruthful
  <2>3. written
    BY <2>1 DEF Fresh
  <2>4. Fresh'
    BY <2>1, <2>3 DEF Fresh, Valid, Numbering
  <2>5. QED
    BY <2>2, <2>4
<1>3. CASE StreamCrash
  <2>1. /\ up' = FALSE /\ saved' = saved /\ live' = saved /\ written' = written
        /\ streams' = streams /\ received' = received /\ assigned' = assigned
    BY <1>3 DEF StreamCrash
  <2>2. StreamType' /\ LineageTruthful'
    BY <2>1 DEF StreamType, LineageTruthful
  <2>3. Fresh'
    BY <2>1 DEF Fresh, Valid, Numbering
  <2>4. QED
    BY <2>2, <2>3
<1>4. CASE UNCHANGED streamVars
  BY <1>4 DEF streamVars, StreamType, Fresh, LineageTruthful, Valid, Numbering
<1>5. QED
  BY <1>1, <1>2, <1>3, <1>4

-----------------------------------------------------------------------------
(* What a host numbers, what it saves and what it serves fit together in   *)
(* every reachable state of the stream and its clients.                    *)
THEOREM StreamInvariance == Spec => []IInv
<1>1. Init => IInv
  BY StreamStarts DEF Init
<1>2. IInv /\ [Next]_vars => IInv'
  <2> SUFFICES ASSUME IInv, [Next]_vars PROVE IInv'
    OBVIOUS
  <2>1. CASE StreamNext
    BY <2>1, RestartStep, ReceiveStep, OtherSteps DEF StreamNext
  <2>2. CASE UNCHANGED streamVars
    BY <2>2, OtherSteps
  <2>3. QED
    BY <2>1, <2>2 DEF Next, PollLive, PollSaved, vars
<1>3. QED
  BY <1>1, <1>2, PTL DEF Spec

(* Within a lineage a number means one event for ever.                     *)
THEOREM LineageTruthfulCorrect == Spec => []LineageTruthful
<1>1. IInv => LineageTruthful
  BY DEF IInv
<1>2. QED
  BY <1>1, StreamInvariance, PTL

(* What a host serves is a valid window.                                   *)
THEOREM WindowValidCorrect == Spec => []WindowValid
<1>1. IInv => WindowValid
  <2> SUFFICES ASSUME IInv, up PROVE WindowValid
    BY DEF WindowValid
  <2>1. live.stream # NoStream /\ Valid(live)
    BY DEF IInv, Fresh
  <2>2. QED
    BY <2>1 DEF WindowValid, Valid, Last
<1>2. QED
  BY <1>1, StreamInvariance, PTL

-----------------------------------------------------------------------------
(* Finite sets of numbers and of events.                                   *)

(* A set of numbers has a least one.                                       *)
LEMMA LeastOf ==
  ASSUME NEW T \in SUBSET Nat, T # {}
  PROVE  \E n \in T : \A m \in T : n <= m
<1>1. PICK n \in T : \A m \in T : ~ (<<m, n>> \in OpToRel(<, Nat))
  BY WFMin, NatLessThanWellFounded
<1>2. ASSUME NEW m \in T PROVE n <= m
  <2>1. <<m, n>> \in Nat \X Nat /\ ~(<<m, n>> \in OpToRel(<, Nat))
    BY <1>1
  <2>2. ~(m < n)
    BY <2>1 DEF OpToRel
  <2>3. QED
    BY <2>2
<1>3. QED
  BY <1>2

(* A finite set of numbers has a greatest one: one without would stay one  *)
(* without its first element.                                              *)
LEMMA GreatestOf ==
  ASSUME NEW S \in SUBSET Nat, S # {}, IsFiniteSet(S)
  PROVE  Max(S) \in S /\ \A n \in S : n <= Max(S)
<1> DEFINE Greatest(T) == \E m \in T : \A n \in T : n <= m
           Sizes == {k \in Nat : \E T \in SUBSET Nat :
                       T # {} /\ IsFiniteSet(T) /\ Cardinality(T) = k /\ ~Greatest(T)}
<1>1. ASSUME Sizes # {} PROVE FALSE
  <2>1. PICK k \in Sizes : \A l \in Sizes : k <= l
    BY <1>1, LeastOf
  <2>2. PICK T \in SUBSET Nat : T # {} /\ IsFiniteSet(T) /\ Cardinality(T) = k /\ ~Greatest(T)
    BY <2>1
  <2>3. PICK x \in T : TRUE
    BY <2>2
  <2>4. /\ T \ {x} \in SUBSET Nat /\ IsFiniteSet(T \ {x})
        /\ Cardinality(T \ {x}) = k - 1 /\ Cardinality(T \ {x}) \in Nat /\ k \in Nat
    BY <2>1, <2>2, <2>3, FS_RemoveElement, FS_CardinalityType
  <2>5. CASE T \ {x} = {}
    <3>1. \A n \in T : n <= x
      BY <2>2, <2>3, <2>5
    <3>2. QED
      BY <2>2, <2>3, <3>1
  <2>6. CASE T \ {x} # {}
    <3>1. Greatest(T \ {x})
      <4>1. k - 1 \notin Sizes
        BY <2>1, <2>4
      <4>2. QED
        BY <2>4, <2>6, <4>1
    <3>2. PICK m \in T \ {x} : \A n \in T \ {x} : n <= m
      BY <3>1
    <3>3. m \in Nat /\ x \in Nat
      BY <2>2, <2>3, <3>2
    <3>4. CASE m <= x
      <4>1. \A n \in T : n <= x
        BY <2>2, <3>2, <3>3, <3>4
      <4>2. QED
        BY <2>2, <2>3, <4>1
    <3>5. CASE ~(m <= x)
      <4>1. \A n \in T : n <= m
        BY <3>2, <3>3, <3>5
      <4>2. QED
        BY <2>2, <3>2, <4>1
    <3>6. QED
      BY <3>4, <3>5
  <2>7. QED
    BY <2>5, <2>6
<1>2. Greatest(S)
  <2>1. Cardinality(S) \in Nat
    BY FS_CardinalityType
  <2>2. QED
    BY <1>1, <2>1
<1>3. \E m \in S : \A n \in S : m >= n
  BY <1>2
<1>4. Max(S) \in S /\ \A n \in S : Max(S) >= n
  BY <1>3, Zenon DEF Max
<1>5. QED
  BY <1>4

(* One event for each number.                                              *)
OnePerNumber(events) == \A a, b \in events : a.sequence = b.sequence => a = b

(* Then there are as many numbers as events.                               *)
LEMMA NumbersOfEvents ==
  ASSUME NEW events \in SUBSET Event, IsFiniteSet(events)
  PROVE  /\ Numbers(events) \subseteq Nat /\ IsFiniteSet(Numbers(events))
         /\ Cardinality(Numbers(events)) \in Nat /\ Cardinality(events) \in Nat
         /\ OnePerNumber(events) => Cardinality(Numbers(events)) = Cardinality(events)
<1> DEFINE f == [e \in events |-> e.sequence]
<1>1. Numbers(events) \subseteq Nat
  BY DEF Numbers, Event
<1>2. f \in Surjection(events, Numbers(events))
  BY DEF Numbers, Surjection
<1>3. OnePerNumber(events) => f \in Injection(events, Numbers(events))
  <2>1. f \in [events -> Numbers(events)] /\ \A e \in events : f[e] = e.sequence
    BY DEF Numbers
  <2> HIDE DEF f
  <2>2. ASSUME OnePerNumber(events), NEW a \in events, NEW b \in events, f[a] = f[b] PROVE a = b
    BY <2>1, <2>2 DEF OnePerNumber
  <2>3. QED
    BY <2>1, <2>2 DEF Injection, IsInjective
<1> HIDE DEF f
<1>4. /\ IsFiniteSet(Numbers(events))
      /\ Cardinality(Numbers(events)) = Cardinality(events) <=> f \in Injection(events, Numbers(events))
  BY <1>2, FS_Surjection
<1>5. QED
  BY <1>1, <1>3, <1>4, FS_CardinalityType

(* Two sets without a common element.                                      *)
LEMMA Together ==
  ASSUME NEW S, NEW T, IsFiniteSet(S), IsFiniteSet(T), S \cap T = {}
  PROVE  /\ IsFiniteSet(S \cup T) /\ Cardinality(S \cup T) = Cardinality(S) + Cardinality(T)
         /\ Cardinality(S) \in Nat /\ Cardinality(T) \in Nat
<1>1. IsFiniteSet(S \cup T) /\ Cardinality(S \cup T) = Cardinality(S) + Cardinality(T) - Cardinality(S \cap T)
  BY FS_Union
<1>2. Cardinality(S \cap T) = 0
  BY FS_EmptySet
<1>3. Cardinality(S) \in Nat /\ Cardinality(T) \in Nat
  BY FS_CardinalityType
<1>4. QED
  BY <1>1, <1>2, <1>3

(* A set and a part of it.                                                 *)
LEMMA Without ==
  ASSUME NEW S, NEW T, IsFiniteSet(S), T \subseteq S
  PROVE  /\ IsFiniteSet(T) /\ IsFiniteSet(S \ T)
         /\ Cardinality(S) = Cardinality(T) + Cardinality(S \ T)
         /\ Cardinality(T) \in Nat /\ Cardinality(S \ T) \in Nat
<1>1. IsFiniteSet(T) /\ IsFiniteSet(S \ T)
  BY FS_Subset
<1>2. T \cup (S \ T) = S /\ T \cap (S \ T) = {}
  OBVIOUS
<1>3. QED
  BY <1>1, <1>2, Together

-----------------------------------------------------------------------------
(* What a cursor holds.                                                    *)
Cursor == [initialized: BOOLEAN, stream: Nat, applied: Nat, lineageKnown: BOOLEAN,
           missing: Nat, ranges: Seq(Nat \X Nat), omitted: Nat,
           deferred: SUBSET Event, dropped: Nat]

(* The books of a lineage: each number observed of an event that is about  *)
(* a conversation is projected, or waits, or was dropped.                  *)
Books(c, s, p, k) ==
  /\ c \in Cursor
  /\ s \subseteq Nat /\ IsFiniteSet(s) /\ \A n \in s : n <= c.applied
  /\ p \subseteq s /\ k = Cardinality(p)
  /\ IsFiniteSet(c.deferred) /\ OnePerNumber(c.deferred)
  /\ Numbers(c.deferred) \subseteq s \ p
  /\ Cardinality(s) = Cardinality(p) + Cardinality(c.deferred) + c.dropped

OpenedSeen(snapshot) == IF SameLineage(snapshot) THEN seen ELSE {}
OpenedAddressed(snapshot) == IF SameLineage(snapshot) THEN addressed ELSE {}
OpenedProjected(snapshot) == IF SameLineage(snapshot) THEN projected ELSE {}
OpenedCount(snapshot) == IF SameLineage(snapshot) THEN projections ELSE 0

(* A poll starts from balanced books: those of the lineage, or new ones.   *)
LEMMA OpenedBooks ==
  ASSUME Books(cursor, addressed, projected, projections), NEW snapshot \in Snapshot
  PROVE  Books(Base(snapshot), OpenedAddressed(snapshot), OpenedProjected(snapshot), OpenedCount(snapshot))
<1>1. CASE SameLineage(snapshot)
  BY <1>1 DEF Base, OpenedAddressed, OpenedProjected, OpenedCount
<1>2. CASE ~SameLineage(snapshot)
  <2>1. PICK c : c = Base(snapshot)
    OBVIOUS
  <2>2. c = [NoCursor EXCEPT !.initialized = TRUE, !.stream = snapshot.stream,
               !.lineageKnown = snapshot.stream # NoStream /\ ~snapshot.prior]
    BY <1>2, <2>1 DEF Base
  <2>3. c \in Cursor /\ c.deferred = {} /\ c.dropped = 0 /\ c.applied = 0
    <3>1. snapshot.stream \in Nat /\ (snapshot.stream # NoStream /\ ~snapshot.prior) \in BOOLEAN
      BY StreamAssumption DEF Snapshot
    <3>2. NoCursor \in Cursor /\ NoCursor.deferred = {} /\ NoCursor.dropped = 0 /\ NoCursor.applied = 0
      BY DEF Cursor, NoCursor, NoStream
    <3>3. QED
      BY <2>2, <3>1, <3>2 DEF Cursor
  <2>4. IsFiniteSet({}) /\ Cardinality({}) = 0
    BY FS_EmptySet
  <2>5. Books(c, {}, {}, 0)
    BY <2>3, <2>4 DEF Books, OnePerNumber, Numbers
  <2>6. QED
    BY <1>2, <2>1, <2>5 DEF OpenedAddressed, OpenedProjected, OpenedCount
<1>3. QED
  BY <1>1, <1>2

(* Recording a gap changes neither the cursor nor what waits.              *)
LEMMA GapType ==
  ASSUME NEW c \in Cursor, NEW first \in Nat, NEW last \in Nat, first <= last
  PROVE  /\ WithGap(c, first, last) \in Cursor
         /\ WithGap(c, first, last).applied = c.applied
         /\ WithGap(c, first, last).deferred = c.deferred
         /\ WithGap(c, first, last).dropped = c.dropped
         /\ WithGap(c, first, last).stream = c.stream
         /\ WithGap(c, first, last).initialized = c.initialized
         /\ WithGap(c, first, last).missing = c.missing + (last - first + 1)
<1> DEFINE adjacent == c.ranges # <<>> /\ Last(c.ranges)[2] + 1 = first
           ranges == IF adjacent
                     THEN [c.ranges EXCEPT ![Len(c.ranges)] = <<@[1], last>>]
                     ELSE Append(c.ranges, <<first, last>>)
           kept == IF Len(ranges) > RangeLimit THEN Tail(ranges) ELSE ranges
           omitted == IF Len(ranges) > RangeLimit THEN c.omitted + 1 ELSE c.omitted
<1>1. c.ranges \in Seq(Nat \X Nat) /\ c.missing \in Nat /\ c.omitted \in Nat
  BY DEF Cursor
<1>2. ranges \in Seq(Nat \X Nat) /\ ranges # <<>>
  <2>1. CASE adjacent
    <3>1. Len(c.ranges) \in 1..Len(c.ranges) /\ c.ranges[Len(c.ranges)] \in Nat \X Nat
      BY <1>1, <2>1
    <3>2. <<c.ranges[Len(c.ranges)][1], last>> \in Nat \X Nat
      BY <3>1
    <3>3. QED
      BY <1>1, <2>1, <3>1, <3>2
  <2>2. CASE ~adjacent
    <3>1. <<first, last>> \in Nat \X Nat /\ ranges = Append(c.ranges, <<first, last>>)
      BY <2>2
    <3> HIDE DEF ranges
    <3>2. QED
      BY <1>1, <3>1, AppendProperties
  <2>3. QED
    BY <2>1, <2>2
<1> HIDE DEF ranges
<1>3. kept \in Seq(Nat \X Nat) /\ omitted \in Nat
  BY <1>1, <1>2
<1>4. WithGap(c, first, last) = [c EXCEPT !.missing = @ + (last - first + 1), !.ranges = kept, !.omitted = omitted]
  BY Zenon DEF WithGap, ranges
<1> HIDE DEF kept, omitted
<1>5. c.missing + (last - first + 1) \in Nat
  BY <1>1
<1>6. QED
  BY <1>3, <1>4, <1>5 DEF Cursor

-----------------------------------------------------------------------------
(* Observed events have numbers of their own, after the cursor.            *)
LEMMA ObservedOnce ==
  ASSUME NEW snapshot \in Snapshot
  PROVE  /\ Observations(snapshot) \in SUBSET Event /\ IsFiniteSet(Observations(snapshot))
         /\ OnePerNumber(Observations(snapshot))
         /\ \A e \in Observations(snapshot) : e.sequence > Base(snapshot).applied
<1> DEFINE events == snapshot.events
           fresh(i) == events[i].sequence > Base(snapshot).applied
           first(i) == \A j \in 1..i - 1 : events[j].sequence # events[i].sequence
           I == {i \in DOMAIN events : fresh(i) /\ first(i)}
           f == [i \in I |-> events[i]]
<1>1. events \in Seq(Event) /\ DOMAIN events = 1..Len(events) /\ Len(events) \in Nat
  BY DEF Snapshot
<1>2. Observations(snapshot) = {events[i] : i \in I}
  BY DEF Observations
<1>3. I \subseteq 1..Len(events) /\ IsFiniteSet(I)
  <2>1. I \subseteq 1..Len(events) /\ IsFiniteSet(1..Len(events))
    BY <1>1, FS_Interval
  <2> HIDE DEF I
  <2>2. QED
    BY <2>1, FS_Subset
<1>4. f \in Surjection(I, Observations(snapshot))
  BY <1>2 DEF Surjection
<1>5. IsFiniteSet(Observations(snapshot))
  BY <1>3, <1>4, FS_Surjection
<1>6. ASSUME NEW i \in I, NEW j \in I, events[i].sequence = events[j].sequence PROVE i = j
  <2>1. i \in 1..Len(events) /\ j \in 1..Len(events) /\ first(i) /\ first(j)
    BY <1>1
  <2>2. ~(i < j)
    <3>1. i < j => i \in 1..j - 1
      BY <1>1, <2>1
    <3>2. QED
      BY <1>6, <2>1, <3>1
  <2>3. ~(j < i)
    <3>1. j < i => j \in 1..i - 1
      BY <1>1, <2>1
    <3>2. QED
      BY <1>6, <2>1, <3>1
  <2>4. QED
    BY <1>1, <2>1, <2>2, <2>3
<1>7. OnePerNumber(Observations(snapshot))
  BY <1>2, <1>6 DEF OnePerNumber
<1>8. Observations(snapshot) \in SUBSET Event
  BY <1>1, <1>2
<1>9. \A e \in Observations(snapshot) : e.sequence > Base(snapshot).applied
  BY <1>2
<1>10. QED
  BY <1>5, <1>7, <1>8, <1>9

(* What a poll observes is entered once: as projected, waiting or dropped; *)
(* what it resolves leaves the waiting ones.                               *)
LEMMA Posted ==
  ASSUME NEW c, NEW s, NEW p, NEW k, Books(c, s, p, k),
         NEW observed \in SUBSET Event, IsFiniteSet(observed), OnePerNumber(observed),
         \A e \in observed : e.sequence > c.applied,
         NEW known \in SUBSET observed, NEW resolved \in SUBSET c.deferred,
         NEW waiting, waiting = (c.deferred \ resolved) \cup (observed \ known),
         NEW kept \in SUBSET waiting,
         NEW next \in Cursor, c.applied <= next.applied,
         \A e \in observed : e.sequence <= next.applied,
         next.deferred = kept, next.dropped = c.dropped + Cardinality(waiting \ kept)
  PROVE  Books(next, s \cup Numbers(observed), p \cup Numbers(resolved \cup known),
               k + Cardinality(resolved \cup known))
<1> DEFINE rest == c.deferred \ resolved
           unknown == observed \ known
           shows == resolved \cup known
<1>1. /\ c.deferred \in SUBSET Event /\ c.applied \in Nat /\ c.dropped \in Nat
      /\ next.applied \in Nat
      /\ s \subseteq Nat /\ IsFiniteSet(s) /\ \A n \in s : n <= c.applied
      /\ p \subseteq s /\ k = Cardinality(p)
      /\ IsFiniteSet(c.deferred) /\ OnePerNumber(c.deferred) /\ Numbers(c.deferred) \subseteq s \ p
      /\ Cardinality(s) = Cardinality(p) + Cardinality(c.deferred) + c.dropped
  BY DEF Books, Cursor
<1>2. \A e \in c.deferred : e.sequence \in s /\ e.sequence \notin p /\ e.sequence <= c.applied /\ e.sequence \in Nat
  BY <1>1 DEF Numbers
<1>3. \A e \in observed : e.sequence \notin s /\ e.sequence \in Nat
  BY <1>1 DEF Event
<1>4. \A d \in c.deferred, e \in observed : d.sequence # e.sequence /\ d # e
  BY <1>2, <1>3
<1>5. /\ IsFiniteSet(resolved) /\ IsFiniteSet(rest)
      /\ Cardinality(c.deferred) = Cardinality(resolved) + Cardinality(rest)
      /\ Cardinality(resolved) \in Nat /\ Cardinality(rest) \in Nat
  BY <1>1, Without
<1>6. /\ IsFiniteSet(known) /\ IsFiniteSet(unknown)
      /\ Cardinality(observed) = Cardinality(known) + Cardinality(unknown)
      /\ Cardinality(known) \in Nat /\ Cardinality(unknown) \in Nat
  BY Without
<1>7. /\ IsFiniteSet(shows) /\ Cardinality(shows) = Cardinality(resolved) + Cardinality(known)
  <2>1. resolved \cap known = {}
    BY <1>4
  <2>2. QED
    BY <1>5, <1>6, <2>1, Together
<1>8. IsFiniteSet(waiting) /\ Cardinality(waiting) = Cardinality(rest) + Cardinality(unknown)
  <2>1. rest \cap unknown = {}
    BY <1>4
  <2>2. QED
    BY <1>5, <1>6, <2>1, Together
<1>9. /\ IsFiniteSet(kept) /\ Cardinality(waiting) = Cardinality(kept) + Cardinality(waiting \ kept)
      /\ Cardinality(kept) \in Nat /\ Cardinality(waiting \ kept) \in Nat
  <2> HIDE DEF rest, unknown
  <2>1. kept \subseteq waiting
    OBVIOUS
  <2>2. QED
    BY ONLY <1>8, <2>1, Without
<1>10. OnePerNumber(waiting) /\ OnePerNumber(shows) /\ shows \in SUBSET Event /\ waiting \in SUBSET Event
  BY <1>1, <1>4 DEF OnePerNumber
<1>11. /\ Numbers(observed) \subseteq Nat /\ IsFiniteSet(Numbers(observed))
       /\ Cardinality(Numbers(observed)) = Cardinality(observed)
  BY NumbersOfEvents
<1>12. /\ IsFiniteSet(Numbers(shows)) /\ Cardinality(Numbers(shows)) = Cardinality(shows)
  BY <1>7, <1>10, NumbersOfEvents
<1>13. /\ IsFiniteSet(s \cup Numbers(observed))
       /\ Cardinality(s \cup Numbers(observed)) = Cardinality(s) + Cardinality(observed)
       /\ Cardinality(s) \in Nat
  <2>1. s \cap Numbers(observed) = {}
    BY <1>3 DEF Numbers
  <2> DEFINE N == Numbers(observed)
  <2> HIDE DEF N
  <2>2. IsFiniteSet(N) /\ s \cap N = {} /\ Cardinality(N) = Cardinality(observed)
    BY <1>11, <2>1 DEF N
  <2>3. IsFiniteSet(s \cup N) /\ Cardinality(s \cup N) = Cardinality(s) + Cardinality(N) /\ Cardinality(s) \in Nat
    BY <1>1, <2>2, Together
  <2>4. QED
    BY <2>2, <2>3 DEF N
<1>14. /\ IsFiniteSet(p)
       /\ Cardinality(p \cup Numbers(shows)) = Cardinality(p) + Cardinality(shows)
       /\ Cardinality(p) \in Nat
  <2>1. p \cap Numbers(shows) = {}
    BY <1>1, <1>2, <1>3 DEF Numbers
  <2>2. IsFiniteSet(p)
    BY <1>1, FS_Subset
  <2> DEFINE N == Numbers(shows)
  <2> HIDE DEF N
  <2>3. IsFiniteSet(N) /\ p \cap N = {} /\ Cardinality(N) = Cardinality(shows)
    BY <1>12, <2>1 DEF N
  <2>4. Cardinality(p \cup N) = Cardinality(p) + Cardinality(N) /\ Cardinality(p) \in Nat
    BY <2>2, <2>3, Together
  <2>5. QED
    BY <2>2, <2>3, <2>4 DEF N
<1>15. Numbers(kept) \subseteq (s \cup Numbers(observed)) \ (p \cup Numbers(shows))
  <2> SUFFICES ASSUME NEW e \in kept
               PROVE  /\ e.sequence \in s \cup Numbers(observed) /\ e.sequence \notin p
                      /\ \A o \in shows : o.sequence # e.sequence
    BY DEF Numbers
  <2>1. CASE e \in rest
    <3>1. \A o \in resolved : o.sequence # e.sequence
      BY <1>1, <2>1 DEF OnePerNumber
    <3>2. \A o \in known : o.sequence # e.sequence
      BY <1>4, <2>1
    <3>3. QED
      BY <1>2, <2>1, <3>1, <3>2
  <2>2. CASE e \in unknown
    <3>1. \A o \in resolved : o.sequence # e.sequence
      BY <1>4, <2>2
    <3>2. \A o \in known : o.sequence # e.sequence
      BY <2>2 DEF OnePerNumber
    <3>3. e.sequence \in Numbers(observed) /\ e.sequence \notin p
      BY <1>1, <1>3, <2>2 DEF Numbers
    <3>4. QED
      BY <3>1, <3>2, <3>3
  <2>3. QED
    BY <2>1, <2>2
<1>16. p \cup Numbers(shows) \subseteq s \cup Numbers(observed)
  BY <1>1, <1>2 DEF Numbers
<1>17. \A n \in s \cup Numbers(observed) : n \in Nat /\ n <= next.applied
  <2>1. \A n \in s : n \in Nat /\ n <= next.applied
    BY <1>1
  <2>2. QED
    BY <1>3, <2>1 DEF Numbers
<1>18. OnePerNumber(kept)
  BY <1>10 DEF OnePerNumber
<1>19. Cardinality(s) + Cardinality(observed)
         = (Cardinality(p) + Cardinality(shows)) + Cardinality(kept) + (c.dropped + Cardinality(waiting \ kept))
  BY <1>1, <1>5, <1>6, <1>7, <1>8, <1>9, <1>13, <1>14
<1>20. QED
  BY <1>1, <1>7, <1>9, <1>13, <1>14, <1>15, <1>16, <1>17, <1>18, <1>19 DEF Books

-----------------------------------------------------------------------------
(* What a client can poll: a snapshot whose window, if it has one, is      *)
(* valid.                                                                  *)
Published(snapshot) ==
  snapshot \in Snapshot /\ (snapshot.stream # NoStream => Valid(snapshot))

(* What is not in a valid window any more comes before its last number.    *)
LEMMA UnavailableBound ==
  ASSUME NEW snapshot, Published(snapshot), snapshot.stream # NoStream
  PROVE  Unavailable(snapshot) \in Nat /\ Unavailable(snapshot) <= snapshot.last /\ snapshot.last \in Nat
<1> DEFINE events == snapshot.events
<1>1. events \in Seq(Event) /\ snapshot.last \in Nat /\ Valid(snapshot)
  BY DEF Published, Snapshot
<1>2. CASE events = <<>>
  BY <1>1, <1>2 DEF Unavailable
<1>3. CASE events # <<>>
  <2>1. 1 \in DOMAIN events /\ Len(events) \in DOMAIN events /\ Len(events) \in Nat \ {0}
    BY <1>1, <1>3
  <2>2. events[1] \in Event /\ events[1].sequence \in Nat
    <3>1. events[1] \in Event
      BY <1>1, <2>1
    <3>2. QED
      BY <3>1 DEF Event
  <2>3. events[1].sequence > 0 /\ snapshot.last = events[1].sequence + (Len(events) - 1)
    BY <1>1, <1>3, <2>1 DEF Valid, Consecutive
  <2>4. QED
    BY <1>3, <2>1, <2>2, <2>3 DEF Unavailable
<1>4. QED
  BY <1>2, <1>3

(* From a valid window the client observes exactly the numbers after what  *)
(* it applied and what is not in the window any more.                      *)
LEMMA WindowObserved ==
  ASSUME NEW snapshot, Published(snapshot), snapshot.stream # NoStream,
         Base(snapshot).applied \in Nat,
         NEW r, r = IF Unavailable(snapshot) > Base(snapshot).applied
                    THEN Unavailable(snapshot) ELSE Base(snapshot).applied
  PROVE  Numbers(Observations(snapshot)) = {n \in Nat : r < n /\ n <= snapshot.last}
<1> DEFINE events == snapshot.events
           after == Base(snapshot).applied
           U == Unavailable(snapshot)
           fresh(i) == events[i].sequence > after
           first(i) == \A j \in 1..i - 1 : events[j].sequence # events[i].sequence
<1>1. /\ events \in Seq(Event) /\ snapshot.last \in Nat /\ Valid(snapshot)
      /\ U \in Nat /\ after \in Nat /\ DOMAIN events = 1..Len(events) /\ Len(events) \in Nat
  BY UnavailableBound DEF Published, Snapshot
<1>2. Observations(snapshot) = {events[i] : i \in {i \in DOMAIN events : fresh(i) /\ first(i)}}
  BY DEF Observations
<1>3. CASE events = <<>>
  <2>1. U = snapshot.last /\ Numbers(Observations(snapshot)) = {}
    BY <1>2, <1>3 DEF Unavailable, Numbers
  <2>2. QED
    BY <1>1, <2>1
<1>4. CASE events # <<>>
  <2>1. 1 \in DOMAIN events /\ Len(events) \in DOMAIN events /\ events[1].sequence \in Nat
    <3>1. 1 \in DOMAIN events /\ Len(events) \in DOMAIN events /\ events[1] \in Event
      BY <1>1, <1>4
    <3>2. QED
      BY <3>1 DEF Event
  <2>2. /\ U = events[1].sequence - 1
        /\ \A i \in DOMAIN events : events[i].sequence = U + i
        /\ snapshot.last = U + Len(events)
    <3>1. \A i \in DOMAIN events : events[i].sequence = events[1].sequence + (i - 1)
      BY <1>1, <1>4 DEF Valid, Consecutive
    <3>2. U = events[1].sequence - 1
      BY <1>4 DEF Unavailable
    <3>3. \A i \in DOMAIN events : events[i].sequence = U + i
      BY <1>1, <2>1, <3>1, <3>2
    <3>4. snapshot.last = events[Len(events)].sequence
      BY <1>1, <1>4 DEF Valid
    <3>5. QED
      BY <2>1, <3>2, <3>3, <3>4
  <2> HIDE DEF U, after
  <2>3. ASSUME NEW n \in Numbers(Observations(snapshot)) PROVE n \in Nat /\ r < n /\ n <= snapshot.last
    <3>1. PICK i \in DOMAIN events : fresh(i) /\ n = events[i].sequence
      BY <1>2 DEF Numbers
    <3>2. n = U + i /\ i \in 1..Len(events) /\ n > after
      BY <1>1, <2>2, <3>1
    <3>3. r = U \/ r = after
      BY DEF U, after
    <3>4. QED
      BY <1>1, <2>2, <3>2, <3>3, SMTT(30)
  <2>4. ASSUME NEW n \in Nat, r < n, n <= snapshot.last PROVE n \in Numbers(Observations(snapshot))
    <3>1. r \in Nat /\ r >= U /\ r >= after
      BY <1>1 DEF U, after
    <3>2. n - U \in 1..Len(events) /\ n > after
      <4> HIDE DEF events, fresh, first
      <4>1. U < n /\ after < n /\ n <= U + Len(events) /\ U \in Nat /\ Len(events) \in Nat
        BY <1>1, <2>2, <2>4, <3>1
      <4>2. QED
        BY <1>1, <4>1
    <3>3. PICK i \in DOMAIN events : i = n - U
      BY <1>1, <3>2
    <3>4. events[i].sequence = n
      <4>1. events[i].sequence = U + i
        BY <2>2
      <4>2. QED
        BY <1>1, <3>3, <4>1
    <3>5. first(i)
      <4> SUFFICES ASSUME NEW j \in 1..i - 1 PROVE events[j].sequence # events[i].sequence
        OBVIOUS
      <4>1. j \in DOMAIN events /\ j < i /\ i \in Nat
        BY <1>1
      <4>2. QED
        BY <1>1, <2>2, <4>1
    <3>6. QED
      BY <1>2, <3>2, <3>4, <3>5 DEF Numbers
  <2>5. QED
    BY <2>3, <2>4
<1>5. QED
  BY <1>3, <1>4

(* The cursor that a poll commits.                                         *)
LEMMA Committed ==
  ASSUME NEW snapshot, Published(snapshot), Poll(snapshot), Base(snapshot) \in Cursor,
         IsFiniteSet(Base(snapshot).deferred)
  PROVE  /\ Gapped(snapshot) \in Cursor
         /\ Gapped(snapshot).deferred = Base(snapshot).deferred
         /\ Gapped(snapshot).dropped = Base(snapshot).dropped
         /\ cursor' \in Cursor
         /\ cursor'.missing = Gapped(snapshot).missing
         /\ cursor'.ranges = Gapped(snapshot).ranges
         /\ cursor'.omitted = Gapped(snapshot).omitted
         /\ cursor'.initialized /\ cursor'.stream = snapshot.stream
         /\ Base(snapshot).applied <= cursor'.applied
         /\ \A e \in Observations(snapshot) : e.sequence <= cursor'.applied
         /\ snapshot.stream # NoStream =>
              /\ Base(snapshot).applied <= snapshot.last
              /\ cursor'.applied = snapshot.last
         /\ LET waiting == (Base(snapshot).deferred \ Resolved(snapshot))
                             \cup (Addressed(Observations(snapshot)) \ Known(Observations(snapshot), snapshot))
            IN  /\ cursor'.deferred = Newest(waiting)
                /\ cursor'.dropped = Base(snapshot).dropped + Cardinality(waiting \ Newest(waiting))
<1> DEFINE base == Base(snapshot)
           gapped == Gapped(snapshot)
           observed == Observations(snapshot)
           unknown == Addressed(observed) \ Known(observed, snapshot)
           settled == Settled(gapped, snapshot)
           next == Defer(settled, unknown)
           waiting == (base.deferred \ Resolved(snapshot)) \cup unknown
           window == IF snapshot.stream = NoStream THEN {} ELSE {snapshot.last}
           reached == {base.applied} \cup Numbers(observed) \cup window
<1>1. snapshot \in Snapshot /\ snapshot.last \in Nat /\ snapshot.stream \in Nat
  BY StreamAssumption DEF Published, Snapshot
<1>2. /\ base.applied \in Nat /\ base.deferred \in SUBSET Event /\ base.dropped \in Nat
      /\ base.initialized /\ base.stream = snapshot.stream
  <2>1. base.initialized /\ base.stream = snapshot.stream
    BY DEF Base, SameLineage, NoCursor
  <2>2. QED
    BY <2>1 DEF Cursor
<1>3. /\ gapped \in Cursor /\ gapped.deferred = base.deferred /\ gapped.dropped = base.dropped
      /\ gapped.applied = base.applied /\ gapped.stream = base.stream
      /\ gapped.initialized = base.initialized
  <2>1. CASE gapped = base
    BY <2>1
  <2>2. CASE gapped # base
    <3>1. /\ snapshot.stream # NoStream /\ Unavailable(snapshot) > base.applied
          /\ gapped = WithGap(base, base.applied + 1, Unavailable(snapshot))
      BY <2>2 DEF Gapped
    <3>2. Unavailable(snapshot) \in Nat
      BY <3>1, UnavailableBound
    <3>3. base.applied + 1 \in Nat /\ base.applied + 1 <= Unavailable(snapshot)
      BY <1>2, <3>1, <3>2
    <3> HIDE DEF base, gapped
    <3>4. PICK first \in Nat, last \in Nat :
            first <= last /\ gapped = WithGap(base, first, last) /\ base \in Cursor
      BY <3>1, <3>2, <3>3 DEF base
    <3>5. QED
      BY <3>4, GapType
  <2>3. QED
    BY <2>1, <2>2
<1>4. observed \in SUBSET Event /\ IsFiniteSet(observed) /\ Numbers(observed) \subseteq Nat
      /\ IsFiniteSet(Numbers(observed)) /\ Addressed(observed) \in SUBSET Event
      /\ IsFiniteSet(Addressed(observed))
  <2>1. observed \in SUBSET Event /\ IsFiniteSet(observed) /\ OnePerNumber(observed)
    BY <1>1, ObservedOnce
  <2>2. Addressed(observed) \subseteq observed
    BY DEF Addressed
  <2> HIDE DEF observed
  <2>3. QED
    BY <2>1, <2>2, NumbersOfEvents, FS_Subset
<1>5. Max(reached) \in Nat /\ Max(reached) \in reached /\ \A n \in reached : n <= Max(reached)
  <2>1. IsFiniteSet({base.applied}) /\ IsFiniteSet(window)
    BY FS_EmptySet, FS_Singleton
  <2>2. IsFiniteSet({base.applied} \cup Numbers(observed))
    BY <1>4, <2>1, FS_Union
  <2>3. IsFiniteSet(reached)
    BY <2>1, <2>2, FS_Union
  <2>4. reached \in SUBSET Nat /\ reached # {}
    BY <1>1, <1>2, <1>4
  <2> HIDE DEF reached
  <2>5. Max(reached) \in reached /\ \A n \in reached : n <= Max(reached)
    BY <2>3, <2>4, GreatestOf
  <2>6. QED
    BY <2>4, <2>5
<1>6. settled = [gapped EXCEPT !.deferred = base.deferred \ Resolved(snapshot)]
  BY <1>3 DEF Settled
<1>7. /\ settled \in Cursor /\ settled.deferred = base.deferred \ Resolved(snapshot)
      /\ settled.dropped = base.dropped /\ settled.applied = base.applied
      /\ settled.missing = gapped.missing /\ settled.ranges = gapped.ranges
      /\ settled.omitted = gapped.omitted /\ settled.stream = base.stream
      /\ settled.initialized = base.initialized
  <2> HIDE DEF settled, gapped, base
  <2>1. base.deferred \ Resolved(snapshot) \in SUBSET Event
    BY <1>2
  <2>2. QED
    BY <1>2, <1>3, <1>6, <2>1 DEF Cursor
<1>8. waiting \in SUBSET Event /\ Cardinality(waiting \ Newest(waiting)) \in Nat
  <2>1. IsFiniteSet(base.deferred \ Resolved(snapshot)) /\ IsFiniteSet(unknown)
    BY <1>4, FS_Difference
  <2>2. IsFiniteSet(waiting)
    BY <2>1, FS_Union
  <2>3. IsFiniteSet(waiting \ Newest(waiting))
    BY <2>2, FS_Difference
  <2>4. QED
    BY <1>2, <1>4, <2>3, FS_CardinalityType
<1>9. next = [settled EXCEPT !.deferred = Newest(waiting),
                             !.dropped = base.dropped + Cardinality(waiting \ Newest(waiting))]
  <2> HIDE DEF settled
  <2>1. settled.deferred \cup unknown = waiting
    BY <1>7
  <2>2. QED
    BY <1>7, <2>1 DEF Defer
<1>10. Newest(waiting) \in SUBSET Event
  BY <1>8 DEF Newest
<1>11. /\ next \in Cursor /\ next.missing = gapped.missing /\ next.ranges = gapped.ranges
       /\ next.omitted = gapped.omitted /\ next.initialized /\ next.stream = snapshot.stream
       /\ next.deferred = Newest(waiting)
       /\ next.dropped = base.dropped + Cardinality(waiting \ Newest(waiting))
       /\ next.applied = base.applied
  <2> HIDE DEF settled, waiting, next, gapped, base
  <2>1. base.dropped + Cardinality(waiting \ Newest(waiting)) \in Nat
    BY <1>2, <1>8
  <2>2. QED
    BY <1>2, <1>7, <1>9, <1>10, <2>1 DEF Cursor
<1>12. cursor' = [next EXCEPT !.applied = Max({@} \cup Numbers(observed) \cup window)] /\ ~Stale(snapshot)
  BY Zenon DEF Poll
<1>13. cursor' = [next EXCEPT !.applied = Max(reached)]
  <2> HIDE DEF next
  <2>1. {next.applied} \cup Numbers(observed) \cup window = reached
    BY <1>11
  <2>2. QED
    BY <1>12, <2>1
<1>14. PICK c : c = cursor'
  OBVIOUS
<1>15. /\ c \in Cursor /\ c.missing = gapped.missing /\ c.ranges = gapped.ranges
       /\ c.omitted = gapped.omitted /\ c.initialized /\ c.stream = snapshot.stream
       /\ c.deferred = Newest(waiting)
       /\ c.dropped = base.dropped + Cardinality(waiting \ Newest(waiting))
       /\ c.applied = Max(reached)
  <2> HIDE DEF next, reached, waiting, gapped, base
  <2>1. QED
    BY <1>5, <1>11, <1>13, <1>14 DEF Cursor
<1>16. base.applied <= c.applied /\ \A e \in observed : e.sequence <= c.applied
  BY <1>5, <1>15 DEF Numbers
<1>17. ASSUME snapshot.stream # NoStream PROVE base.applied <= snapshot.last /\ c.applied = snapshot.last
  <2>1. base.applied <= snapshot.last
    BY <1>1, <1>2, <1>12, <1>17 DEF Stale, Base, NoCursor
  <2>2. \A n \in Numbers(observed) : n <= snapshot.last
    BY <1>2, <1>17, WindowObserved
  <2>3. \A n \in reached : n <= snapshot.last
    BY <1>1, <1>17, <2>1, <2>2
  <2>4. snapshot.last \in reached
    BY <1>17
  <2> HIDE DEF reached
  <2>5. Max(reached) <= snapshot.last /\ snapshot.last <= Max(reached)
    BY <1>5, <2>3, <2>4
  <2>6. QED
    BY <1>1, <1>5, <1>15, <2>1, <2>5
<1> HIDE DEF next, reached, settled
<1>18. QED
  BY <1>3, <1>14, <1>15, <1>16, <1>17

-----------------------------------------------------------------------------
(* The lineage up to r, after f: its numbers are observed or missing, and  *)
(* the ranges tell which, unless some were omitted.                        *)
CoverOf(ranges) == UNION {ranges[i][1]..ranges[i][2] : i \in DOMAIN ranges}

Track(c, s, f, r) ==
  /\ f \in Nat /\ r \in Nat /\ f <= r
  /\ IsFiniteSet(s) /\ \A n \in s : n \in Nat /\ f < n /\ n <= r
  /\ r = f + Cardinality(s) + c.missing
  /\ \A i \in DOMAIN c.ranges :
       f < c.ranges[i][1] /\ c.ranges[i][1] <= c.ranges[i][2] /\ c.ranges[i][2] <= r
  /\ CoverOf(c.ranges) \cap s = {}
  /\ c.omitted = 0 => CoverOf(c.ranges) \cup s = {n \in Nat : f < n /\ n <= r}

(* Observing what follows.                                                 *)
LEMMA TrackObserved ==
  ASSUME NEW c \in Cursor, NEW s, NEW f, NEW r, Track(c, s, f, r), NEW last \in Nat, r <= last
  PROVE  Track(c, s \cup {n \in Nat : r < n /\ n <= last}, f, last)
<1> DEFINE more == {n \in Nat : r < n /\ n <= last}
<1>1. /\ f \in Nat /\ r \in Nat /\ f <= r /\ IsFiniteSet(s) /\ \A n \in s : n \in Nat /\ f < n /\ n <= r
      /\ r = f + Cardinality(s) + c.missing
      /\ \A i \in DOMAIN c.ranges :
           f < c.ranges[i][1] /\ c.ranges[i][1] <= c.ranges[i][2] /\ c.ranges[i][2] <= r
      /\ CoverOf(c.ranges) \cap s = {}
      /\ c.omitted = 0 => CoverOf(c.ranges) \cup s = {n \in Nat : f < n /\ n <= r}
      /\ c.missing \in Nat /\ c.ranges \in Seq(Nat \X Nat)
  BY DEF Track, Cursor
<1>2. more = r + 1..last /\ IsFiniteSet(r + 1..last) /\ Cardinality(r + 1..last) = last - r
  <2>1. r + 1 \in Int /\ last \in Int /\ r + 1 \in Nat
    BY <1>1
  <2>2. IsFiniteSet(r + 1..last) /\ Cardinality(r + 1..last) = IF r + 1 > last THEN 0 ELSE last - (r + 1) + 1
    BY <2>1, FS_Interval
  <2>3. Cardinality(r + 1..last) = last - r
    BY <1>1, <2>2
  <2>4. more = r + 1..last
    BY <1>1, <2>1
  <2>5. QED
    BY <2>2, <2>3, <2>4
<1>3. IsFiniteSet(more) /\ Cardinality(more) = last - r
  BY <1>2
<1>4. s \cap more = {}
  BY <1>1
<1> HIDE DEF more
<1>5. IsFiniteSet(s \cup more) /\ Cardinality(s \cup more) = Cardinality(s) + (last - r) /\ Cardinality(s) \in Nat
  BY <1>1, <1>3, <1>4, Together
<1> USE DEF more
<1>6. \A i \in DOMAIN c.ranges : c.ranges[i][1] \in Nat /\ c.ranges[i][2] \in Nat
  BY <1>1
<1>7. \A n \in CoverOf(c.ranges) : n \in Nat /\ f < n /\ n <= r
  <2> SUFFICES ASSUME NEW i \in DOMAIN c.ranges, NEW n \in c.ranges[i][1]..c.ranges[i][2]
               PROVE  n \in Nat /\ f < n /\ n <= r
    BY DEF CoverOf
  <2>1. QED
    BY <1>1, <1>6
<1>8. CoverOf(c.ranges) \cap (s \cup more) = {}
  BY <1>1, <1>7
<1>9. c.omitted = 0 => CoverOf(c.ranges) \cup (s \cup more) = {n \in Nat : f < n /\ n <= last}
  BY <1>1, <1>7
<1>10. last = f + Cardinality(s \cup more) + c.missing
  <2> HIDE DEF more
  <2>1. /\ f \in Nat /\ r \in Nat /\ last \in Nat /\ c.missing \in Nat /\ Cardinality(s) \in Nat
        /\ r = f + Cardinality(s) + c.missing
    BY <1>1, <1>5
  <2>2. Cardinality(s \cup more) = Cardinality(s) + (last - r)
    BY <1>5
  <2>3. QED
    BY <2>1, <2>2
<1>11. \A n \in s \cup more : n \in Nat /\ f < n /\ n <= last
  BY <1>1
<1>12. \A i \in DOMAIN c.ranges :
         f < c.ranges[i][1] /\ c.ranges[i][1] <= c.ranges[i][2] /\ c.ranges[i][2] <= last
  BY <1>1, <1>6
<1>13. f <= last
  BY <1>1
<1> HIDE DEF more
<1>14. Track(c, s \cup more, f, last)
  BY <1>1, <1>5, <1>8, <1>9, <1>10, <1>11, <1>12, <1>13 DEF Track
<1>15. QED
  BY <1>14 DEF more

(* Reporting what follows missing.                                         *)
LEMMA TrackGap ==
  ASSUME NEW c \in Cursor, NEW s, NEW f, NEW r, Track(c, s, f, r), NEW last \in Nat, r < last
  PROVE  Track(WithGap(c, r + 1, last), s, f, last)
<1> DEFINE old == c.ranges
           adjacent == old # <<>> /\ Last(old)[2] + 1 = r + 1
           ranges == IF adjacent THEN [old EXCEPT ![Len(old)] = <<@[1], last>>]
                     ELSE Append(old, <<r + 1, last>>)
           kept == IF Len(ranges) > RangeLimit THEN Tail(ranges) ELSE ranges
           d == WithGap(c, r + 1, last)
           Inside(seq) == \A i \in DOMAIN seq : f < seq[i][1] /\ seq[i][1] <= seq[i][2] /\ seq[i][2] <= last
<1>1. /\ f \in Nat /\ r \in Nat /\ f <= r /\ IsFiniteSet(s) /\ \A n \in s : n \in Nat /\ f < n /\ n <= r
      /\ r = f + Cardinality(s) + c.missing
      /\ \A i \in DOMAIN old : f < old[i][1] /\ old[i][1] <= old[i][2] /\ old[i][2] <= r
      /\ CoverOf(old) \cap s = {}
      /\ c.omitted = 0 => CoverOf(old) \cup s = {n \in Nat : f < n /\ n <= r}
      /\ c.missing \in Nat /\ c.omitted \in Nat /\ old \in Seq(Nat \X Nat)
      /\ DOMAIN old = 1..Len(old) /\ Len(old) \in Nat
  BY DEF Track, Cursor
<1>2. \A i \in DOMAIN old : old[i] \in Nat \X Nat /\ old[i][1] \in Nat /\ old[i][2] \in Nat
  BY <1>1, SMTT(30)
<1>3. ranges \in Seq(Nat \X Nat) /\ Inside(ranges) /\ CoverOf(ranges) = CoverOf(old) \cup (r + 1..last)
  <2>1. CASE adjacent
    <3>1. Len(old) \in DOMAIN old /\ old[Len(old)] = <<old[Len(old)][1], r>>
      <4>1. Len(old) \in DOMAIN old /\ Last(old) = old[Len(old)]
        BY <1>1, <2>1 DEF Last
      <4>2. old[Len(old)][2] = r
        <5>1. old[Len(old)][2] + 1 = r + 1
          BY <2>1, <4>1
        <5>2. old[Len(old)][2] \in Nat /\ r \in Nat
          BY <1>1, <1>2, <4>1
        <5>3. QED
          BY <5>1, <5>2
      <4>3. QED
        BY <1>2, <4>1, <4>2
    <3>2. PICK a \in Nat : old[Len(old)] = <<a, r>> /\ f < a /\ a <= r
      <4>1. PICK i \in DOMAIN old : i = Len(old)
        BY <3>1
      <4>2. old[i] = <<old[i][1], r>> /\ old[i][1] \in Nat /\ f < old[i][1] /\ old[i][1] <= old[i][2]
        BY <1>1, <1>2, <3>1, <4>1
      <4>3. old[i][2] = r
        BY <4>2
      <4>4. QED
        BY <4>1, <4>2, <4>3
    <3>3. /\ ranges = [old EXCEPT ![Len(old)] = <<a, last>>]
          /\ DOMAIN ranges = DOMAIN old /\ ranges[Len(old)] = <<a, last>>
          /\ \A i \in DOMAIN old : i # Len(old) => ranges[i] = old[i]
      BY <1>1, <2>1, <3>1, <3>2, SMTT(30)
    <3>4. ranges \in Seq(Nat \X Nat)
      <4>1. <<a, last>> \in Nat \X Nat
        BY <3>2
      <4> HIDE DEF ranges, old
      <4>2. \A i \in 1..Len(old) : ranges[i] \in Nat \X Nat
        BY <1>1, <1>2, <3>3, <4>1
      <4>3. ranges = [i \in 1..Len(old) |-> ranges[i]]
        BY <1>1, <3>3
      <4>4. QED
        BY <1>1, <4>2, <4>3
    <3> HIDE DEF ranges, old
    <3>5. Inside(ranges)
      <4> SUFFICES ASSUME NEW i \in DOMAIN old
                   PROVE  f < ranges[i][1] /\ ranges[i][1] <= ranges[i][2] /\ ranges[i][2] <= last
        BY <3>3
      <4>1. CASE i = Len(old)
        BY <1>1, <3>2, <3>3, <4>1
      <4>2. CASE i # Len(old)
        BY <1>1, <1>2, <3>3, <4>2
      <4>3. QED
        BY <4>1, <4>2
    <3>6. a..last = (a..r) \cup (r + 1..last)
      BY <1>1, <3>2
    <3>7. CoverOf(ranges) = CoverOf(old) \cup (r + 1..last)
      <4>1. \A n : n \in CoverOf(ranges) <=> \E i \in DOMAIN old : n \in ranges[i][1]..ranges[i][2]
        BY <3>3 DEF CoverOf
      <4>2. \A n : n \in CoverOf(old) <=> \E i \in DOMAIN old : n \in old[i][1]..old[i][2]
        BY DEF CoverOf
      <4>3. \A i \in DOMAIN old : ranges[i][1]..ranges[i][2] =
              IF i = Len(old) THEN (old[i][1]..old[i][2]) \cup (r + 1..last) ELSE old[i][1]..old[i][2]
        <5>1. old[Len(old)][1] = a /\ old[Len(old)][2] = r
          BY <3>2
        <5>2. ranges[Len(old)][1] = a /\ ranges[Len(old)][2] = last
          BY <3>3
        <5>3. QED
          BY <3>3, <3>6, <5>1, <5>2
      <4>4. QED
        BY <3>1, <4>1, <4>2, <4>3
    <3>8. QED
      BY <3>4, <3>5, <3>7
  <2>2. CASE ~adjacent
    <3>1. ranges = Append(old, <<r + 1, last>>) /\ <<r + 1, last>> \in Nat \X Nat
      BY <1>1, <2>2
    <3>2. /\ ranges \in Seq(Nat \X Nat) /\ DOMAIN ranges = DOMAIN old \cup {Len(old) + 1}
          /\ ranges[Len(old) + 1] = <<r + 1, last>> /\ \A i \in DOMAIN old : ranges[i] = old[i]
      BY <1>1, <3>1
    <3> HIDE DEF ranges, old
    <3>3. Inside(ranges)
      <4> SUFFICES ASSUME NEW i \in DOMAIN old \cup {Len(old) + 1}
                   PROVE  f < ranges[i][1] /\ ranges[i][1] <= ranges[i][2] /\ ranges[i][2] <= last
        BY <3>2
      <4>1. CASE i = Len(old) + 1
        BY <1>1, <3>2, <4>1
      <4>2. CASE i \in DOMAIN old
        BY <1>1, <1>2, <3>2, <4>2, SMTT(30)
      <4>3. QED
        BY <4>1, <4>2
    <3>4. CoverOf(ranges) = CoverOf(old) \cup (r + 1..last)
      BY <3>2 DEF CoverOf
    <3>5. QED
      BY <3>2, <3>3, <3>4
  <2>3. QED
    BY <2>1, <2>2
<1>4. /\ d.missing = c.missing + (last - r) /\ d.ranges = kept
      /\ d.omitted = IF Len(ranges) > RangeLimit THEN c.omitted + 1 ELSE c.omitted
  <2>1. d = [c EXCEPT !.missing = @ + (last - (r + 1) + 1), !.ranges = kept,
                      !.omitted = IF Len(ranges) > RangeLimit THEN @ + 1 ELSE @]
    BY Zenon DEF WithGap
  <2> HIDE DEF d, kept, ranges
  <2>2. c.missing + (last - (r + 1) + 1) = c.missing + (last - r)
    BY <1>1
  <2>3. QED
    BY <2>1, <2>2 DEF Cursor
<1> HIDE DEF ranges, d
<1>5. Inside(kept) /\ CoverOf(kept) \subseteq CoverOf(ranges)
  <2>1. CASE Len(ranges) > RangeLimit
    <3>1. kept = Tail(ranges) /\ ranges # <<>>
      BY <1>3, <2>1, BridgeAssumption
    <3>2. \A i \in DOMAIN kept : i + 1 \in DOMAIN ranges /\ kept[i] = ranges[i + 1]
      BY <1>3, <3>1
    <3> HIDE DEF kept
    <3>3. QED
      BY <1>3, <3>2 DEF CoverOf
  <2>2. CASE ~(Len(ranges) > RangeLimit)
    BY <1>3, <2>2
  <2>3. QED
    BY <2>1, <2>2
<1>6. CoverOf(kept) \cap s = {}
  <2>1. (r + 1..last) \cap s = {}
    BY <1>1
  <2>2. QED
    BY <1>1, <1>3, <1>5, <2>1
<1>7. d.omitted = 0 => CoverOf(kept) \cup s = {n \in Nat : f < n /\ n <= last}
  <2> SUFFICES ASSUME d.omitted = 0 PROVE CoverOf(kept) \cup s = {n \in Nat : f < n /\ n <= last}
    OBVIOUS
  <2>1. kept = ranges /\ c.omitted = 0
    BY <1>1, <1>4
  <2>2. CoverOf(kept) \cup s = {n \in Nat : f < n /\ n <= r} \cup (r + 1..last)
    BY <1>1, <1>3, <2>1
  <2>3. QED
    BY <1>1, <2>2
<1>8. last = f + Cardinality(s) + d.missing
  <2>1. Cardinality(s) \in Nat
    BY <1>1, FS_CardinalityType
  <2>2. QED
    BY <1>1, <1>4, <2>1
<1>9. f <= last /\ \A n \in s : n \in Nat /\ f < n /\ n <= last
  BY <1>1
<1> HIDE DEF kept
<1>10. Track(d, s, f, last)
  BY <1>1, <1>4, <1>5, <1>6, <1>7, <1>8, <1>9 DEF Track
<1>11. QED
  BY <1>10 DEF d

-----------------------------------------------------------------------------
(* The client's invariant: balanced books, an exact track of the lineage   *)
(* it follows, and a roster on show that is as new as its cursor.          *)
ClientInv ==
  /\ Books(cursor, addressed, projected, projections)
  /\ Following => Track(cursor, seen, floor, cursor.applied)
  /\ shown \in [revision: Nat, last: Nat] /\ (Following => shown.last = cursor.applied)

(* A poll enters what it observed in the books.                            *)
LEMMA PollBooks ==
  ASSUME Books(cursor, addressed, projected, projections),
         NEW snapshot, Published(snapshot), Poll(snapshot)
  PROVE  Books(cursor, addressed, projected, projections)'
<1> DEFINE base == Base(snapshot)
           all == Observations(snapshot)
           observed == Addressed(all)
           known == Known(all, snapshot)
           resolved == Resolved(snapshot)
           waiting == (base.deferred \ resolved) \cup (observed \ known)
           kept == Newest(waiting)
<1>1. snapshot \in Snapshot
  BY DEF Published
<1>2. Books(base, OpenedAddressed(snapshot), OpenedProjected(snapshot), OpenedCount(snapshot))
  BY <1>1, OpenedBooks
<1>3. base \in Cursor /\ IsFiniteSet(base.deferred)
  BY <1>2 DEF Books
<1>4. /\ observed \in SUBSET Event /\ IsFiniteSet(observed) /\ OnePerNumber(observed)
      /\ \A e \in observed : e.sequence > base.applied
  <2>1. /\ all \in SUBSET Event /\ IsFiniteSet(all) /\ OnePerNumber(all)
        /\ \A e \in all : e.sequence > base.applied
    BY <1>1, ObservedOnce
  <2>2. observed \subseteq all
    BY DEF Addressed
  <2> HIDE DEF all, observed, base
  <2>3. QED
    BY <2>1, <2>2, FS_Subset DEF OnePerNumber
<1>5. known \in SUBSET observed /\ resolved \in SUBSET base.deferred /\ kept \in SUBSET waiting
  <2>1. NoThread \notin snapshot.known
    BY <1>1, StreamAssumption DEF Snapshot
  <2>2. known \in SUBSET observed
    BY <2>1 DEF Known, Addressed
  <2>3. QED
    BY <2>2 DEF Resolved, Newest
<1>6. PICK next : next = cursor'
  OBVIOUS
<1>7. /\ next \in Cursor /\ base.applied <= next.applied
      /\ \A e \in observed : e.sequence <= next.applied
      /\ next.deferred = kept /\ next.dropped = base.dropped + Cardinality(waiting \ kept)
  BY <1>3, <1>6, Committed DEF Addressed
<1>8. /\ addressed' = OpenedAddressed(snapshot) \cup Numbers(observed)
      /\ projected' = OpenedProjected(snapshot) \cup Numbers(resolved \cup known)
      /\ projections' = OpenedCount(snapshot) + Cardinality(resolved \cup known)
  BY Zenon DEF Poll, OpenedAddressed, OpenedProjected, OpenedCount
<1> HIDE DEF base, all, observed, known, resolved, kept, waiting
<1>9. PICK w : w = waiting
  OBVIOUS
<1>10. w = (base.deferred \ resolved) \cup (observed \ known)
  BY <1>9 DEF waiting
<1>11. Books(next, OpenedAddressed(snapshot) \cup Numbers(observed),
             OpenedProjected(snapshot) \cup Numbers(resolved \cup known),
             OpenedCount(snapshot) + Cardinality(resolved \cup known))
  BY <1>2, <1>4, <1>5, <1>7, <1>9, <1>10, Posted
<1>12. Books(next, addressed', projected', projections')
  BY <1>8, <1>11
<1>13. QED
  BY <1>6, <1>12 DEF Books

(* A poll of a lineage reports what it cannot observe as missing.          *)
LEMMA PollTrack ==
  ASSUME Books(cursor, addressed, projected, projections),
         Following => Track(cursor, seen, floor, cursor.applied),
         NEW snapshot, Published(snapshot), Poll(snapshot), snapshot.stream # NoStream
  PROVE  Track(cursor, seen, floor, cursor.applied)'
<1> DEFINE base == Base(snapshot)
           gapped == Gapped(snapshot)
           U == Unavailable(snapshot)
           r == IF U > base.applied THEN U ELSE base.applied
           s == OpenedSeen(snapshot)
<1>1. base \in Cursor /\ IsFiniteSet(base.deferred) /\ base.applied \in Nat
  <2>1. Books(base, OpenedAddressed(snapshot), OpenedProjected(snapshot), OpenedCount(snapshot))
    BY OpenedBooks DEF Published
  <2>2. QED
    BY <2>1 DEF Books, Cursor
<1>2. U \in Nat /\ U <= snapshot.last /\ snapshot.last \in Nat
  BY UnavailableBound
<1>3. /\ gapped \in Cursor /\ base.applied <= snapshot.last /\ cursor'.applied = snapshot.last
      /\ cursor'.missing = gapped.missing /\ cursor'.ranges = gapped.ranges
      /\ cursor'.omitted = gapped.omitted
  BY <1>1, Committed
<1>4. r \in Nat /\ r <= snapshot.last
  BY <1>1, <1>2, <1>3
<1>5. /\ seen' = s \cup Numbers(Observations(snapshot))
      /\ floor' = IF SameLineage(snapshot) THEN floor ELSE IF snapshot.prior THEN U ELSE 0
  BY Zenon DEF Poll, OpenedSeen
<1>6. Numbers(Observations(snapshot)) = {n \in Nat : r < n /\ n <= snapshot.last}
  BY <1>1, WindowObserved
<1>7. ASSUME NEW f, Track(base, s, f, base.applied), SameLineage(snapshot) \/ ~snapshot.prior
      PROVE  Track(gapped, s, f, r)
  <2>1. CASE U > base.applied
    <3>1. gapped = WithGap(base, base.applied + 1, U) /\ r = U
      BY <1>7, <2>1 DEF Gapped
    <3>2. base.applied < U
      BY <1>1, <1>2, <2>1
    <3>3. PICK b : b = base
      OBVIOUS
    <3>4. Track(WithGap(b, b.applied + 1, U), s, f, U)
      <4> HIDE DEF base, U
      <4>1. QED
        BY <1>1, <1>2, <1>7, <3>2, <3>3, TrackGap
    <3>5. QED
      BY <3>1, <3>3, <3>4
  <2>2. CASE ~(U > base.applied)
    BY <1>7, <2>2 DEF Gapped
  <2>3. QED
    BY <2>1, <2>2
<1>8. Track(gapped, s, floor', r)
  <2>1. CASE SameLineage(snapshot)
    <3>1. base = cursor /\ s = seen /\ floor' = floor
      BY <1>5, <2>1 DEF Base, OpenedSeen
    <3>2. Following
      BY <2>1 DEF Following, SameLineage
    <3>3. QED
      BY <1>7, <2>1, <3>1, <3>2
  <2>2. CASE ~SameLineage(snapshot)
    <3>1. /\ s = {} /\ base.applied = 0 /\ base.missing = 0 /\ base.ranges = <<>> /\ base.omitted = 0
      BY <2>2 DEF Base, OpenedSeen, NoCursor
    <3>2. IsFiniteSet({}) /\ Cardinality({}) = 0
      BY FS_EmptySet
    <3>3. CoverOf(<<>>) = {}
      BY DEF CoverOf
    <3>4. ASSUME NEW n \in Nat PROVE Track(base, {}, n, n)
      <4> HIDE DEF base
      <4>1. {m \in Nat : n < m /\ m <= n} = {}
        OBVIOUS
      <4>2. QED
        BY <3>1, <3>2, <3>3, <4>1 DEF Track
    <3>5. CASE snapshot.prior
      <4>1. gapped = base /\ floor' = U
        BY <1>5, <2>2, <3>5 DEF Gapped
      <4>2. r = U
        BY <1>2, <3>1
      <4>3. QED
        BY <1>2, <3>1, <3>4, <4>1, <4>2
    <3>6. CASE ~snapshot.prior
      <4>1. floor' = 0
        BY <1>5, <2>2, <3>6
      <4>2. Track(base, s, 0, base.applied)
        BY <3>1, <3>4
      <4>3. QED
        BY <1>7, <3>6, <4>1, <4>2
    <3>7. QED
      BY <3>5, <3>6
  <2>3. QED
    BY <2>1, <2>2
<1> HIDE DEF r, s, gapped, base, U
<1>9. PICK f : f = floor'
  OBVIOUS
<1>10. Track(gapped, s \cup {n \in Nat : r < n /\ n <= snapshot.last}, f, snapshot.last)
  BY <1>2, <1>3, <1>4, <1>8, <1>9, TrackObserved
<1>11. Track(gapped, seen', floor', snapshot.last)
  BY <1>5, <1>6, <1>9, <1>10
<1>12. PICK c : c = cursor'
  OBVIOUS
<1>13. Track(c, seen', floor', c.applied)
  BY <1>3, <1>11, <1>12 DEF Track
<1>14. QED
  BY <1>12, <1>13 DEF Track

(* A poll keeps the client's invariant.                                    *)
LEMMA PollStep ==
  ASSUME ClientInv, NEW snapshot, Published(snapshot), Poll(snapshot)
  PROVE  /\ ClientInv' /\ cursor'.stream = snapshot.stream
         /\ Following /\ cursor'.stream = cursor.stream => snapshot.last >= shown.last
<1>1. /\ Books(cursor, addressed, projected, projections)
      /\ Following => Track(cursor, seen, floor, cursor.applied)
      /\ Following => shown.last = cursor.applied
  BY DEF ClientInv
<1>2. Base(snapshot) \in Cursor /\ IsFiniteSet(Base(snapshot).deferred) /\ cursor \in Cursor
  BY <1>1, OpenedBooks DEF Books, Published
<1>3. /\ cursor'.stream = snapshot.stream /\ Base(snapshot).applied <= cursor'.applied
      /\ snapshot.stream # NoStream => Base(snapshot).applied <= snapshot.last /\ cursor'.applied = snapshot.last
  BY <1>2, Committed
<1>4. /\ shown' = [revision |-> snapshot.revision, last |-> snapshot.last]
      /\ snapshot.last \in Nat /\ snapshot.revision \in Nat
  BY DEF Poll, Published, Snapshot
<1>5. Books(cursor, addressed, projected, projections)'
  BY <1>1, PollBooks
<1>6. Following' => Track(cursor, seen, floor, cursor.applied)'
  BY <1>1, <1>3, PollTrack DEF Following
<1>7. Following' => shown'.last = cursor'.applied
  BY <1>3, <1>4 DEF Following
<1>8. ASSUME Following, cursor'.stream = cursor.stream PROVE snapshot.last >= shown.last
  <2>1. snapshot.stream # NoStream /\ Base(snapshot) = cursor
    BY <1>3, <1>8 DEF Following, Base, SameLineage
  <2>2. QED
    BY <1>1, <1>2, <1>3, <1>4, <1>8, <2>1 DEF Cursor
<1>9. QED
  BY <1>3, <1>4, <1>5, <1>6, <1>7, <1>8 DEF ClientInv

(* So does every step.                                                     *)
LEMMA ClientStep == IInv /\ ClientInv /\ [Next]_vars => ClientInv'
<1> SUFFICES ASSUME IInv, ClientInv, [Next]_vars PROVE ClientInv'
  OBVIOUS
<1>1. up => Published(live)
  BY DEF IInv, StreamType, Fresh, Published
<1>2. Published(saved)
  BY DEF IInv, StreamType, Fresh, Published
<1>3. CASE UNCHANGED bridgeVars
  BY <1>3 DEF ClientInv, bridgeVars, Books, Track, Following
<1>4. CASE PollLive
  BY <1>1, <1>4, PollStep DEF PollLive
<1>5. CASE PollSaved
  BY <1>2, <1>5, PollStep DEF PollSaved
<1>6. QED
  BY <1>3, <1>4, <1>5 DEF Next, vars

(* The client's invariant holds in every reachable state, whatever crashes *)
(* and restarts of the host it polls across.                               *)
THEOREM ClientInvariance == Spec => []ClientInv
<1>1. Init => ClientInv
  <2> SUFFICES ASSUME Init PROVE ClientInv
    OBVIOUS
  <2>1. /\ cursor = NoCursor /\ projected = {} /\ projections = 0
        /\ addressed = {} /\ floor = 0 /\ shown = [revision |-> 0, last |-> 0]
    BY DEF Init
  <2>2. NoCursor \in Cursor /\ NoCursor.deferred = {} /\ NoCursor.dropped = 0
        /\ ~NoCursor.initialized
    BY DEF Cursor, NoCursor, NoStream
  <2>3. IsFiniteSet({}) /\ Cardinality({}) = 0
    BY FS_EmptySet
  <2>4. Books(cursor, addressed, projected, projections)
    BY <2>1, <2>2, <2>3 DEF Books, OnePerNumber, Numbers
  <2>5. QED
    BY <2>1, <2>2, <2>4 DEF ClientInv, Following
<1>2. IInv /\ ClientInv /\ [Next]_vars => ClientInv'
  BY ClientStep
<1>3. QED
  BY <1>1, <1>2, StreamInvariance, PTL DEF Spec

(* Nothing is lost silently: in the lineage a client follows, each number  *)
(* up to the cursor was observed or is reported missing, never both        *)
(* (reconcile_snapshot, add_gap), with any window and any range limit.     *)
THEOREM GapsExactCorrect == Spec => []GapsExact
<1>1. ClientInv => GapsExact
  <2> SUFFICES ASSUME ClientInv, Following PROVE GapsExact
    BY DEF GapsExact
  <2>1. Track(cursor, seen, floor, cursor.applied)
    BY DEF ClientInv
  <2>2. Covered = CoverOf(cursor.ranges)
    BY DEF Covered, CoverOf
  <2>3. floor + 1..cursor.applied = {n \in Nat : floor < n /\ n <= cursor.applied}
    BY <2>1 DEF Track
  <2>4. QED
    BY <2>1, <2>2, <2>3 DEF Track, GapsExact
<1>2. QED
  BY <1>1, ClientInvariance, PTL

(* Each event about a conversation that a client observed was projected,   *)
(* waits for its conversation, or is counted as dropped (defer), with any  *)
(* limit on what waits.                                                    *)
THEOREM DeferredAccountedCorrect == Spec => []DeferredAccounted
<1>1. ClientInv => DeferredAccounted
  BY DEF ClientInv, Books, DeferredAccounted
<1>2. QED
  BY <1>1, ClientInvariance, PTL

(* No event is projected twice in a lineage, however polls of the live     *)
(* host and of its file interleave.                                        *)
THEOREM ProjectedOnceCorrect == Spec => []ProjectedOnce
<1>1. ClientInv => ProjectedOnce
  BY DEF ClientInv, Books, ProjectedOnce
<1>2. QED
  BY <1>1, ClientInvariance, PTL

(* Rosters of one lineage.  Of the host's two, in memory and on disk, and  *)
(* the one on show, none that changed less often has seen more events; the *)
(* one in memory is the newest.                                            *)
Behind(a, b) == a.revision <= b.revision /\ a.last <= b.last

InOrder ==
  /\ cursor.stream <= streams
  /\ up /\ live.stream = saved.stream => Behind(saved, live)
  /\ Following =>
       /\ up /\ live.stream = cursor.stream => Behind(shown, live)
       /\ saved.stream = cursor.stream /\ saved.revision < shown.revision => saved.last <= shown.last

(* Streams and revisions are numbers.                                      *)
LEMMA RostersTyped ==
  ASSUME IInv, ClientInv
  PROVE  /\ live.stream \in Nat /\ saved.stream \in Nat /\ cursor.stream \in Nat /\ streams \in Nat
         /\ live.revision \in Nat /\ saved.revision \in Nat /\ shown.revision \in Nat
         /\ live.last \in Nat /\ saved.last \in Nat /\ shown.last \in Nat
         /\ live.stream <= streams /\ saved.stream <= streams
<1>1. live \in Snapshot /\ saved \in Snapshot /\ streams \in 0..MaxStreams /\ MaxStreams \in Nat
  BY StreamAssumption DEF IInv, StreamType
<1>2. shown \in [revision: Nat, last: Nat] /\ cursor \in Cursor
  BY DEF ClientInv, Books
<1>3. QED
  BY <1>1, <1>2 DEF IInv, Fresh, Snapshot, Cursor

(* The host's steps: a lineage begun anew is on no screen yet.             *)
LEMMA StreamInOrder == ASSUME IInv, ClientInv, InOrder, StreamNext, UNCHANGED bridgeVars PROVE InOrder'
<1>1. Following' = Following /\ cursor' = cursor /\ shown' = shown
  BY DEF Following, bridgeVars
<1>2. CASE Restart
  <2>1. saved \in Snapshot /\ streams + 1 \in 1..MaxStreams /\ written \in BOOLEAN
        /\ (saved.stream # NoStream => Valid(saved) /\ written)
    BY <1>2, StreamAssumption DEF Restart, IInv, StreamType, Fresh
  <2>2. live'.stream = streams + 1 /\ saved' = live' /\ streams' = streams + 1 /\ live' \in Snapshot
    BY <1>2, <2>1, InitializedValid DEF Restart
  <2>3. live'.stream # cursor.stream /\ cursor.stream <= streams'
    BY <2>2, RostersTyped DEF InOrder
  <2>4. Behind(saved, live)'
    BY <2>2 DEF Behind, Snapshot
  <2>5. QED
    BY <1>1, <2>2, <2>3, <2>4 DEF InOrder
<1>3. ASSUME NEW thread \in Threads \cup {NoThread}, Receive(thread) PROVE InOrder'
  <2>1. /\ up /\ live \in Snapshot /\ Valid(live) /\ received + 1 \in 1..MaxEvents
        /\ live.last = MaxSequence => streams + 1 \in 0..MaxStreams
        /\ live' = Appended(live, thread, received + 1, streams + 1) /\ streams + 1 \in Nat
        /\ streams' = IF live.last = MaxSequence THEN streams + 1 ELSE streams
        /\ UNCHANGED <<up, saved>>
    BY <1>3, StreamAssumption DEF Receive, IInv, StreamType, Fresh
  <2>2. /\ live'.stream = IF live.last = MaxSequence THEN streams + 1 ELSE live.stream
        /\ live'.last = IF live.last = MaxSequence THEN 1 ELSE live.last + 1
        /\ live'.revision = live.revision + 1
    <3> DEFINE id == received + 1
    <3>1. /\ live \in Snapshot /\ Valid(live) /\ id \in 1..MaxEvents /\ streams + 1 \in Nat
          /\ live.last = MaxSequence => streams + 1 \in 0..MaxStreams
          /\ live' = Appended(live, thread, id, streams + 1)
      BY <2>1
    <3>2. live.last \in Nat /\ live.revision \in Nat /\ live.stream \in Nat
      BY RostersTyped
    <3> HIDE DEF id
    <3>3. /\ live' \in Snapshot /\ Valid(live')
          /\ live'.stream = IF live.last = MaxSequence THEN streams + 1 ELSE live.stream
          /\ live'.last = IF live.last = MaxSequence THEN 1 ELSE live.last + 1
          /\ live'.revision = live.revision + 1
          /\ \A i \in DOMAIN live'.events :
               \/ live'.events[i] = [sequence |-> live'.last, thread |-> thread, id |-> id]
               \/ /\ live.last # MaxSequence
                  /\ \E j \in DOMAIN live.events : live'.events[i] = live.events[j]
      BY <3>1, <3>2, AppendedValid
    <3>4. QED
      BY <3>3
  <2>3. CASE live.last = MaxSequence
    <3>1. live'.stream # cursor.stream /\ live'.stream # saved.stream /\ cursor.stream <= streams'
      BY <2>1, <2>2, <2>3, RostersTyped DEF InOrder
    <3>2. QED
      BY <1>1, <2>1, <3>1 DEF InOrder
  <2>4. CASE live.last # MaxSequence
    <3>1. /\ live'.stream = live.stream /\ live'.last = live.last + 1 /\ streams' = streams
          /\ live'.revision = live.revision + 1
      BY <2>1, <2>2, <2>4
    <3>2. (Behind(saved, live) => Behind(saved, live)') /\ (Behind(shown, live) => Behind(shown, live)')
      BY <1>1, <2>1, <3>1, RostersTyped DEF Behind
    <3>3. QED
      BY <1>1, <2>1, <3>1, <3>2 DEF InOrder
  <2>5. QED
    BY <2>3, <2>4
<1>4. CASE (\E thread \in Threads : Learn(thread)) \/ Revise
  <2>1. /\ UNCHANGED <<up, saved, streams>> /\ live'.stream = live.stream /\ live'.last = live.last
        /\ live'.revision = live.revision + 1
    BY <1>4 DEF Learn, Revise, IInv, StreamType, Snapshot
  <2>2. (Behind(saved, live) => Behind(saved, live)') /\ (Behind(shown, live) => Behind(shown, live)')
    BY <1>1, <2>1, RostersTyped DEF Behind
  <2>3. QED
    BY <1>1, <2>1, <2>2 DEF InOrder
<1>5. CASE SaveState
  <2>1. up /\ saved' = live /\ UNCHANGED <<up, live, streams>>
    BY <1>5 DEF SaveState
  <2>2. Behind(saved, live)'
    BY <2>1, RostersTyped DEF Behind
  <2>3. QED
    BY <1>1, <2>1, <2>2, RostersTyped DEF InOrder, Behind
<1>6. CASE StreamCrash
  BY <1>1, <1>6 DEF StreamCrash, InOrder
<1>7. QED
  BY <1>2, <1>3, <1>4, <1>5, <1>6 DEF StreamNext

(* Polls show one of the host's two rosters, and none of the lineage that  *)
(* is older by an event.                                                   *)
LEMMA PollInOrder ==
  ASSUME IInv, ClientInv, InOrder, PollLive \/ PollSaved
  PROVE  /\ InOrder'
         /\ Following /\ cursor'.stream = cursor.stream =>
              shown'.revision >= shown.revision \/ shown'.last = shown.last
<1>1. UNCHANGED <<up, live, saved, streams>>
  BY DEF PollLive, PollSaved, streamVars
<1>2. Published(saved) /\ (up => Published(live))
  BY DEF IInv, StreamType, Fresh, Published
<1>3. CASE PollLive
  <2>1. up /\ Poll(live) /\ cursor'.stream = live.stream
    BY <1>2, <1>3, PollStep DEF PollLive
  <2>2. shown' = [revision |-> live.revision, last |-> live.last]
    BY <2>1 DEF Poll
  <2>3. cursor'.stream <= streams' /\ Behind(shown, live)'
    BY <1>1, <2>1, <2>2, RostersTyped DEF Behind
  <2>4. saved.stream = live.stream => saved.last <= live.last
    BY <2>1 DEF InOrder, Behind
  <2>5. InOrder'
    BY <1>1, <2>1, <2>2, <2>3, <2>4 DEF InOrder, Behind
  <2>6. Following /\ cursor'.stream = cursor.stream => shown'.revision >= shown.revision
    BY <2>1, <2>2, RostersTyped DEF InOrder, Behind
  <2>7. QED
    BY <2>5, <2>6
<1>4. CASE PollSaved
  <2>1. /\ Poll(saved) /\ cursor'.stream = saved.stream
        /\ Following /\ cursor'.stream = cursor.stream => saved.last >= shown.last
    BY <1>2, <1>4, PollStep DEF PollSaved
  <2>2. shown' = [revision |-> saved.revision, last |-> saved.last]
    BY <2>1 DEF Poll
  <2>3. InOrder'
    BY <1>1, <2>1, <2>2, RostersTyped DEF InOrder, Behind
  <2>4. ASSUME Following, cursor'.stream = cursor.stream
        PROVE  shown'.revision >= shown.revision \/ shown'.last = shown.last
    BY <2>1, <2>2, <2>4, RostersTyped DEF InOrder
  <2>5. QED
    BY <2>3, <2>4
<1>5. QED
  BY <1>3, <1>4

(* Within a lineage an older roster takes the place of a newer one only    *)
(* when no event came between the two (reconcile_snapshot's comparison of  *)
(* numbers), whatever changed without a number in between.                 *)
THEOREM ViewAdvancesCorrect == Spec => ViewAdvances
<1>1. Init => InOrder
  BY DEF Init, StreamInit, InOrder, Following, NoCursor, NoStream
<1>2. IInv /\ ClientInv /\ InOrder /\ [Next]_vars => InOrder'
  <2> SUFFICES ASSUME IInv, ClientInv, InOrder, [Next]_vars PROVE InOrder'
    OBVIOUS
  <2>1. CASE UNCHANGED vars
    BY <2>1 DEF vars, streamVars, bridgeVars, InOrder, Following, Behind
  <2>2. QED
    BY <2>1, StreamInOrder, PollInOrder DEF Next
<1>3. IInv /\ ClientInv /\ InOrder /\ [Next]_vars =>
        [Following /\ cursor'.stream = cursor.stream =>
           shown'.revision >= shown.revision \/ shown'.last = shown.last]_vars
  <2> SUFFICES ASSUME IInv, ClientInv, InOrder, Next
               PROVE  Following /\ cursor'.stream = cursor.stream =>
                        shown'.revision >= shown.revision \/ shown'.last = shown.last
    OBVIOUS
  <2>1. CASE UNCHANGED bridgeVars
    BY <2>1, RostersTyped DEF bridgeVars
  <2>2. QED
    BY <2>1, PollInOrder DEF Next
<1>4. QED
  BY <1>1, <1>2, <1>3, StreamInvariance, ClientInvariance, PTL DEF Spec, ViewAdvances

-----------------------------------------------------------------------------
(* The state file.                                                         *)

(* A save that is under way.                                               *)
SaveInOrder ==
  /\ host \in {"down", "loaded"} => pc = "idle"
  /\ host = "loaded" => initialized
  /\ fault => pc \in {"idle", "check"}
  /\ pc \notin {"sync", "publish", "verify"} => staged = NotStaged
  /\ pc \in {"sync", "publish"} => staged = memory
  /\ pc = "publish" => synced

(* What others hold is a snapshot; once a save was acknowledged there is   *)
(* an endpoint; and the file that a save has renamed is the one it wrote,  *)
(* where others have not taken it away.                                    *)
CopiesInOrder ==
  /\ backup # Absent => backup.kind = "valid"
  /\ acked > 0 => endpoint
  /\ pc = "dirsync" => Recoverable(file).version >= memory /\ Recoverable(file).synced

(* A candidate that no repair accounts for is noticed by the next step of  *)
(* the save that left it.                                                  *)
EvidenceInOrder ==
  ~fault /\ host # "down" => candidates <= repairs \/ (pc = "latch" /\ file.kind # "valid")

StorageInv ==
  /\ StorageTypeOK /\ SaveInOrder /\ CopiesInOrder /\ EvidenceInOrder
  /\ AckedSurvives /\ MemoryCurrent /\ CandidatesBounded

(* What is put into state.json is a file.                                  *)
LEMMA FileMade ==
  /\ \A k \in FileKinds, v \in 0..MaxVersion, s \in BOOLEAN :
       [kind |-> k, version |-> v, synced |-> s] \in File
  /\ \A f \in File : /\ f.kind \in FileKinds /\ f.version \in 0..MaxVersion
                     /\ f.synced \in BOOLEAN
                     /\ [f EXCEPT !.synced = TRUE] \in File
                     /\ [f EXCEPT !.kind = "corrupt", !.synced = TRUE] \in File
  BY DEF File, FileKinds

LEMMA AbsentFile == Absent \in File
<1>1. 0 \in 0..MaxVersion
  BY StorageAssumption
<1>2. "absent" \in FileKinds /\ TRUE \in BOOLEAN
  BY DEF FileKinds
<1>3. QED
  BY <1>1, <1>2, FileMade DEF Absent

(* The initial state satisfies the inductive invariant.                    *)
LEMMA InitInvariant == StorageInit => StorageInv
<1> SUFFICES ASSUME StorageInit PROVE StorageInv
  OBVIOUS
<1> USE DEF StorageInit
<1>1. Absent \in File
  BY AbsentFile
<1>2. StorageTypeOK
  <2>1. initialized \in BOOLEAN /\ fault \in BOOLEAN /\ endpoint \in BOOLEAN /\ synced \in BOOLEAN
    BY Zenon
  <2>2. /\ memory \in 0..MaxVersion /\ acked \in 0..MaxVersion /\ staged \in 0..MaxVersion
        /\ candidates \in Nat /\ disruptions \in 0..MaxDisruption /\ repairs \in Nat
    BY StorageAssumption DEF NotStaged
  <2>3. QED
    BY <1>1, <2>1, <2>2 DEF StorageTypeOK
<1>3. SaveInOrder /\ CopiesInOrder /\ EvidenceInOrder
  BY DEF SaveInOrder, CopiesInOrder, EvidenceInOrder
<1>4. AckedSurvives /\ MemoryCurrent /\ CandidatesBounded
  BY DEF AckedSurvives, MemoryCurrent, CandidatesBounded
<1>5. QED
  BY <1>2, <1>3, <1>4 DEF StorageInv

-----------------------------------------------------------------------------
(* Each step keeps the types, and a serving host its endpoint.             *)
LEMMA TypeStep == StorageInv /\ [StorageNext]_storageVars => StorageTypeOK'
<1> SUFFICES ASSUME StorageInv, [StorageNext]_storageVars PROVE StorageTypeOK'
  OBVIOUS
<1> USE StorageAssumption DEF StorageInv, StorageTypeOK, SaveInOrder, CopiesInOrder, NotStaged
<1>1. CASE Load
  <2>1. initialized' \in BOOLEAN /\ fault' \in BOOLEAN
    BY <1>1, Zenon DEF Load
  <2>2. memory' \in 0..MaxVersion
    <3>1. file.version \in 0..MaxVersion
      BY FileMade
    <3>2. file.version < MaxVersion /\ memory' = file.version + 1
      BY <1>1 DEF Load
    <3>3. QED
      BY <3>1, <3>2
  <2>3. QED
    BY <1>1, <2>1, <2>2 DEF Load, tempVars
<1>2. CASE PublishEndpoint
  BY <1>2 DEF PublishEndpoint, processVars, tempVars, othersVars
<1>3. CASE BeginSave
  BY <1>3 DEF BeginSave, tempVars, othersVars
<1>4. CASE CheckHealth
  BY <1>4 DEF CheckHealth, tempVars, othersVars
<1>5. CASE Check
  BY <1>5 DEF Check, Failed, processVars, tempVars, othersVars
<1>6. CASE Stage
  BY <1>6 DEF Stage, processVars, tempVars, othersVars
<1>7. CASE SyncStaged
  <2>1. synced' \in BOOLEAN
    BY <1>7 DEF SyncStaged
  <2>2. staged' \in 0..MaxVersion
    BY <1>7 DEF SyncStaged
  <2>3. QED
    BY <1>7, <2>1, <2>2 DEF SyncStaged, processVars, othersVars
<1>8. CASE Publish
  <2>1. "valid" \in FileKinds
    BY DEF FileKinds
  <2>2. file' \in File
    <3>1. staged \in 0..MaxVersion /\ synced \in BOOLEAN /\ file \in File
      OBVIOUS
    <3>2. [kind |-> "valid", version |-> staged, synced |-> synced] \in File
      BY <2>1, <3>1, FileMade, Zenon
    <3>3. file' = [kind |-> "valid", version |-> staged, synced |-> synced] \/ file' = file
      BY <1>8, Zenon DEF Publish
    <3>4. QED
      BY <3>1, <3>2, <3>3, Zenon
  <2>3. staged' \in 0..MaxVersion
    <3>1. 0 \in 0..MaxVersion /\ staged \in 0..MaxVersion
      OBVIOUS
    <3>2. staged' = NotStaged \/ staged' = staged
      BY <1>8, Zenon DEF Publish
    <3>3. QED
      BY <3>1, <3>2, Zenon
  <2>4. QED
    BY <1>8, <2>2, <2>3 DEF Publish, processVars, othersVars
<1>9. CASE SyncDirectory
  BY <1>9 DEF SyncDirectory, tempVars, othersVars
<1>10. CASE Verify
  BY <1>10 DEF Verify, processVars, othersVars
<1>11. CASE Latch
  BY <1>11 DEF Latch, Failed, tempVars, othersVars
<1>12. CASE Crash
  BY <1>12 DEF Crash, Stopped, processVars, othersVars
<1>13. CASE PowerLoss
  <2>1. file' \in File /\ durable' \in File
    BY <1>13, FileMade DEF PowerLoss
  <2>2. QED
    BY <1>13, <2>1 DEF PowerLoss, Stopped, processVars, othersVars
<1>14. CASE Disrupt
  BY <1>14 DEF Disrupt, processVars, tempVars, File, FileKinds
<1>15. CASE Repair
  <2>1. Absent \in File
    BY AbsentFile
  <2>2. file' \in File /\ durable' \in File /\ backup' \in File
    BY <1>15, <2>1, FileMade DEF Repair
  <2>3. repairs' \in Nat
    BY <1>15 DEF Repair
  <2>4. QED
    BY <1>15, <2>2, <2>3 DEF Repair, processVars, tempVars
<1>16. CASE UNCHANGED storageVars
  BY <1>16 DEF storageVars, processVars, tempVars, othersVars
<1>17. QED
  BY <1>1, <1>2, <1>3, <1>4, <1>5, <1>6, <1>7, <1>8, <1>9, <1>10, <1>11, <1>12, <1>13, <1>14,
     <1>15, <1>16 DEF StorageNext, Save

(* Each step leaves a save, its copies and its evidence in order.          *)
LEMMA OrderStep ==
  StorageInv /\ [StorageNext]_storageVars => SaveInOrder' /\ EvidenceInOrder' /\ CandidatesBounded'
<1> SUFFICES ASSUME StorageInv, [StorageNext]_storageVars
             PROVE SaveInOrder' /\ EvidenceInOrder' /\ CandidatesBounded'
  OBVIOUS
<1> USE StorageAssumption
    DEF StorageInv, StorageTypeOK, SaveInOrder, EvidenceInOrder, CandidatesBounded, NotStaged
<1>1. CASE Load
  BY <1>1 DEF Load, tempVars
<1>2. CASE PublishEndpoint
  BY <1>2 DEF PublishEndpoint, processVars, tempVars, othersVars
<1>3. CASE BeginSave
  BY <1>3 DEF BeginSave, tempVars, othersVars
<1>4. CASE CheckHealth
  BY <1>4 DEF CheckHealth, tempVars, othersVars
<1>5. CASE Check
  <2>1. SaveInOrder'
    <3>1. CASE Refused
      BY <1>5, <3>1 DEF Check, Failed, tempVars
    <3>2. CASE ~Refused
      BY <1>5, <3>2 DEF Check, processVars, tempVars, Refused
    <3>3. QED
      BY <3>1, <3>2
  <2>2. EvidenceInOrder' /\ CandidatesBounded'
    <3>1. CASE Refused
      BY <1>5, <3>1 DEF Check, Failed, othersVars
    <3>2. CASE ~Refused
      BY <1>5, <3>2 DEF Check, processVars, othersVars
    <3>3. QED
      BY <3>1, <3>2
  <2>3. QED
    BY <2>1, <2>2
<1>6. CASE Stage
  BY <1>6 DEF Stage, processVars, tempVars, othersVars
<1>7. CASE SyncStaged
  BY <1>7 DEF SyncStaged, processVars, othersVars
<1>8. CASE Publish
  BY <1>8 DEF Publish, processVars, othersVars
<1>9. CASE SyncDirectory
  BY <1>9 DEF SyncDirectory, tempVars, othersVars
<1>10. CASE Verify
  BY <1>10 DEF Verify, processVars, othersVars
<1>11. CASE Latch
  BY <1>11 DEF Latch, Failed, tempVars, othersVars
<1>12. CASE Crash
  BY <1>12 DEF Crash, Stopped, processVars, othersVars
<1>13. CASE PowerLoss
  BY <1>13 DEF PowerLoss, Stopped, processVars, othersVars
<1>14. CASE Disrupt
  BY <1>14 DEF Disrupt, processVars, tempVars
<1>15. CASE Repair
  BY <1>15 DEF Repair, processVars, tempVars
<1>16. CASE UNCHANGED storageVars
  BY <1>16 DEF storageVars, processVars, tempVars, othersVars
<1>17. QED
  BY <1>1, <1>2, <1>3, <1>4, <1>5, <1>6, <1>7, <1>8, <1>9, <1>10, <1>11, <1>12, <1>13, <1>14,
     <1>15, <1>16 DEF StorageNext, Save

(* Each step keeps what was acknowledged, in the file or with whoever took *)
(* it away.                                                                *)
LEMMA SurvivalStep ==
  StorageInv /\ [StorageNext]_storageVars => AckedSurvives' /\ CopiesInOrder' /\ MemoryCurrent'
<1> SUFFICES ASSUME StorageInv, [StorageNext]_storageVars
             PROVE AckedSurvives' /\ CopiesInOrder' /\ MemoryCurrent'
  OBVIOUS
<1> USE StorageAssumption
    DEF StorageInv, StorageTypeOK, SaveInOrder, CopiesInOrder, AckedSurvives, MemoryCurrent,
        Recoverable, NotStaged
<1>1. CASE Load
  BY <1>1 DEF Load, Loadable, tempVars, File
<1>2. CASE PublishEndpoint
  BY <1>2 DEF PublishEndpoint, processVars, tempVars, othersVars
<1>3. CASE BeginSave
  BY <1>3 DEF BeginSave, tempVars, othersVars
<1>4. CASE CheckHealth
  BY <1>4 DEF CheckHealth, tempVars, othersVars
<1>5. CASE Check
  BY <1>5 DEF Check, Failed, processVars, tempVars, othersVars
<1>6. CASE Stage
  BY <1>6 DEF Stage, processVars, tempVars, othersVars
<1>7. CASE SyncStaged
  BY <1>7 DEF SyncStaged, processVars, othersVars
<1>8. CASE Publish
  <2>1. CASE pc' = "dirsync"
    <3>1. /\ file' = [kind |-> "valid", version |-> staged, synced |-> synced]
          /\ UNCHANGED <<durable, backup, memory, acked, host, endpoint>>
      BY <1>8, <2>1 DEF Publish, processVars, othersVars
    <3>2. staged = memory /\ synced /\ memory >= acked
      BY <1>8 DEF Publish
    <3>3. QED
      BY <2>1, <3>1, <3>2
  <2>2. CASE pc' # "dirsync"
    BY <1>8, <2>2 DEF Publish, processVars, othersVars
  <2>3. QED
    BY <2>1, <2>2
<1>9. CASE SyncDirectory
  BY <1>9 DEF SyncDirectory, tempVars, othersVars
<1>10. CASE Verify
  BY <1>10 DEF Verify, processVars, othersVars
<1>11. CASE Latch
  BY <1>11 DEF Latch, Failed, tempVars, othersVars
<1>12. CASE Crash
  BY <1>12 DEF Crash, Stopped, processVars, othersVars
<1>13. CASE PowerLoss
  BY <1>13 DEF PowerLoss, Stopped, processVars, othersVars, File
<1>14. CASE Disrupt
  BY <1>14 DEF Disrupt, processVars, tempVars, Absent
<1>15. CASE Repair
  BY <1>15 DEF Repair, processVars, tempVars, File
<1>16. CASE UNCHANGED storageVars
  BY <1>16 DEF storageVars, processVars, tempVars, othersVars
<1>17. QED
  BY <1>1, <1>2, <1>3, <1>4, <1>5, <1>6, <1>7, <1>8, <1>9, <1>10, <1>11, <1>12, <1>13, <1>14,
     <1>15, <1>16 DEF StorageNext, Save

-----------------------------------------------------------------------------
(* The inductive invariant holds throughout.                               *)
THEOREM StorageInvariance == StorageSpec => []StorageInv
<1>1. StorageInv /\ [StorageNext]_storageVars => StorageInv'
  BY TypeStep, OrderStep, SurvivalStep DEF StorageInv
<1>2. QED
  BY InitInvariant, <1>1, PTL DEF StorageSpec

(* Every variable keeps its type (StateStorage::write, run_supervisor).    *)
THEOREM StorageTypeCorrect == StorageSpec => []StorageTypeOK
<1>1. StorageInv => StorageTypeOK
  BY DEF StorageInv
<1>2. QED
  BY StorageInvariance, <1>1, PTL

(* A snapshot whose save succeeded is never lost, torn or replaced by an   *)
(* older one: in the file, on the disk or with whoever took it away.       *)
THEOREM AckedSurvivesCorrect == StorageSpec => []AckedSurvives
<1>1. StorageInv => AckedSurvives
  BY DEF StorageInv
<1>2. QED
  BY StorageInvariance, <1>1, PTL

(* No host works from a snapshot older than one that was acknowledged.     *)
THEOREM MemoryCurrentCorrect == StorageSpec => []MemoryCurrent
<1>1. StorageInv => MemoryCurrent
  BY DEF StorageInv
<1>2. QED
  BY StorageInvariance, <1>1, PTL

(* Failing publications leave one candidate for each time somebody         *)
(* repaired the file, and one more.                                        *)
THEOREM CandidatesBoundedCorrect == StorageSpec => []CandidatesBounded
<1>1. StorageInv => CandidatesBounded
  BY DEF StorageInv
<1>2. QED
  BY StorageInvariance, <1>1, PTL

(* A latched fault lasts as long as the process, and no save passes it.    *)
THEOREM FaultIsFinalCorrect == StorageSpec => FaultIsFinal
<1> DEFINE Final == fault /\ host = "up" /\ host' = "up" =>
                      fault' /\ pc' \in {"idle", "check"} /\ staged' = NotStaged
<1>1. StorageInv /\ StorageInv' /\ [StorageNext]_storageVars => [Final]_storageVars
  <2> SUFFICES ASSUME StorageInv, StorageInv', [StorageNext]_storageVars, fault, host = "up", host' = "up"
               PROVE fault' /\ pc' \in {"idle", "check"} /\ staged' = NotStaged
    OBVIOUS
  <2>1. fault'
    BY DEF StorageInv, SaveInOrder, StorageNext, Save, Load, PublishEndpoint, BeginSave, CheckHealth,
           Check, Stage, SyncStaged, Publish, SyncDirectory, Verify, Latch, Crash, PowerLoss,
           Stopped, Disrupt, Repair, Failed, storageVars, processVars
  <2>2. pc' \in {"idle", "check"} /\ staged' = NotStaged
    BY <2>1 DEF StorageInv, SaveInOrder
  <2>3. QED
    BY <2>1, <2>2
<1>2. QED
  BY StorageInvariance, <1>1, PTL DEF StorageSpec, FaultIsFinal

=============================================================================
