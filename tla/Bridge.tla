-------------------------------- MODULE Bridge --------------------------------
(***************************************************************************)
(* A client that follows a host's event window by snapshots (theywork-     *)
(* control, bridge.rs reconcile_snapshot).  It polls a live host, or reads *)
(* state.json when it has no connection, and commits the cursor after each *)
(* batch; what it polls may be older than what it saw, skip events that    *)
(* left the window, or belong to another lineage.  Events of conversations *)
(* it does not know yet wait in a bounded set.                             *)
(***************************************************************************)
EXTENDS EventStream

CONSTANTS
  DeferredLimit, \* DEFERRED_EVENT_LIMIT (256; the byte limit acts alike)
  RangeLimit     \* MISSING_RANGE_LIMIT (16)

ASSUME BridgeAssumption == DeferredLimit \in Nat \ {0} /\ RangeLimit \in Nat

VARIABLES
  cursor,      \* BridgeCursor
  projected,   \* ghost: sequences projected in the cursor's lineage
  projections, \* ghost: how many events were projected in it
  seen,        \* ghost: sequences observed in it
  addressed,   \* ghost: those of them that are about a conversation
  floor,       \* ghost: the lineage is only followed after this sequence
  shown        \* ghost: the roster last shown: its revision and last number

bridgeVars == <<cursor, projected, projections, seen, addressed, floor, shown>>
vars == <<streamVars, bridgeVars>>

NoCursor ==
  [initialized |-> FALSE, stream |-> NoStream, applied |-> 0,
   lineageKnown |-> FALSE, missing |-> 0, ranges |-> <<>>, omitted |-> 0,
   deferred |-> {}, dropped |-> 0]

Init ==
  /\ StreamInit
  /\ cursor = NoCursor /\ projected = {} /\ projections = 0
  /\ seen = {} /\ addressed = {} /\ floor = 0
  /\ shown = [revision |-> 0, last |-> 0]

-----------------------------------------------------------------------------
SameLineage(snapshot) == cursor.initialized /\ cursor.stream = snapshot.stream

(* Wrong: an older snapshot of the lineage is treated as news.             *)
StaleNever(snapshot) == FALSE

(* A snapshot of the same lineage from before what was applied: ignored.   *)
Stale(snapshot) ==
  /\ SameLineage(snapshot) /\ snapshot.stream # NoStream
  /\ snapshot.last < cursor.applied

(* A new lineage starts with an empty cursor.                              *)
Base(snapshot) ==
  IF SameLineage(snapshot) THEN cursor
  ELSE [NoCursor EXCEPT !.initialized = TRUE, !.stream = snapshot.stream,
          !.lineageKnown = snapshot.stream # NoStream /\ ~snapshot.prior]

(* Wrong: forget to count what the range limit pushes out.                 *)
WithGapUncounted(c, first, last) ==
  LET ranges == Append(c.ranges, <<first, last>>) IN
  [c EXCEPT !.missing = @ + (last - first + 1),
            !.ranges = IF Len(ranges) > RangeLimit THEN Tail(ranges) ELSE ranges]

(* add_gap: count it, and extend the last range or start another.          *)
WithGap(c, first, last) ==
  LET adjacent == c.ranges # <<>> /\ Last(c.ranges)[2] + 1 = first
      ranges == IF adjacent
                THEN [c.ranges EXCEPT ![Len(c.ranges)] = <<@[1], last>>]
                ELSE Append(c.ranges, <<first, last>>)
      full == Len(ranges) > RangeLimit
  IN [c EXCEPT !.missing = @ + (last - first + 1),
               !.ranges = IF full THEN Tail(ranges) ELSE ranges,
               !.omitted = IF full THEN @ + 1 ELSE @]

Unavailable(snapshot) ==
  IF snapshot.events = <<>> THEN snapshot.last ELSE snapshot.events[1].sequence - 1

(* What left the window before it was seen; a first window whose prefix is *)
(* unknown cannot tell.                                                    *)
Gapped(snapshot) ==
  LET base == Base(snapshot) IN
  IF /\ snapshot.stream # NoStream
     /\ SameLineage(snapshot) \/ ~snapshot.prior
     /\ Unavailable(snapshot) > base.applied
  THEN WithGap(base, base.applied + 1, Unavailable(snapshot))
  ELSE base

(* Deferred events whose conversation the snapshot knows.                  *)
Resolved(snapshot) == {e \in Base(snapshot).deferred : e.thread \in snapshot.known}

(* Wrong: a deferred event stays deferred once it is projected.            *)
SettledStaying(c, snapshot) == c

Settled(c, snapshot) == [c EXCEPT !.deferred = @ \ Resolved(snapshot)]

(* The events after the cursor, one for each number (a legacy window may   *)
(* repeat one).                                                            *)
Observations(snapshot) ==
  LET fresh(i) == snapshot.events[i].sequence > Base(snapshot).applied
      first(i) == \A j \in 1..i - 1 :
                    snapshot.events[j].sequence # snapshot.events[i].sequence
  IN {snapshot.events[i] : i \in {i \in DOMAIN snapshot.events : fresh(i) /\ first(i)}}

Known(events, snapshot) == {e \in events : e.thread \in snapshot.known}

(* Events about a conversation; the others have nobody to wait for.        *)
Addressed(events) == {e \in events : e.thread # NoThread}

Numbers(events) == {e.sequence : e \in events}

(* What a full set keeps: pop_first makes room for later events.           *)
Newest(events) ==
  {e \in events : Cardinality({o \in events : o.sequence > e.sequence}) < DeferredLimit}

(* Wrong: a full set makes room without counting.                          *)
DeferUncounted(c, unknown) == [c EXCEPT !.deferred = Newest(@ \cup unknown)]

(* defer, for each event of a conversation the snapshot does not know.     *)
Defer(c, unknown) ==
  LET waiting == c.deferred \cup unknown IN
  [c EXCEPT !.deferred = Newest(waiting),
            !.dropped = @ + Cardinality(waiting \ Newest(waiting))]

(* reconcile_snapshot, and the commit of its next cursor.                  *)
Poll(snapshot) ==
  LET observed == Observations(snapshot)
      projecting == Resolved(snapshot) \cup Known(observed, snapshot)
      next == Defer(Settled(Gapped(snapshot), snapshot),
                    Addressed(observed) \ Known(observed, snapshot))
      window == IF snapshot.stream = NoStream THEN {} ELSE {snapshot.last}
      same == SameLineage(snapshot)
  IN
  /\ ~Stale(snapshot)
  /\ cursor' = [next EXCEPT !.applied = Max({@} \cup Numbers(observed) \cup window)]
  /\ projected' = (IF same THEN projected ELSE {}) \cup Numbers(projecting)
  /\ projections' = (IF same THEN projections ELSE 0) + Cardinality(projecting)
  /\ seen' = (IF same THEN seen ELSE {}) \cup Numbers(observed)
  /\ addressed' = (IF same THEN addressed ELSE {}) \cup Numbers(Addressed(observed))
  /\ floor' = IF same THEN floor
              ELSE IF snapshot.stream # NoStream /\ snapshot.prior
              THEN Unavailable(snapshot) ELSE 0
  /\ shown' = [revision |-> snapshot.revision, last |-> snapshot.last]

(* A stale snapshot only withdraws coverage.                               *)
PollLive == up /\ Poll(live) /\ UNCHANGED streamVars
PollSaved == written /\ Poll(saved) /\ UNCHANGED streamVars

Next ==
  \/ StreamNext /\ UNCHANGED bridgeVars
  \/ PollLive \/ PollSaved

Spec == Init /\ [][Next]_vars

-----------------------------------------------------------------------------
(* Properties.                                                             *)

Following == cursor.initialized /\ cursor.stream # NoStream

Covered == UNION {cursor.ranges[i][1]..cursor.ranges[i][2] : i \in DOMAIN cursor.ranges}

(* Nothing is lost silently: in the lineage it follows, each number up to  *)
(* the cursor was observed or is reported missing, and never both.         *)
GapsExact ==
  Following =>
    /\ cursor.applied = floor + Cardinality(seen) + cursor.missing
    /\ Covered \cap seen = {}
    /\ cursor.omitted = 0 => Covered \cup seen = floor + 1..cursor.applied

(* Each observed event about a conversation was projected, waits for its   *)
(* conversation to become known, or is counted as dropped.  An event about *)
(* none is observed and passed over (bridge.rs:131-143): it is in no book. *)
DeferredAccounted ==
  Cardinality(addressed) =
    Cardinality(projected) + Cardinality(cursor.deferred) + cursor.dropped

(* No event is projected twice in a lineage, however polls of the live     *)
(* host and of its file interleave.                                        *)
ProjectedOnce == projections = Cardinality(projected)

(* Within a lineage an older roster takes the place of a newer one only    *)
(* when no event came between the two: what changed without a number       *)
(* (register_thread, set_turn, a disconnect) may be undone on screen by a  *)
(* file saved before it, what an event changed never.                      *)
ViewAdvances ==
  [][Following /\ cursor'.stream = cursor.stream =>
       \/ shown'.revision >= shown.revision
       \/ shown'.last = shown.last]_vars

=============================================================================
