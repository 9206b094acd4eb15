-------------------------------- MODULE World --------------------------------
(***************************************************************************)
(* The office as built from events (theywork-core, world.rs): the desks of *)
(* the workers, the workers that left, what is known of each, what is      *)
(* known of the sources, the relationships (Kinship) and the conversation  *)
(* history (HistoryStore).                                                 *)
(***************************************************************************)
EXTENDS Kinship, HistoryStore

CONSTANTS
  RetiredLimit,  \* RETIRED_WORKER_LIMIT
  IdleAfter,     \* IDLE_AFTER_MS
  OfflineAfter,  \* OFFLINE_AFTER_MS
  BeatLimit,     \* HISTORY_LEN, of one worker
  Reports        \* SourceCoverage values a collector sends

(* SourceCoverage: the two parts that are merged; None is an omitted one.  *)
(* missing stands for the counters of a stream, lost for those of an epoch.*)
StreamContinuity ==
  [id : Nat, lineage : BOOLEAN, prior : BOOLEAN, missing : Nat, dropped : Nat, deferred : Nat]
ToolCorrelation == [epoch : Nat, lost : Nat, prior : BOOLEAN]
SourceCoverage ==
  [stream : StreamContinuity \cup {None}, tool : ToolCorrelation \cup {None}]
Unsaid == [stream |-> None, tool |-> None]

ASSUME WorldAssumption ==
  /\ RetiredLimit \in Nat /\ IdleAfter \in Nat /\ OfflineAfter \in Nat
  /\ BeatLimit \in Nat \ {0}
  /\ Reports \subseteq SourceCoverage /\ None \notin StreamContinuity \cup ToolCorrelation

VARIABLES
  offices, \* the workers of each office, by ID
  desks,   \* the office of each present worker
  retired  \* workers that left

rosterVars == <<offices, desks, retired>>
worldVars == <<rosterVars, relationships, historyVars>>

(* Activities that the rules tell apart, and the waits that do or do not   *)
(* need a human.                                                           *)
Activities == {"Idle", "Busy", "Waiting", "Error"}
Waits == {None, "Human", "Other"}
Ended == {"Completed", "Failed", "Cancelled"}
Lifecycles == Ended \cup {"Unknown", "Active", "Removed"}

(* Worker::new *)
NewWorker(id, office, at) ==
  [id |-> id, office |-> office, seen |-> at, lifecycle |-> "Unknown", turn |-> FALSE,
   wait |-> None, activity |-> "Idle", beats |-> <<>>, coverage |-> Unsaid]

WorldInit ==
  /\ offices = [o \in {} |-> {}] /\ desks = [w \in {} |-> None]
  /\ retired = {} /\ relationships = {} /\ HistoryInit

-----------------------------------------------------------------------------
Staff(o) == IF o \in DOMAIN offices THEN offices[o] ELSE {}
Present == UNION {offices[o] : o \in DOMAIN offices}
WithId(people, id) == {p \in people : p.id = id}
Without(people, ids) == {p \in people : p.id \notin ids}

(* offices.retain: no office stays without workers.                        *)
Open(rooms) ==
  [o \in {q \in DOMAIN rooms : rooms[q] # {}} |-> rooms[o]]

Unseated(ids) == [w \in DOMAIN desks \ ids |-> desks[w]]

(* worker_mut, and nothing when there is no such worker.                   *)
Amend(id, change(_)) ==
  LET amended(people) == {IF p.id = id THEN change(p) ELSE p : p \in people}
  IN IF id \in DOMAIN desks
     THEN /\ offices' = [offices EXCEPT ![desks[id]] = amended(@)]
          /\ UNCHANGED retired
     ELSE retired' = amended(retired) /\ UNCHANGED offices

(* The workers that RETIRED_WORKER_LIMIT forgets.                          *)
Forgotten(people) ==
  LET ahead(p) == Cardinality({q \in people :
                    q.seen < p.seen \/ (q.seen = p.seen /\ q.id < p.id)})
  IN {p \in people : ahead(p) + RetiredLimit < Cardinality(people)}

(* A worker as it is remembered.                                           *)
Departed(p) ==
  [p EXCEPT !.lifecycle = IF @ \in {"Unknown", "Active"} THEN "Removed" ELSE @,
            !.turn = FALSE, !.wait = None]

(* retire, of each of these workers in turn.                               *)
Retire(ids) ==
  LET leaving == {p \in Present : p.id \in ids \cap DOMAIN desks}
      all == Without(retired, {p.id : p \in leaving}) \cup {Departed(p) : p \in leaving}
  IN /\ desks' = Unseated(ids)
     /\ retired' = all \ Forgotten(all)
     /\ relationships' = Unrelated({p.id : p \in Forgotten(all)})

(* A worker's desk in this office: kept, moved to, returned to or new.     *)
Seated(id, office, at) ==
  LET moved == id \in DOMAIN desks /\ desks[id] # office
      known == IF moved THEN WithId(Staff(desks[id]), id) ELSE WithId(retired, id)
      joining == IF known = {} THEN NewWorker(id, office, at)
                 ELSE [(CHOOSE p \in known : TRUE) EXCEPT !.office = office]
      back == IF joining.lifecycle = "Removed"
              THEN [joining EXCEPT !.lifecycle = "Unknown"] ELSE joining
  IN IF WithId(Staff(office), id) # {} THEN offices
     ELSE [o \in DOMAIN offices \cup {office} |->
             IF o = office THEN Staff(o) \cup {back}
             ELSE IF moved /\ o = desks[id] THEN Without(offices[o], {id})
             ELSE offices[o]]

(* The part of apply that seats the worker and notes a fact about it.      *)
Note(id, office, at, change(_)) ==
  LET amended(p) == IF p.id = id
                    THEN change([p EXCEPT !.seen = IF @ > at THEN @ ELSE at]) ELSE p
      seated == Seated(id, office, at)
  IN /\ offices' = Open([seated EXCEPT ![office] = {amended(p) : p \in @}])
     /\ desks' = [w \in DOMAIN desks \cup {id} |-> IF w = id THEN office ELSE desks[w]]
     /\ retired' = IF id \in DOMAIN desks /\ desks[id] # office THEN retired
                   ELSE Without(retired, {id})
     /\ UNCHANGED <<relationships, historyVars>>

IsKnown(id) == id \in DOMAIN desks \/ WithId(retired, id) # {}
Same(p) == p
Rested(p) == [p EXCEPT !.activity = IF @ = "Waiting" THEN "Idle" ELSE @]

(* remember: in the order of the source times, each beat once, the newest. *)
Remembered(beats, beat) ==
  LET before == Cardinality({i \in DOMAIN beats : beats[i].at <= beat.at})
      grown == SubSeq(beats, 1, before) \o <<beat>> \o SubSeq(beats, before + 1, Len(beats))
  IN IF \E i \in DOMAIN beats : beats[i] = beat THEN beats
     ELSE IF Len(grown) > BeatLimit THEN Tail(grown) ELSE grown

-----------------------------------------------------------------------------
(* apply, one action for each kind of event.                               *)
Seen(id, office, at) == Note(id, office, at, Same)

Tokens(id, office, at) == Note(id, office, at, Same)

(* What is told of a worker that left does not bring it back.              *)
Identity(id, office, at) == ~IsKnown(id) /\ Note(id, office, at, Same)

Acted(id, office, at, activity) ==
  LET acts(p) == [p EXCEPT !.activity = activity] IN Note(id, office, at, acts)

Did(id, office, at, activity) ==
  LET does(p) == [p EXCEPT !.activity = activity,
                           !.beats = Remembered(@, [at |-> at, activity |-> activity])]
  IN Note(id, office, at, does)

Turn(id, office, at, open) ==
  LET turns(p) == IF open THEN [p EXCEPT !.turn = TRUE, !.lifecycle = "Active"]
                  ELSE Rested([p EXCEPT !.turn = FALSE, !.wait = None])
  IN Note(id, office, at, turns)

(* Wrong: the life ends and the turn goes on.                              *)
LifecycleOnly(id, office, at, lifecycle) ==
  LET lives(p) == [p EXCEPT !.lifecycle = lifecycle] IN Note(id, office, at, lives)

Lifecycle(id, office, at, lifecycle) ==
  LET lives(p) == [p EXCEPT !.lifecycle = lifecycle]
      ends(p) == Rested([lives(p) EXCEPT !.turn = FALSE, !.wait = None])
      change(p) == IF lifecycle \in Ended THEN ends(p) ELSE lives(p)
  IN Note(id, office, at, change)

Wait(id, office, at, reason) ==
  LET waits(p) == [p EXCEPT !.wait = reason]
      change(p) == IF reason = None THEN Rested(waits(p)) ELSE waits(p)
  IN Note(id, office, at, change)

HistoricalBeat(id, at, activity) ==
  LET recalls(p) == [p EXCEPT !.beats = Remembered(@, [at |-> at, activity |-> activity])]
  IN Amend(id, recalls) /\ UNCHANGED <<desks, relationships, historyVars>>

Left(id) ==
  /\ Retire({id})
  /\ offices' = Open([o \in DOMAIN offices |-> Without(offices[o], {id} \cap DOMAIN desks)])
  /\ UNCHANGED historyVars

Relation(r) == Relate(r) /\ UNCHANGED <<rosterVars, historyVars>>

Collaboration(office, key, at, body) ==
  Insert(office, key, at, body) /\ UNCHANGED <<rosterVars, relationships>>

(* tick *)
Tick(now) ==
  LET gone == {p.id : p \in {q \in Present : now > q.seen + OfflineAfter}}
      calmed(p) == IF now > p.seen + IdleAfter /\ p.activity = "Busy"
                   THEN [p EXCEPT !.activity = "Idle"] ELSE p
  IN /\ Retire(gone)
     /\ offices' = Open([o \in DOMAIN offices |->
                           {calmed(p) : p \in Without(offices[o], gone)}])
     /\ UNCHANGED historyVars

-----------------------------------------------------------------------------
(* merge_observation                                                       *)
Larger(a, b) == IF a > b THEN a ELSE b
ToolLoss(tool) == tool # None /\ (tool.lost > 0 \/ tool.prior)

(* ToolCorrelationCoverage::merge_previous; lost counts all its categories. *)
MergedTool(new, old) ==
  IF new = None THEN old
  ELSE IF old = None THEN new
  ELSE IF new.epoch = old.epoch
  THEN [new EXCEPT !.lost = Larger(@, old.lost), !.prior = @ \/ old.prior]
  ELSE [new EXCEPT !.prior = @ \/ ToolLoss(old)]

(* What a later observation of the same stream cannot mend, and the rest.  *)
StreamLoss(s) == s # None /\ (s.prior \/ s.missing > 0 \/ s.dropped > 0)
Limited(s) == StreamLoss(s) \/ ~s.lineage \/ s.deferred > 0

(* Wrong: what was lost of another stream is forgotten with it.            *)
MergedStreamAnew(new, old) ==
  IF new = None THEN old
  ELSE IF old = None \/ new.id # old.id THEN new
  ELSE [new EXCEPT !.missing = Larger(@, old.missing),
                   !.dropped = Larger(@, old.dropped), !.prior = @ \/ old.prior]

(* StreamContinuity::merge_previous                                        *)
MergedStream(new, old) ==
  IF new = None THEN old
  ELSE IF old = None THEN new
  ELSE IF new.id = old.id
  THEN [new EXCEPT !.missing = Larger(@, old.missing),
                   !.dropped = Larger(@, old.dropped), !.prior = @ \/ old.prior]
  ELSE [new EXCEPT !.prior = @ \/ Limited(old)]

Coverage(id, report) ==
  LET observes(p) ==
        [p EXCEPT !.coverage = [stream |-> MergedStream(report.stream, @.stream),
                                tool |-> MergedTool(report.tool, @.tool)]]
  IN Amend(id, observes) /\ UNCHANGED <<desks, relationships, historyVars>>

-----------------------------------------------------------------------------
WorldNext ==
  \/ \E id \in Workers, o \in Offices, at \in Moments :
       \/ Seen(id, o, at) \/ Tokens(id, o, at) \/ Identity(id, o, at)
       \/ \E a \in Activities : Acted(id, o, at, a) \/ Did(id, o, at, a)
       \/ \E open \in BOOLEAN : Turn(id, o, at, open)
       \/ \E l \in Lifecycles \ {"Removed"} : Lifecycle(id, o, at, l)
       \/ \E r \in Waits : Wait(id, o, at, r)
  \/ \E id \in Workers : \/ Left(id)
                          \/ \E at \in Moments, a \in Activities : HistoricalBeat(id, at, a)
                          \/ \E report \in Reports : Coverage(id, report)
  \/ \E now \in Moments : Tick(now)
  \/ \E r \in Relationship : Relation(r)
  \/ \E o \in Offices, k \in Keys, t \in Times, b \in Bodies : Collaboration(o, k, t, b)

WorldSpec == WorldInit /\ [][WorldNext]_worldVars

-----------------------------------------------------------------------------
Newest(beats) ==
  /\ Len(beats) <= BeatLimit
  /\ \A i, j \in DOMAIN beats : i < j => beats[i].at <= beats[j].at /\ beats[i] # beats[j]

(* Everyone the world knows.                                               *)
Everyone == Present \cup retired

(* The two indices of the roster agree however workers come, move between  *)
(* projects, fall silent, leave and return: a worker has one record, at    *)
(* the desk the index names or among at most RetiredLimit that left; no    *)
(* office is empty; a record that left runs no turn and waits for nothing, *)
(* and one whose life ended runs no turn.                                  *)
RosterAgrees ==
  /\ \A p, q \in Everyone : p.id = q.id => p = q
  /\ {p.id : p \in Present} = DOMAIN desks
  /\ \A o \in DOMAIN offices :
       offices[o] # {} /\ \A p \in offices[o] : p.office = o /\ desks[p.id] = o
  /\ {p.id : p \in retired} \cap DOMAIN desks = {} /\ Cardinality(retired) <= RetiredLimit
  /\ \A p \in retired : ~p.turn /\ p.wait = None /\ p.lifecycle \in Ended \cup {"Removed"}
  /\ \A p \in Present : p.lifecycle # "Removed" /\ (p.lifecycle \in Ended => ~p.turn)
  /\ \A p \in Everyone : Newest(p.beats)

(* What a source ever admitted to have lost of a worker's record stays     *)
(* admitted while the world knows the worker, through moves, retirement,   *)
(* return, reports that omit it, older reports and changes of stream; and  *)
(* when the stream changes, any limitation of the one before is kept.      *)
LossNeverForgotten ==
  [][\A p \in Everyone, q \in Everyone' : p.id = q.id =>
       /\ ToolLoss(p.coverage.tool) => ToolLoss(q.coverage.tool)
       /\ StreamLoss(p.coverage.stream) => StreamLoss(q.coverage.stream)
       /\ p.coverage.stream # None /\ Limited(p.coverage.stream)
            /\ q.coverage.stream.id # p.coverage.stream.id => q.coverage.stream.prior]_worldVars

=============================================================================
