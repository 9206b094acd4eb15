------------------------------ MODULE Navigation ------------------------------
(***************************************************************************)
(* Where the user is in the tower (theywork-render, lib.rs and             *)
(* ui_interaction.rs): the view, the selected floor and person, and the    *)
(* finder, the phone and the notebook from which another is reached.  Keys *)
(* and clicks act on what the last frame left behind; the next frame       *)
(* resolves what they asked for against a roster that has changed since.   *)
(* Left out: settings, help and the like, which only take the keyboard     *)
(* ("modal"), the looks of things, scrolling, and the focus of the Tab     *)
(* key, which does what a click on the same target does.                   *)
(***************************************************************************)
EXTENDS Naturals, FiniteSets, Sequences, SequencesExt

CONSTANTS
  FloorCount,  \* bound: floors are numbered in the order of their IDs
  People,      \* workers
  Nobody,      \* no floor, no person, no key, no time
  Searches,    \* bound: queries, each as the people it matches
  Notes,       \* bound: records of the conversations, [id, floor, by, at, result]
  MarkerLimit, \* 4096 reading markers of each kind
  LastMoment   \* bound of the clock

Floors == 1..FloorCount

ASSUME NavigationAssumption ==
  /\ FloorCount \in Nat /\ MarkerLimit \in Nat /\ LastMoment \in Nat
  /\ Nobody \notin People \cup Nat /\ Searches \subseteq SUBSET People
  /\ IsFiniteSet(Notes) /\ \A m, n \in Notes : m.id = n.id => m = n
  /\ \A n \in Notes :
       /\ n.id \in Nat /\ n.floor \in Floors /\ n.by \in People /\ n.at \in Nat
       /\ n.result \in BOOLEAN

VARIABLES
  staff,    \* world: the people of each floor, in the order they came
  asking,   \* world: people that need attention
  notes,    \* world: the records it keeps
  moment,   \* now, of the next frame
  view,     \* Cameras (the tower), Office or Desk
  selection,   \* selected floor and person, by position (from 1) and by ID
  known,    \* of the last frame: how many floors and people, who needs attention
  pending,  \* asked of the next frame: a person, a find, the controls
  finder, phone, notebook,
  controls, \* the control panel: open, and on which person
  modal,    \* settings or help is open
  targets,  \* what can be clicked on in the last frame
  visits,   \* of each floor: last visit, baseline; the floor visited now
  markers,  \* what was marked as read: key to time
  shown,    \* ghost: the last frame's view, floor and person
  named,    \* ghost: people asked for by name since then
  steered,    \* ghost: the selection was steered since then
  stay      \* ghost: floor of the last frames, its last time, ends of visits

towerVars == <<staff, asking, notes, moment>>
panelVars == <<finder, phone, notebook, controls, modal>>
frameVars == <<known, targets, visits, shown, stay>>
navVars == <<towerVars, view, selection, pending, panelVars, frameVars, markers, named, steered>>

Position(s, x) == SelectInSeq(s, LAMBDA y : y = x)
Within(i, n) == IF n = 0 THEN 1 ELSE IF i > n THEN n ELSE IF i = 0 THEN 1 ELSE i
At(s, i) == IF i \in DOMAIN s THEN s[i] ELSE Nobody

(* A set as a sequence, by the rank of each member.                        *)
InOrder(S, rank) == [i \in 1..Cardinality(S) |-> CHOOSE x \in S : rank[x] = i]

(* Those of a sequence that are in a set, in its order.                    *)
Only(s, S) ==
  LET places == {i \in DOMAIN s : s[i] \in S}
      kept == InOrder(places, [i \in places |-> Cardinality({j \in places : j <= i})])
  IN [n \in DOMAIN kept |-> s[kept[n]]]

(* World::offices: a floor without people is none.                         *)
OpenFloors == Only([f \in Floors |-> f], {f \in Floors : staff[f] # <<>>})
PeopleOf(floors) == FlattenSeq([i \in DOMAIN floors |-> staff[floors[i]]])
InTower == UNION {ToSet(staff[f]) : f \in Floors}
FloorOf(p) == CHOOSE f \in Floors : p \in ToSet(staff[f])

Target(floor, person) == [floor |-> floor, person |-> person]
StillThere(t) == t.person \in InTower /\ t.floor \in {Nobody, FloorOf(t.person)}

Hit(do, floor, person, key) == [do |-> do, floor |-> floor, person |-> person, key |-> key]

NavInit ==
  /\ staff \in {s \in [Floors -> {<<>>} \cup {<<p>> : p \in People}] :
                  \A f, g \in Floors : f # g /\ s[f] # <<>> => s[f] # s[g]}
  /\ asking = {} /\ notes = {} /\ moment \in {0, 1}
  /\ view \in {"Office", "Cameras"}
  /\ selection = [floor |-> 1, floorId |-> Nobody, person |-> 1, personId |-> Nobody]
  /\ known = [floors |-> 0, people |-> 0, asking |-> <<>>]
  /\ pending = [person |-> Nobody, find |-> Nobody, control |-> "none"]
  /\ finder = [open |-> FALSE, gone |-> FALSE, roomy |-> FALSE, entries |-> <<>>,
               search |-> Nobody, matches |-> <<>>, index |-> 1]
  /\ phone = [open |-> FALSE, urgent |-> FALSE, list |-> <<>>, index |-> 1]
  /\ notebook = [open |-> FALSE, roomy |-> TRUE, channel |-> "Attention", all |-> TRUE,
                 rows |-> <<>>, index |-> 1]
  /\ controls = [open |-> FALSE, on |-> Nobody] /\ modal = FALSE /\ targets = {}
  /\ visits = [last |-> [f \in Floors |-> 0], base |-> [f \in Floors |-> Nobody], at |-> Nobody]
  /\ markers = [reviewed |-> [k \in {} |-> 0], acknowledged |-> [k \in {} |-> 0]]
  /\ shown = Nobody /\ named = {} /\ steered = FALSE
  /\ stay = [floor |-> Nobody, at |-> 0, ends |-> [f \in Floors |-> 0]]

-----------------------------------------------------------------------------
(* The world, which World describes, as far as it matters here.            *)
Keyboard == <<view, selection, pending, panelVars, frameVars, markers, named, steered>>

Arrive(p, f) ==
  /\ p \notin InTower /\ staff' = [staff EXCEPT ![f] = Append(@, p)]
  /\ UNCHANGED <<asking, notes, moment, Keyboard>>

Leave(p) ==
  /\ p \in InTower /\ staff' = [staff EXCEPT ![FloorOf(p)] = Only(@, ToSet(@) \ {p})]
  /\ UNCHANGED <<asking, notes, moment, Keyboard>>

Ask(p) ==
  /\ asking' = IF p \in asking THEN asking \ {p} ELSE asking \cup {p}
  /\ UNCHANGED <<staff, notes, moment, Keyboard>>

Recorded(n) ==
  /\ n.at <= moment /\ notes' = notes \cup {n}
  /\ UNCHANGED <<staff, asking, moment, Keyboard>>

ClockTick ==
  /\ moment < LastMoment /\ moment' = moment + 1
  /\ UNCHANGED <<staff, asking, notes, Keyboard>>

-----------------------------------------------------------------------------
Shut(panel) == [panel EXCEPT !.open = FALSE]

(* close_panels, and what is opened in their place.                        *)
ClosePanels(f, n, c) ==
  /\ finder' = f /\ notebook' = n /\ controls' = c /\ phone' = Shut(phone) /\ modal' = FALSE

PanelsClosed == ClosePanels(Shut(finder), Shut(notebook), Shut(controls))

(* Keys that reach beyond the panels; those of the phone come first.       *)
Reach == ~controls.open /\ ~notebook.open /\ ~finder.open
Free == Reach /\ ~modal
Bare == Free /\ ~phone.open

Inert == UNCHANGED <<towerVars, frameVars>>
Still == UNCHANGED <<view, selection, steered>>
Unasked == UNCHANGED <<pending, named>>

(* The selection is steered, resolved by the next frame.                     *)
Go(v, c) == view' = v /\ selection' = c /\ steered' = TRUE

(* A person is asked for by name (phone_pending_worker).                   *)
Want(p) ==
  /\ pending' = [pending EXCEPT !.person = p]
  /\ named' = named \cup {Target(Nobody, p)}

ToFloor(c, i) == [c EXCEPT !.floor = i, !.floorId = Nobody, !.person = 1]
ToFirst(c, i) == [ToFloor(c, i) EXCEPT !.personId = Nobody]
ToPerson(c, i) == [c EXCEPT !.person = i, !.personId = Nobody]

(* move_grid_index: one step, or one row.                                  *)
Steps(i, n) ==
  IF n = 0 THEN {1}
  ELSE {Within(i + 1, n), Within(i + 2, n), IF i > 1 THEN i - 1 ELSE 1, IF i > 2 THEN i - 2 ELSE 1}

(* The arrow keys.                                                         *)
Move ==
  /\ Bare /\ Inert /\ Unasked /\ UNCHANGED <<panelVars, markers>>
  /\ IF view = "Cameras"
     THEN \E i \in Steps(selection.floor, known.floors) : Go(view, ToFirst(selection, i))
     ELSE \E i \in Steps(selection.person, known.people) : Go(view, ToPerson(selection, i))

(* cycle_office                                                            *)
CycleOffice ==
  IF known.floors = 0 THEN Go("Cameras", selection)
  ELSE \E i \in {(selection.floor % known.floors) + 1,
                 ((selection.floor + known.floors - 2) % known.floors) + 1} :
         Go("Office", ToFirst(selection, i))

(* Home, End, PageUp and PageDown, or the wheel; the desk only scrolls.    *)
Page ==
  /\ Free /\ Inert /\ Unasked /\ UNCHANGED <<panelVars, markers>>
  /\ \/ /\ view = "Cameras"
        /\ \E i \in {1, Within(known.floors, known.floors)} \cup Steps(selection.floor, known.floors) :
             Go(view, ToFloor(selection, i))
     \/ view = "Office" /\ CycleOffice
     \/ /\ view = "Office"
        /\ \E i \in {1, Within(known.people, known.people)} : Go(view, ToPerson(selection, i))

(* jump_office, by a digit that the phone does not take.                   *)
JumpOffice(i) ==
  /\ Bare /\ i <= known.floors /\ Go("Office", ToFirst(selection, i))
  /\ Inert /\ Unasked /\ UNCHANGED <<panelVars, markers>>

(* Enter goes in, Esc and 0 go out.                                        *)
Enter ==
  /\ Bare /\ Inert /\ Unasked /\ UNCHANGED <<panelVars, markers>>
  /\ \/ view = "Cameras" /\ known.floors > 0 /\ Go("Office", selection)
     \/ view = "Office" /\ known.people > 0 /\ Go("Desk", selection)

Out == IF view = "Desk" THEN "Office" ELSE "Cameras"

Back ==
  /\ \/ Bare /\ Go(Out, selection)
     \/ Free /\ Go("Cameras", selection)
  /\ Inert /\ Unasked /\ UNCHANGED <<panelVars, markers>>

(* "!": the next that needs attention, after the selected one.             *)
NextAsking ==
  /\ Free /\ known.asking # <<>>
  /\ LET i == IF selection.personId = Nobody THEN 0 ELSE Position(known.asking, selection.personId)
     IN Want(known.asking[(i % Len(known.asking)) + 1])
  /\ phone' = Shut(phone)
  /\ Inert /\ Still /\ UNCHANGED <<finder, notebook, controls, modal, markers>>

(* m and n: the controls of the selected person, or of a new task.         *)
AskControls(what) ==
  /\ Free /\ pending' = [pending EXCEPT !.control = what] /\ phone' = Shut(phone)
  /\ Inert /\ Still /\ UNCHANGED <<finder, notebook, controls, modal, markers, named>>

(* s and ? open what only takes the keyboard, Esc closes it; c opens the   *)
(* connections, and a key there closes them.                               *)
Modal ==
  /\ \/ /\ Free /\ modal' = TRUE /\ phone' \in {phone, Shut(phone)} /\ UNCHANGED controls
     \/ /\ Reach /\ modal /\ modal' = FALSE /\ UNCHANGED <<phone, controls>>
     \/ /\ Reach /\ modal' = FALSE /\ phone' = Shut(phone)
        /\ controls' = [open |-> TRUE, on |-> Nobody]
     \/ controls.open /\ controls' = Shut(controls) /\ UNCHANGED <<phone, modal>>
  /\ Inert /\ Still /\ Unasked /\ UNCHANGED <<finder, notebook, markers>>

-----------------------------------------------------------------------------
(* The finder.  A query that is empty lists the floors.                    *)
Matching(entries, search) ==
  Only(entries, {t \in ToSet(entries) : IF search = Nobody THEN t.person = Nobody
                                         ELSE t.person \in search})

(* filter, keeping the selected target if there was one.                   *)
Filtered(f, keep) ==
  LET matches == Matching(f.entries, f.search)
      same == IF keep = Nobody THEN 0 ELSE Position(matches, keep)
  IN [f EXCEPT !.matches = matches,
               !.index = IF same > 0 THEN same ELSE Within(@, Len(matches))]

Found(f) == At(f.matches, f.index)

(* show *)
FinderOpened(f) ==
  Filtered([f EXCEPT !.open = TRUE, !.gone = FALSE, !.search = Nobody, !.index = 1], Nobody)

OpenFinder ==
  /\ Reach /\ finder' = FinderOpened(finder) /\ phone' = Shut(phone) /\ modal' = FALSE
  /\ Inert /\ Still /\ Unasked /\ UNCHANGED <<notebook, controls, markers>>

Sought == {pending.find} \ {Nobody}

(* Every key of the finder but Enter takes back what it found before.      *)
Withdraw ==
  /\ pending' = [pending EXCEPT !.find = Nobody]
  /\ named' = named \ Sought /\ IF Sought = {} THEN UNCHANGED steered ELSE steered' = TRUE

FinderKey ==
  /\ finder.open /\ ~notebook.open /\ ~controls.open /\ Withdraw
  /\ \/ finder' = Shut(finder)
     \/ \E i \in Steps(finder.index, Len(finder.matches)) : finder' = [finder EXCEPT !.index = i]
     \/ \E q \in Searches \cup {Nobody} :
          finder' = Filtered([finder EXCEPT !.search = q, !.index = 1, !.gone = FALSE], Nobody)
  /\ Inert /\ UNCHANGED <<view, selection, phone, notebook, controls, modal, markers>>

FinderEnter ==
  /\ finder.open /\ finder.roomy /\ ~notebook.open /\ ~controls.open /\ Found(finder) # Nobody
  /\ pending' = [pending EXCEPT !.find = Found(finder)] /\ finder' = Shut(finder)
  /\ IF Found(finder).person = Nobody
     THEN steered' = TRUE /\ named' = named \ Sought
     ELSE named' = (named \ Sought) \cup {Found(finder)} /\ UNCHANGED steered
  /\ Inert /\ UNCHANGED <<view, selection, phone, notebook, controls, modal, markers>>

-----------------------------------------------------------------------------
(* The phone: everyone on the floor, or in the tower; or those that need   *)
(* attention, who always come first (messages_for).                        *)
Messages(urgent, floors) ==
  LET all == PeopleOf(floors)
      first == Only(all, asking)
  IN IF urgent THEN first ELSE first \o Only(all, ToSet(all) \ asking)

TogglePhone ==
  /\ Free /\ phone' = [phone EXCEPT !.open = ~@]
  /\ Inert /\ Still /\ Unasked /\ UNCHANGED <<finder, notebook, controls, modal, markers>>

PhoneKey ==
  /\ Free /\ phone.open
  /\ \/ phone' = [phone EXCEPT !.urgent = ~@, !.list = <<>>, !.index = 1]
     \/ phone' = [phone EXCEPT !.index = Within(@ + 1, Len(phone.list))]
     \/ phone' = [phone EXCEPT !.index = IF @ > 1 THEN @ - 1 ELSE 1]
  /\ Inert /\ Still /\ Unasked /\ UNCHANGED <<finder, notebook, controls, modal, markers>>

PhoneEnter ==
  /\ Free /\ phone.open
  /\ IF At(phone.list, phone.index) # Nobody
     THEN Want(phone.list[phone.index]) /\ phone' = Shut(phone) /\ UNCHANGED steered
     ELSE /\ pending' = [pending EXCEPT !.person = Nobody] /\ UNCHANGED phone
          /\ named' = named \cap Sought /\ steered' = TRUE
  /\ Inert /\ UNCHANGED <<view, selection, finder, notebook, controls, modal, markers>>

-----------------------------------------------------------------------------
(* The notebook.  A row has the key of its record, and the person that a   *)
(* key or a click opens, unless it has left.                               *)
RowOf(key, person) == [key |-> key, person |-> IF person \in InTower THEN person ELSE Nobody]

(* The newest first, and of the same time in the order of the record.      *)
Ahead(d, e) == d.at > e.at \/ (d.at = e.at /\ d.id <= e.id)

Baseline(v, f) == IF v.base[f] # Nobody THEN v.base[f] ELSE v.last[f]

(* refresh, of the channel, for all floors or for the selected one.  The   *)
(* beats that it lists among the changes, by the same baseline, are left   *)
(* out.                                                                    *)
Rows(n, floor, v) ==
  LET inScope(f) == n.all \/ floor \in {Nobody, f}
      listed == CASE n.channel = "Deliveries" -> {e \in notes : e.result}
                  [] n.channel = "Changes" -> {e \in notes : e.at > Baseline(v, e.floor)}
                  [] OTHER -> {}
      scoped == {e \in listed : inScope(e.floor)}
      events == InOrder(scoped, [e \in scoped |-> Cardinality({d \in scoped : Ahead(d, e)})])
      crew == Only(PeopleOf(OpenFloors),
                   {p \in InTower : inScope(FloorOf(p)) /\ (n.channel = "Attention" => p \in asking)})
  IN IF n.channel \in {"Deliveries", "Changes"}
     THEN [i \in DOMAIN events |-> RowOf(<<"event", events[i].id>>, events[i].by)]
     ELSE [i \in DOMAIN crew |-> RowOf(<<n.channel, crew[i]>>, crew[i])]

(* replace: the selection follows its key.                                 *)
Relisted(n, rows) ==
  LET row == At(n.rows, n.index)
      same == IF row = Nobody THEN 0 ELSE SelectInSeq(rows, LAMBDA r : r.key = row.key)
  IN [n EXCEPT !.rows = rows, !.index = IF same > 0 THEN same ELSE Within(@, Len(rows))]

(* show *)
TurnedTo(n, channel, all) ==
  [n EXCEPT !.open = TRUE, !.channel = channel, !.all = all, !.rows = <<>>, !.index = 1]

OpenNotebook(channel) ==
  /\ Free /\ notebook' = TurnedTo(notebook, channel, channel = "Attention") /\ phone' = Shut(phone)
  /\ Inert /\ Still /\ Unasked /\ UNCHANGED <<finder, controls, modal, markers>>

NotebookKey ==
  /\ notebook.open /\ ~controls.open
  /\ \/ notebook' = Shut(notebook)
     \/ notebook' = [notebook EXCEPT !.all = ~@]
     \/ \E c \in {"Attention", "Deliveries", "Changes", "Team"} :
          notebook' = TurnedTo(notebook, c, notebook.all)
     \/ \E i \in {1, Within(Len(notebook.rows), Len(notebook.rows))}
               \cup Steps(notebook.index, Len(notebook.rows)) :
          notebook' = [notebook EXCEPT !.index = i]
  /\ Inert /\ Still /\ Unasked /\ UNCHANGED <<finder, phone, controls, modal, markers>>

(* ReviewMemory::prune: the newest are kept.                               *)
Pruned(marks) ==
  {[k \in kept |-> marks[k]] : kept \in
     {s \in SUBSET DOMAIN marks :
        /\ Cardinality(s) = IF Cardinality(DOMAIN marks) > MarkerLimit THEN MarkerLimit
                            ELSE Cardinality(DOMAIN marks)
        /\ \A k \in s, j \in DOMAIN marks \ s : marks[j] <= marks[k]}}

Toggled(marks, key) ==
  IF key \in DOMAIN marks THEN [k \in DOMAIN marks \ {key} |-> marks[k]]
  ELSE [k \in DOMAIN marks \cup {key} |-> IF k = key THEN moment ELSE marks[k]]

(* The kind of the marker is that of the channel the notebook is on.       *)
Mark(key) ==
  IF notebook.channel = "Deliveries"
  THEN \E m \in Pruned(Toggled(markers.reviewed, key)) :
         markers' = [markers EXCEPT !.reviewed = m]
  ELSE \E m \in Pruned(Toggled(markers.acknowledged, key)) :
         markers' = [markers EXCEPT !.acknowledged = m]

(* r, on the selected row.                                                 *)
NotebookMark ==
  /\ notebook.open /\ notebook.roomy /\ ~controls.open
  /\ notebook.channel \in {"Attention", "Deliveries"} /\ notebook.index \in DOMAIN notebook.rows
  /\ Mark(notebook.rows[notebook.index].key)
  /\ Inert /\ Still /\ Unasked /\ UNCHANGED panelVars

(* Action::Review, which opens the requests if there are any of the person,*)
(* or its console, and else the desk.                                      *)
Review(p, requests, native) ==
  /\ ClosePanels(Shut(finder), Shut(notebook),
                 IF requests THEN [open |-> TRUE, on |-> p] ELSE Shut(controls))
  /\ IF requests \/ native THEN Unasked ELSE Want(p)

NotebookEnter ==
  /\ notebook.open /\ notebook.roomy /\ ~controls.open
  /\ LET row == At(notebook.rows, notebook.index)
     IN /\ row # Nobody /\ row.person # Nobody
        /\ \/ /\ notebook.channel = "Attention"
              /\ \E requests, native \in BOOLEAN : Review(row.person, requests, native)
           \/ Want(row.person) /\ PanelsClosed
  /\ Inert /\ Still /\ UNCHANGED markers

-----------------------------------------------------------------------------
(* A click on what the last frame offered, whatever was opened since.      *)
ClickPerson(h) ==
  /\ h \in targets
  /\ \/ h.do \in {"Inspect", "Team"} /\ Want(h.person) /\ PanelsClosed
     \/ /\ h.do = "Controls" /\ PanelsClosed /\ named' = named \cup {Target(Nobody, h.person)}
        /\ pending' = [pending EXCEPT !.person = h.person, !.control = "task"]
     \/ /\ h.do = "Review"
        /\ \E requests, native \in BOOLEAN : Review(h.person, requests, native)
  /\ Inert /\ Still /\ UNCHANGED markers

ClickFloor(h) ==
  /\ h \in targets /\ h.do \in {"SelectFloor", "EnterFloor"}
  /\ Go(IF h.do = "EnterFloor" THEN "Office" ELSE "Cameras",
        [selection EXCEPT !.floorId = h.floor, !.person = 1, !.personId = Nobody])
  /\ PanelsClosed /\ Inert /\ Unasked /\ UNCHANGED markers

(* A team's button, and the one for those without a team.                  *)
ClickTeam(h) ==
  /\ h \in targets
  /\ \/ h.do = "SelectTeam" /\ Go(view, [selection EXCEPT !.personId = h.person, !.person = 1])
     \/ h.do = "SelectDesks" /\ Go(view, [selection EXCEPT !.personId = h.person, !.floorId = h.floor])
  /\ Inert /\ Unasked /\ UNCHANGED <<panelVars, markers>>

(* In the notebook: only keys it lists are selected or marked.             *)
(* Wrong: whatever was offered is.                                         *)
ListedAlways(key) == key # Nobody

Listed(key) == key \in {r.key : r \in ToSet(notebook.rows)}

ClickRow(h) ==
  /\ h \in targets /\ Listed(h.key)
  /\ \/ /\ h.do = "Select" /\ UNCHANGED markers
        /\ notebook' = [notebook EXCEPT !.index = SelectInSeq(notebook.rows, LAMBDA r : r.key = h.key)]
     \/ h.do = "Mark" /\ Mark(h.key) /\ UNCHANGED notebook
  /\ Inert /\ Still /\ Unasked /\ UNCHANGED <<finder, phone, controls, modal>>

(* The bar that every frame has.                                           *)
AnyOpen == controls.open \/ notebook.open \/ finder.open \/ phone.open \/ modal

ClickBar ==
  /\ \/ Go("Cameras", selection) /\ PanelsClosed /\ UNCHANGED pending
     \/ /\ IF AnyOpen THEN Still ELSE Go(Out, selection)
        /\ PanelsClosed /\ UNCHANGED pending
     \/ /\ Still /\ UNCHANGED pending
        /\ \/ ClosePanels(FinderOpened(finder), Shut(notebook), Shut(controls))
           \/ \E c \in {"Attention", "Deliveries"} :
                ClosePanels(Shut(finder), TurnedTo(notebook, c, TRUE), Shut(controls))
           \/ ClosePanels(Shut(finder), Shut(notebook), [open |-> TRUE, on |-> Nobody])
     \/ Still /\ PanelsClosed /\ pending' = [pending EXCEPT !.control = "new"]
  /\ Inert /\ UNCHANGED <<markers, named>>

-----------------------------------------------------------------------------
(* A frame.  First, a find that still is there (and opens the finder again *)
(* if it is not).                                                          *)
FoundFloor == pending.find # Nobody /\ pending.find.person = Nobody /\ staff[pending.find.floor] # <<>>
FoundPerson ==
  /\ pending.find # Nobody /\ pending.find.person # Nobody
  /\ pending.find.person \in ToSet(staff[pending.find.floor])
FindLost == pending.find # Nobody /\ ~FoundFloor /\ ~FoundPerson

Wanted == IF FoundPerson THEN pending.find.person ELSE pending.person

(* Wrong: the floor is taken by its position, not by its ID.               *)
SyncByPosition(c, floors) ==
  IF floors = <<>> THEN [c EXCEPT !.floor = 1, !.floorId = Nobody]
  ELSE [c EXCEPT !.floor = Within(@, Len(floors)), !.floorId = floors[Within(c.floor, Len(floors))]]

(* sync_office_selection                                                   *)
SyncOffice(c, floors) ==
  LET same == IF c.floorId = Nobody THEN 0 ELSE Position(floors, c.floorId)
      i == IF same > 0 THEN same ELSE Within(c.floor, Len(floors))
  IN IF floors = <<>> THEN [c EXCEPT !.floor = 1, !.floorId = Nobody]
     ELSE [c EXCEPT !.floor = i, !.floorId = floors[i]]

(* Then the person that was asked for, if it is anywhere.                  *)
AtPerson(c, floors, p) ==
  IF p \notin InTower THEN c
  ELSE [floor |-> Position(floors, FloorOf(p)), floorId |-> FloorOf(p),
        person |-> Position(staff[FloorOf(p)], p), personId |-> p]

(* Then the selected person: by ID, or the one at its position.            *)
Resolved(c) ==
  LET crew == IF c.floorId = Nobody THEN <<>> ELSE staff[c.floorId]
      same == IF c.personId = Nobody THEN 0 ELSE Position(crew, c.personId)
      i == IF same > 0 THEN same ELSE Within(c.person, Len(crew))
  IN [c EXCEPT !.person = i, !.personId = At(crew, i)]

(* Wrong: every frame begins a visit.                                      *)
VisitedAnew(v, see, floor) ==
  IF see = "Cameras" THEN [v EXCEPT !.at = Nobody]
  ELSE IF floor = Nobody THEN v
  ELSE [last |-> [v.last EXCEPT ![floor] = moment],
        base |-> [v.base EXCEPT ![floor] = v.last[floor]], at |-> floor]

(* A visit begins with the first frame that shows another floor than the   *)
(* last one did, and is dated by each frame.                               *)
Visited(v, see, floor) ==
  IF see = "Cameras" THEN [v EXCEPT !.at = Nobody]
  ELSE IF floor = Nobody THEN v
  ELSE [last |-> [v.last EXCEPT ![floor] = moment],
        base |-> [v.base EXCEPT ![floor] = IF v.at = floor THEN @ ELSE v.last[floor]],
        at |-> floor]

(* What the frame lets the user click on, but for the bar.                 *)
Offers(see, c, p, f, n) ==
  LET rows == IF n.roomy THEN ToSet(n.rows) ELSE {}
      row == IF n.roomy THEN At(n.rows, n.index) ELSE Nobody
      floors == IF see = "Cameras" THEN ToSet(OpenFloors) ELSE {c.floorId} \ {Nobody}
      crew == UNION {ToSet(staff[g]) : g \in floors}
      person(do, who) == {Hit(do, Nobody, q, Nobody) : q \in who \ {Nobody}}
  IN CASE n.open ->
            {Hit("Select", Nobody, Nobody, r.key) : r \in rows}
            \cup (IF row = Nobody THEN {}
                  ELSE person("Inspect", {row.person})
                       \cup (IF n.channel = "Attention" THEN person("Review", {row.person}) ELSE {})
                       \cup (IF n.channel \in {"Attention", "Deliveries"}
                             THEN {Hit("Mark", Nobody, Nobody, row.key)} ELSE {}))
       [] ~n.open /\ f.open ->
            IF ~f.roomy THEN {}
            ELSE {IF t.person = Nobody THEN Hit("EnterFloor", t.floor, Nobody, Nobody)
                  ELSE Hit("Inspect", Nobody, t.person, Nobody) : t \in ToSet(f.matches)}
       [] ~n.open /\ ~f.open /\ modal -> {}
       [] ~n.open /\ ~f.open /\ ~modal /\ p.open -> person("Inspect", ToSet(p.list))
       [] OTHER ->
            {Hit(do, g, Nobody, Nobody) : do \in {"SelectFloor", "EnterFloor"}, g \in floors}
            \cup person("Inspect", crew) \cup person("SelectTeam", crew)
            \cup {Hit("SelectDesks", FloorOf(q), q, Nobody) : q \in crew}
            \cup (IF see # "Desk" THEN {}
                  ELSE UNION {person(do, {c.personId}) : do \in {"Review", "Controls", "Team"}})

Directory ==
  FlattenSeq([i \in DOMAIN OpenFloors |->
    <<Target(OpenFloors[i], Nobody)>>
    \o [j \in DOMAIN staff[OpenFloors[i]] |-> Target(OpenFloors[i], staff[OpenFloors[i]][j])]])

(* The lists of the panels that are open, whose selection follows what was *)
(* selected; "roomy" is whether the window is large enough for them.       *)
Dialled(see, floor) ==
  LET list == Messages(phone.urgent, IF see = "Cameras" THEN OpenFloors
                                     ELSE IF floor = Nobody THEN OpenFloors ELSE <<floor>>)
      person == At(phone.list, phone.index)
      same == IF person = Nobody THEN 0 ELSE Position(list, person)
  IN [phone EXCEPT !.list = list,
                   !.index = IF same > 0 THEN same ELSE Within(@, Len(list))]

Searched(f, roomy) ==
  Filtered([f EXCEPT !.entries = Directory, !.roomy = roomy], Found(f))

(* The last frame's floor, for as long as it is not left.                  *)
Stayed(see, floor) ==
  LET now == IF see = "Cameras" THEN Nobody ELSE IF floor = Nobody THEN stay.floor ELSE floor
  IN [floor |-> now, at |-> IF see # "Cameras" /\ floor # Nobody THEN moment ELSE stay.at,
      ends |-> IF stay.floor \in {Nobody, now} THEN stay.ends
               ELSE [stay.ends EXCEPT ![stay.floor] = stay.at]]

Draw ==
  LET floors == OpenFloors
      found == IF FoundFloor
               THEN [selection EXCEPT !.floorId = pending.find.floor, !.person = 1, !.personId = Nobody]
               ELSE selection
      c == Resolved(AtPerson(SyncOffice(found, floors), floors, Wanted))
      see == IF Wanted \in InTower THEN "Desk" ELSE IF FoundFloor THEN "Office" ELSE view
      reopened == IF FindLost THEN [finder EXCEPT !.open = TRUE, !.gone = TRUE] ELSE finder
  IN /\ selection' = c /\ view' = see
     /\ known' = [floors |-> Len(floors), people |-> IF c.floorId = Nobody THEN 0 ELSE Len(staff[c.floorId]),
                  asking |-> Only(PeopleOf(floors), asking)]
     /\ pending' = [person |-> Nobody, find |-> Nobody, control |-> "none"]
     /\ controls' = CASE pending.control = "none" -> controls
                      [] pending.control = "new" -> [open |-> TRUE, on |-> Nobody]
                      [] OTHER -> [open |-> TRUE, on |-> c.personId]
     /\ visits' = Visited(visits, see, c.floorId)
     /\ phone' = IF phone.open THEN Dialled(see, c.floorId) ELSE phone
     /\ \E roomy \in BOOLEAN :
          /\ finder' = IF reopened.open THEN Searched(reopened, roomy) ELSE reopened
          /\ notebook' = IF notebook.open
                         THEN [Relisted(notebook, Rows(notebook, c.floorId, visits')) EXCEPT !.roomy = roomy]
                         ELSE notebook
     /\ targets' = Offers(see, c, phone', finder', notebook')
     /\ shown' = [view |-> see, floor |-> c.floorId, person |-> c.personId]
     /\ named' = {} /\ steered' = FALSE /\ stay' = Stayed(see, c.floorId)
     /\ UNCHANGED <<towerVars, modal, markers>>

-----------------------------------------------------------------------------
Beyond ==
  \/ \E p \in People : (\E f \in Floors : Arrive(p, f)) \/ Leave(p) \/ Ask(p)
  \/ \E n \in Notes : Recorded(n)
  \/ ClockTick

Press ==
  \/ Move \/ Page \/ Enter \/ Back \/ NextAsking \/ Modal
  \/ \E i \in Floors : JumpOffice(i)
  \/ \E what \in {"task", "new"} : AskControls(what)
  \/ OpenFinder \/ FinderKey \/ FinderEnter
  \/ TogglePhone \/ PhoneKey \/ PhoneEnter
  \/ \E c \in {"Attention", "Team"} : OpenNotebook(c)
  \/ NotebookKey \/ NotebookMark \/ NotebookEnter

Click ==
  \/ \E h \in targets : ClickPerson(h) \/ ClickFloor(h) \/ ClickTeam(h) \/ ClickRow(h)
  \/ shown # Nobody /\ ClickBar

NavNext == Beyond \/ Press \/ Click \/ Draw

NavSpec == NavInit /\ [][NavNext]_navVars

-----------------------------------------------------------------------------
(* The frame shows the same view of the same person, if that is there.     *)
Unmoved ==
  shown # Nobody =>
    /\ shown'.view = shown.view
    /\ (\E f \in Floors : f = shown.floor /\ shown.person \in ToSet(staff[f])) => shown' = shown

(* A person that was asked for by name between two frames, from a list     *)
(* that is older than the roster, is opened or nobody is: never the one    *)
(* who took its place; and nothing but the user's keys and clicks takes    *)
(* the selection away from a person that stays ("Selection must resolve by *)
(* identity through live changes", design-audit/iteration-3/               *)
(* REQUIREMENTS.md; draw, sync_office_selection).                          *)
FrameShowsChosen ==
  [][shown' # shown \/ (named # {} /\ named' = {} /\ ~steered') =>
       LET opened == shown'.view = "Desk" /\ \E t \in named : t.person = shown'.person
       IN IF named # {} /\ \A t \in named : StillThere(t) THEN opened
          ELSE opened \/ steered \/ Unmoved]_navVars

(* "Since your visit" lists, of the floor that is visited, what is dated   *)
(* after the last frame of the visit before, whatever way led there        *)
(* (draw's visit_baselines and the notebook's refresh).                    *)
SinceLastVisit ==
  [][/\ notebook'.open /\ notebook'.channel = "Changes" /\ visits'.at # Nobody
     /\ visits' # visits \/ notebook'.rows \notin {<<>>, notebook.rows}
     => \A n \in notes :
          n.floor = visits'.at =>
            (n.at > stay'.ends[n.floor] <=> \E r \in ToSet(notebook'.rows) : r.key = <<"event", n.id>>)]_navVars

(* A marker is filed with its own kind, however channels are changed and   *)
(* old buttons clicked between two frames: what is reviewed is a delivery, *)
(* what is acknowledged asked for attention (workboard.rs, Mark).          *)
MarkersFiled ==
  /\ \A k \in DOMAIN markers.reviewed : \E n \in Notes : n.result /\ k = <<"event", n.id>>
  /\ \A k \in DOMAIN markers.acknowledged : k[1] = "Attention"

=============================================================================
