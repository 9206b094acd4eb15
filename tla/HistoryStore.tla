----------------------------- MODULE HistoryStore -----------------------------
(***************************************************************************)
(* The collaboration history of the office (theywork-core, history.rs):    *)
(* one store of records for all projects, with a window of facts about     *)
(* each project that must say what the store no longer holds.  Projects    *)
(* and record keys (actor and record ID) are numbers: their order is the   *)
(* order of their names.                                                   *)
(***************************************************************************)
EXTENDS Naturals, FiniteSets

CONSTANTS
  Offices,    \* projects
  Keys,       \* (actor, id) of a record
  Times,      \* source times of records
  Bodies,     \* what else a record says
  None,       \* the absent Option
  Limit,      \* COLLABORATION_HISTORY_LEN (512), of records and of windows
  MaxOrdinal  \* bound: observed insertions

ASSUME HistoryAssumption ==
  /\ Offices \subseteq Nat /\ Keys \subseteq Nat /\ Times \subseteq Nat
  /\ Limit \in Nat \ {0} /\ MaxOrdinal \in Nat /\ None \notin Nat

VARIABLES
  records, \* retained records
  windows, \* HistoryWindow of each project that has one
  ordinal, \* insertions so far
  older,   \* older_project_windows_unknown
  lost     \* ghost: projects that lost a record

historyVars == <<records, windows, ordinal, older, lost>>

Record == [office : Offices, key : Keys, at : Times, body : Bodies]
(* retained_count and oldest_retained_at are Retained(office) and Oldest.  *)
Window ==
  [evicted : Nat, lastEviction : Nat \cup {None}, lastEvicted : Times \cup {None},
   observed : Nat, priorUnknown : BOOLEAN]

HistoryInit ==
  /\ records = {} /\ windows = [o \in {} |-> None] /\ ordinal = 0
  /\ older = FALSE /\ lost = {}

-----------------------------------------------------------------------------
(* recount: what a window says of the retained records.                    *)
Retained(held, office) == Cardinality({r \in held : r.office = office})

Earlier(a, b) == a.at < b.at \/ (a.at = b.at /\ a.key < b.key)

(* The first record of a project in the order of the store.                *)
Oldest(held, office) ==
  CHOOSE r \in held : /\ r.office = office
                      /\ \A q \in held : q.office = office => ~Earlier(q, r)

FreshWindow ==
  [evicted |-> 0, lastEviction |-> None, lastEvicted |-> None, observed |-> 0,
   priorUnknown |-> older]

(* What window() answers for a project.                                    *)
WindowOf(office) == IF office \in DOMAIN windows THEN windows[office] ELSE FreshWindow

(* The window of an observed project exists and was observed last.         *)
Opened(office) ==
  [o \in DOMAIN windows \cup {office} |->
     IF o # office THEN windows[o]
     ELSE [WindowOf(office) EXCEPT !.observed = ordinal + 1]]

(* a goes before b: more records, or as many and an older first one, or    *)
(* the first name.                                                         *)
Sooner(held, a, b) ==
  LET na == Retained(held, a)  nb == Retained(held, b)
      ta == Oldest(held, a).at  tb == Oldest(held, b).at
  IN na > nb \/ (na = nb /\ (ta < tb \/ (ta = tb /\ a < b)))

(* Wrong: the oldest record of the store goes, whoever owns it.            *)
VictimOldest(held) ==
  (CHOOSE r \in held : \A q \in held : ~Earlier(q, r)).office

(* The project that pays when the store is full.                           *)
Victim(held) ==
  CHOOSE o \in Offices :
    /\ Retained(held, o) > 0
    /\ \A p \in Offices : (Retained(held, p) > 0 /\ p # o) => ~Sooner(held, p, o)

(* One eviction, counted in the window of its project.                     *)
Evicted(held, view) ==
  LET office == Victim(held)
      gone == Oldest(held, office)
  IN [records |-> held \ {gone},
      lost |-> {office},
      windows |-> [view EXCEPT ![office].evicted = @ + 1,
                               ![office].lastEviction = ordinal + 1,
                               ![office].lastEvicted = gone.at]]

Stored(held, view) ==
  IF Cardinality(held) > Limit THEN Evicted(held, view)
  ELSE [records |-> held, lost |-> {}, windows |-> view]

(* Windows without records, the one observed longest ago first.            *)
Forgettable(held, view) ==
  CHOOSE o \in DOMAIN view :
    /\ Retained(held, o) = 0
    /\ \A p \in DOMAIN view : Retained(held, p) = 0 =>
         \/ view[o].observed < view[p].observed
         \/ view[o].observed = view[p].observed /\ o <= p

(* Wrong: forget a window and keep quiet about it.                         *)
ForgetSilently(stored) ==
  /\ windows' = IF Cardinality(DOMAIN stored.windows) > Limit
                THEN [o \in DOMAIN stored.windows
                        \ {Forgettable(stored.records, stored.windows)}
                      |-> stored.windows[o]]
                ELSE stored.windows
  /\ UNCHANGED older

(* Each insertion opens at most one window: the loop runs at most once.    *)
Forget(stored) ==
  IF Cardinality(DOMAIN stored.windows) > Limit
  THEN /\ windows' = [o \in DOMAIN stored.windows
                        \ {Forgettable(stored.records, stored.windows)}
                      |-> stored.windows[o]]
       /\ older' = TRUE
  ELSE windows' = stored.windows /\ UNCHANGED older

(* The retained record of a key, if any.                                   *)
Known(key) == {r \in records : r.key = key}

(* insert, of news: an unknown record, or a known one that says something  *)
(* else and is not older.  A known record keeps its project.               *)
Insert(office, key, at, body) ==
  LET old == Known(key)
      home == IF old = {} THEN office ELSE (CHOOSE r \in old : TRUE).office
      new == [office |-> home, key |-> key, at |-> at, body |-> body]
      stored == Stored((records \ old) \cup {new}, Opened(home))
  IN /\ ordinal < MaxOrdinal
     /\ new \notin records /\ \A r \in old : r.at <= at
     /\ records' = stored.records
     /\ lost' = lost \cup stored.lost
     /\ ordinal' = ordinal + 1
     /\ Forget(stored)

HistoryNext ==
  \E o \in Offices, k \in Keys, t \in Times, b \in Bodies : Insert(o, k, t, b)

HistorySpec == HistoryInit /\ [][HistoryNext]_historyVars

-----------------------------------------------------------------------------
(* Type invariant: at most Limit records, one for each key, all of them of *)
(* projects that have a window, and at most Limit windows.                 *)
HistoryTypeOK ==
  /\ records \subseteq Record /\ Cardinality(records) <= Limit
  /\ \A r, q \in records : r.key = q.key => r = q
  /\ DOMAIN windows \subseteq Offices /\ Cardinality(DOMAIN windows) <= Limit
  /\ \A o \in DOMAIN windows : windows[o] \in Window
  /\ \A r \in records : r.office \in DOMAIN windows
  /\ ordinal \in Nat /\ older \in BOOLEAN /\ lost \subseteq Offices

(* What was dropped is admitted: a project that ever lost a record shows   *)
(* an eviction in its window or says that it cannot know, also after the   *)
(* window itself was forgotten and opened again.                           *)
LossDisclosed ==
  \A o \in lost : WindowOf(o).evicted > 0 \/ WindowOf(o).priorUnknown

(* Retention is fair: a project loses a record only while it holds more    *)
(* than its share of the store (Limit divided by the projects with         *)
(* records), whatever the others report, and never because a kept record   *)
(* was enriched.                                                           *)
FairShare ==
  [][\A o \in Offices :
       LET dropped == {r \in records : r.office = o /\ \A q \in records' : q.key # r.key}
           busy == {r.office : r \in records \cup records'}
       IN dropped # {} =>
            /\ (Retained(records', o) + 1) * Cardinality(busy) > Limit
            /\ \A q \in records' \ records : Known(q.key) = {}]_historyVars

=============================================================================
