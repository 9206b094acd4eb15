------------------------------ MODULE WorldProofs ------------------------------
(***************************************************************************)
(* The office as built from events: for any workers, projects, records and *)
(* events in any order, and any limits.                                    *)
(*                                                                         *)
(* The history (HistoryStore).  An eviction needs a project to pay and a   *)
(* record to go: both exist because the orders that choose them have       *)
(* minima (LexMin).  The project that pays has a window, since every       *)
(* record's project has one (HistoryTypeOK), so the eviction is counted; a *)
(* window that is forgotten leaves older_project_windows_unknown behind,   *)
(* which every window opened later carries.                                *)
(*                                                                         *)
(* Kinship.  A relationship is refused when its child is already above its *)
(* parent.  If one that is admitted made a cycle, take what was above its  *)
(* parent before: that set is closed under the links, new one included, so *)
(* the cycle was there before (AcyclicGrows).  The walk that draws a tree  *)
(* takes one entry a step and there are steps enough (StepsLeft): what it  *)
(* has drawn hangs together, with what it has yet to draw nobody is missed *)
(* (Walked), and whoever is missed as a member is found by an explicit     *)
(* record (TreeSound).                                                     *)
(*                                                                         *)
(* The roster.  Everyone present sits in the one room of their office and  *)
(* the index of desks names it; whoever left has no desk.  Every note      *)
(* first seats its worker (SeatedShape), whether it sits there already,    *)
(* comes from another office, comes back or is new; every departure takes  *)
(* a desk and a seat together (RetireStep).  Only an observation changes   *)
(* what is known of the sources, and merging keeps each loss               *)
(* (ToolMerges, StreamMerges).                                             *)
(*                                                                         *)
(* The Codex source.  For whatever the office does not show yet of the     *)
(* collector's roster a message is on its way (CodexInv): the batch of a   *)
(* poll has one for each difference (BatchTells), sorting it loses none    *)
(* (ByTimeIn), and a message that is applied settles its own thread and no *)
(* other (MessageApplied).                                                 *)
(***************************************************************************)
EXTENDS CodexSource, TLAPS, SequenceTheorems, FiniteSetTheorems, WellFoundedInduction

(* The history is well-formed, finite, and admits its losses.              *)
HistoryInv ==
  /\ HistoryTypeOK
  /\ IsFiniteSet(records) /\ IsFiniteSet(DOMAIN windows)
  /\ LossDisclosed

(* A set of numbers has a least one.                                       *)
LEMMA LeastOf ==
  ASSUME NEW T \in SUBSET Nat, T # {}
  PROVE  \E n \in T : \A m \in T : n <= m
<1>1. \E n \in T : \A m \in T : ~ (<<m, n>> \in OpToRel(<, Nat))
  BY WFMin, NatLessThanWellFounded
<1>2. PICK n \in T : \A m \in T : ~ (<<m, n>> \in OpToRel(<, Nat))
  BY <1>1
<1>3. ASSUME NEW m \in T PROVE n <= m
  <2>1. <<m, n>> \in Nat \X Nat /\ ~(<<m, n>> \in OpToRel(<, Nat))
    BY <1>2
  <2>2. ~(m < n)
    BY <2>1 DEF OpToRel
  <2>3. QED
    BY <2>2
<1>4. QED
  BY <1>3

(* x is not after y by three keys, compared one after the other.           *)
NotAfter(f, g, h, x, y) ==
  f[x] < f[y] \/ (f[x] = f[y] /\ (g[x] < g[y] \/ (g[x] = g[y] /\ h[x] <= h[y])))

(* By three keys some bearer is not after any other.                       *)
LEMMA LexMin ==
  ASSUME NEW S, S # {}, NEW f \in [S -> Nat], NEW g \in [S -> Nat], NEW h \in [S -> Nat]
  PROVE  \E x \in S : \A y \in S : NotAfter(f, g, h, x, y)
<1>1. PICK a \in S : \A y \in S : f[a] <= f[y]
  <2>1. {f[x] : x \in S} \in SUBSET Nat /\ {f[x] : x \in S} # {}
    OBVIOUS
  <2>2. \E n \in {f[x] : x \in S} : \A m \in {f[x] : x \in S} : n <= m
    BY <2>1, LeastOf
  <2>3. QED
    BY <2>2
<1> DEFINE A == {x \in S : f[x] = f[a]}
<1>2. PICK b \in A : \A y \in A : g[b] <= g[y]
  <2>1. {g[x] : x \in A} \in SUBSET Nat /\ {g[x] : x \in A} # {}
    OBVIOUS
  <2>2. \E n \in {g[x] : x \in A} : \A m \in {g[x] : x \in A} : n <= m
    BY <2>1, LeastOf
  <2>3. QED
    BY <2>2
<1> DEFINE B == {x \in A : g[x] = g[b]}
<1>3. PICK c \in B : \A y \in B : h[c] <= h[y]
  <2>1. {h[x] : x \in B} \in SUBSET Nat /\ {h[x] : x \in B} # {}
    OBVIOUS
  <2>2. \E n \in {h[x] : x \in B} : \A m \in {h[x] : x \in B} : n <= m
    BY <2>1, LeastOf
  <2>3. QED
    BY <2>2
<1>4. c \in S /\ f[c] = f[a] /\ g[c] = g[b]
  OBVIOUS
<1>5. ASSUME NEW y \in S PROVE NotAfter(f, g, h, c, y)
  <2>1. f[c] <= f[y] /\ f[c] \in Nat /\ f[y] \in Nat /\ g[c] \in Nat /\ g[y] \in Nat
    BY <1>1, <1>4
  <2>2. f[c] = f[y] => g[c] <= g[y]
    BY <1>2, <1>4
  <2>3. f[c] = f[y] /\ g[c] = g[y] => h[c] <= h[y]
    BY <1>3, <1>4
  <2>4. QED
    BY <2>1, <2>2, <2>3 DEF NotAfter
<1>6. QED
  BY <1>4, <1>5

(* A project with records has a first one.                                 *)
LEMMA OldestExists ==
  ASSUME NEW held \in SUBSET Record, NEW o, \E r \in held : r.office = o
  PROVE  Oldest(held, o) \in held /\ Oldest(held, o).office = o
<1> DEFINE mine == {r \in held : r.office = o}
           at == [r \in mine |-> r.at]
           key == [r \in mine |-> r.key]
<1>1. mine # {} /\ at \in [mine -> Nat] /\ key \in [mine -> Nat]
  BY HistoryAssumption DEF Record
<1> HIDE DEF mine, at, key
<1>2. PICK r \in mine : \A q \in mine : NotAfter(at, key, key, r, q)
  BY <1>1, LexMin
<1> USE DEF mine, at, key
<1>3. \A q \in mine : ~Earlier(q, r)
  <2>1. \A q \in mine : at[q] \in Nat /\ key[q] \in Nat /\ at[q] = q.at /\ key[q] = q.key
    BY <1>1
  <2> HIDE DEF mine, at, key
  <2>2. QED
    BY <1>2, <2>1 DEF Earlier, NotAfter
<1>4. \E x \in held : x.office = o /\ \A q \in held : q.office = o => ~Earlier(q, x)
  BY <1>3
<1>5. QED
  BY <1>4 DEF Oldest

(* A finite store counts the records of a project.                         *)
LEMMA RetainedCounts ==
  ASSUME NEW held, IsFiniteSet(held), NEW o
  PROVE  /\ Retained(held, o) \in Nat
         /\ Retained(held, o) > 0 <=> \E r \in held : r.office = o
         /\ Retained(held, o) <= Cardinality(held) /\ Cardinality(held) \in Nat
<1> DEFINE mine == {r \in held : r.office = o}
<1>1. IsFiniteSet(mine) /\ Cardinality(mine) <= Cardinality(held)
  BY FS_Subset
<1>2. Cardinality(mine) \in Nat /\ Cardinality(held) \in Nat
  BY <1>1, FS_CardinalityType
<1>3. Cardinality(mine) = 0 <=> mine = {}
  BY <1>1, FS_EmptySet
<1>4. QED
  BY <1>1, <1>2, <1>3 DEF Retained

(* In a store with records some project should pay before every other.     *)
LEMMA PayerExists ==
  ASSUME NEW held \in SUBSET Record, IsFiniteSet(held), held # {}
  PROVE  \E v \in Offices :
           /\ Retained(held, v) > 0
           /\ \A p \in Offices : (Retained(held, p) > 0 /\ p # v) => ~Sooner(held, p, v)
<1> DEFINE busy == {o \in Offices : Retained(held, o) > 0}
           room == [o \in busy |-> Cardinality(held) - Retained(held, o)]
           first == [o \in busy |-> Oldest(held, o).at]
           name == [o \in busy |-> o]
<1>1. busy # {}
  BY RetainedCounts DEF Record
<1>2. \A o \in busy : Retained(held, o) \in Nat /\ Cardinality(held) - Retained(held, o) \in Nat
  BY RetainedCounts
<1>3. \A o \in busy : Oldest(held, o).at \in Nat
  <2>1. \A o \in busy : Oldest(held, o) \in held
    BY RetainedCounts, OldestExists
  <2>2. \A r \in Record : r.at \in Nat
    BY HistoryAssumption DEF Record
  <2>3. QED
    BY <2>1, <2>2
<1>4. room \in [busy -> Nat] /\ first \in [busy -> Nat] /\ name \in [busy -> Nat]
  BY <1>2, <1>3, HistoryAssumption
<1> HIDE DEF busy, room, first, name
<1>5. PICK o \in busy : \A p \in busy : NotAfter(room, first, name, o, p)
  BY <1>1, <1>4, LexMin
<1> USE DEF busy, room, first, name
<1>6. ASSUME NEW p \in busy, p # o PROVE ~Sooner(held, p, o)
  <2> DEFINE np == Retained(held, p)  no == Retained(held, o)
             tp == Oldest(held, p).at  to == Oldest(held, o).at
             c == Cardinality(held)
  <2>1. np \in Nat /\ no \in Nat /\ c \in Nat /\ tp \in Nat /\ to \in Nat /\ p \in Nat /\ o \in Nat
    BY <1>2, <1>3, RetainedCounts, HistoryAssumption
  <2>2. c - no < c - np \/ (c - no = c - np /\ (to < tp \/ (to = tp /\ o <= p)))
    BY <1>5 DEF NotAfter
  <2> HIDE DEF np, no, tp, to, c
  <2>3. ~(np > no \/ (np = no /\ (tp < to \/ (tp = to /\ p < o))))
    BY <2>1, <2>2
  <2> USE DEF np, no, tp, to
  <2>4. QED
    BY <2>3 DEF Sooner
<1>7. QED
  BY <1>6

(* A store with records has a project that pays.                           *)
LEMMA VictimExists ==
  ASSUME NEW held \in SUBSET Record, IsFiniteSet(held), held # {}
  PROVE  \E r \in held : r.office = Victim(held)
<1>1. \E v \in Offices : /\ Retained(held, v) > 0
                         /\ \A p \in Offices : (Retained(held, p) > 0 /\ p # v) => ~Sooner(held, p, v)
  BY PayerExists
<1>2. Retained(held, Victim(held)) > 0
  BY <1>1 DEF Victim
<1>3. QED
  BY <1>2, RetainedCounts

-----------------------------------------------------------------------------
(* What a window says of losses.                                           *)
Admits(window) == window.evicted > 0 \/ window.priorUnknown

(* A store over its limit by at most one, and the windows of its projects. *)
Overfull(held, view) ==
  /\ held \subseteq Record /\ IsFiniteSet(held) /\ Cardinality(held) <= Limit + 1
  /\ \A r, q \in held : r.key = q.key => r = q
  /\ \A r \in held : r.office \in DOMAIN view
  /\ DOMAIN view \subseteq Offices /\ IsFiniteSet(DOMAIN view)
  /\ Cardinality(DOMAIN view) <= Limit + 1
  /\ \A o \in DOMAIN view : view[o] \in Window

(* The same, with the records within their limit.                          *)
TrimmedTo(held, view) == Overfull(held, view) /\ Cardinality(held) <= Limit

(* Opening a window changes nothing that it says of losses.                *)
LEMMA OpenedKeeps ==
  ASSUME HistoryInv, NEW home \in Offices
  PROVE  LET view == Opened(home) IN
         /\ DOMAIN view = DOMAIN windows \cup {home}
         /\ \A o \in DOMAIN view : view[o] \in Window /\ (Admits(WindowOf(o)) => Admits(view[o]))
<1> DEFINE view == Opened(home)
<1>1. FreshWindow \in Window
  BY DEF FreshWindow, Window, HistoryInv, HistoryTypeOK
<1>2. WindowOf(home) \in Window
  BY <1>1 DEF WindowOf, HistoryInv, HistoryTypeOK
<1>3. ordinal + 1 \in Nat
  BY DEF HistoryInv, HistoryTypeOK
<1>4. /\ [WindowOf(home) EXCEPT !.observed = ordinal + 1] \in Window
      /\ [WindowOf(home) EXCEPT !.observed = ordinal + 1].evicted = WindowOf(home).evicted
      /\ [WindowOf(home) EXCEPT !.observed = ordinal + 1].priorUnknown = WindowOf(home).priorUnknown
  BY <1>2, <1>3 DEF Window
<1>5. DOMAIN view = DOMAIN windows \cup {home}
  BY DEF Opened
<1>6. view[home] = [WindowOf(home) EXCEPT !.observed = ordinal + 1]
  BY DEF Opened
<1>7. \A o \in DOMAIN view : o # home => o \in DOMAIN windows /\ view[o] = windows[o]
  BY DEF Opened
<1>8. \A o \in DOMAIN windows : WindowOf(o) = windows[o] /\ windows[o] \in Window
  BY DEF WindowOf, HistoryInv, HistoryTypeOK
<1>9. view[home] \in Window /\ (Admits(WindowOf(home)) => Admits(view[home]))
  BY <1>4, <1>6 DEF Admits
<1>10. QED
  BY <1>5, <1>7, <1>8, <1>9

(* An eviction is counted in its window.                                   *)
LEMMA CountedOnce ==
  ASSUME NEW w \in Window, NEW n \in Nat, NEW t \in Times
  PROVE  LET counted == [w EXCEPT !.evicted = @ + 1, !.lastEviction = n + 1, !.lastEvicted = t]
         IN /\ counted \in Window
            /\ counted.evicted = w.evicted + 1 /\ w.evicted \in Nat
<1>1. w.evicted \in Nat /\ w.evicted + 1 \in Nat /\ n + 1 \in Nat
  BY DEF Window
<1>2. QED
  BY <1>1 DEF Window

(* One eviction brings the store within its limit, is counted where it     *)
(* happened and unsays nothing.                                            *)
LEMMA StoredTrims ==
  ASSUME HistoryInv, NEW held, NEW view, Overfull(held, view)
  PROVE  LET stored == Stored(held, view) IN
         /\ TrimmedTo(stored.records, stored.windows)
         /\ DOMAIN stored.windows = DOMAIN view
         /\ stored.lost \subseteq DOMAIN view
         /\ \A o \in DOMAIN view :
              (Admits(view[o]) \/ o \in stored.lost) => Admits(stored.windows[o])
<1> DEFINE stored == Stored(held, view)
           office == Victim(held)
           gone == Oldest(held, office)
           window == [view[office] EXCEPT !.evicted = @ + 1, !.lastEviction = ordinal + 1,
                                          !.lastEvicted = gone.at]
<1>a. Limit \in Nat /\ ordinal \in Nat
  BY HistoryAssumption DEF HistoryInv, HistoryTypeOK
<1>1. CASE ~(Cardinality(held) > Limit)
  <2>1. stored = [records |-> held, lost |-> {}, windows |-> view]
    BY <1>1 DEF Stored
  <2>2. Cardinality(held) \in Nat
    BY FS_CardinalityType DEF Overfull
  <2>3. QED
    BY <1>1, <1>a, <2>1, <2>2 DEF TrimmedTo
<1>2. CASE Cardinality(held) > Limit
  <2>1. held \in SUBSET Record /\ IsFiniteSet(held) /\ held # {}
    BY <1>2, <1>a, FS_EmptySet DEF Overfull
  <2>2. gone \in held /\ gone.office = office /\ office \in DOMAIN view
    BY <2>1, VictimExists, OldestExists DEF Overfull
  <2>3. /\ stored.records = held \ {gone} /\ stored.lost = {office}
        /\ stored.windows = [view EXCEPT ![office] = window]
    BY <1>2 DEF Stored, Evicted
  <2>4. gone.at \in Times
    BY <2>1, <2>2 DEF Record
  <2>5. view[office] \in Window
    BY <2>2 DEF Overfull
  <2>6. window \in Window /\ window.evicted = view[office].evicted + 1 /\ view[office].evicted \in Nat
    BY <2>4, <2>5, <1>a, CountedOnce
  <2>7. Admits(window)
    BY <2>6 DEF Admits
  <2> HIDE DEF window, stored, gone
  <2>8. Cardinality(held \ {gone}) <= Limit /\ IsFiniteSet(held \ {gone})
    <3>1. IsFiniteSet(held \ {gone}) /\ Cardinality(held \ {gone}) = Cardinality(held) - 1
      BY <2>1, <2>2, FS_RemoveElement
    <3>2. Cardinality(held) \in Nat /\ Cardinality(held) <= Limit + 1
      BY <2>1, FS_CardinalityType DEF Overfull
    <3>3. QED
      BY <3>1, <3>2, <1>a
  <2>9. /\ DOMAIN stored.windows = DOMAIN view
        /\ \A o \in DOMAIN view : o # office => stored.windows[o] = view[o]
        /\ stored.windows[office] = window
    BY <2>2, <2>3
  <2>10. \A o \in DOMAIN view : stored.windows[o] \in Window
    BY <2>6, <2>9 DEF Overfull
  <2>11. TrimmedTo(stored.records, stored.windows)
    BY <2>3, <2>8, <2>9, <2>10, <1>a, FS_CardinalityType DEF TrimmedTo, Overfull
  <2>12. \A o \in DOMAIN view :
           (Admits(view[o]) \/ o \in stored.lost) => Admits(stored.windows[o])
    BY <2>3, <2>7, <2>9
  <2>13. stored.lost \subseteq DOMAIN view
    BY <2>2, <2>3
  <2>14. QED
    BY <2>9, <2>11, <2>12, <2>13 DEF stored
<1>3. QED
  BY <1>1, <1>2

(* With more windows than records, some window has no record.              *)
LEMMA ForgettableExists ==
  ASSUME NEW held, NEW view, TrimmedTo(held, view), Cardinality(DOMAIN view) > Limit
  PROVE  LET o == Forgettable(held, view) IN o \in DOMAIN view /\ \A r \in held : r.office # o
<1> DEFINE bare == {o \in DOMAIN view : Retained(held, o) = 0}
           seen == [o \in bare |-> view[o].observed]
           name == [o \in bare |-> o]
<1>a. IsFiniteSet(held) /\ IsFiniteSet(DOMAIN view) /\ Limit \in Nat
      /\ Cardinality(held) <= Limit /\ DOMAIN view \subseteq Nat
  BY HistoryAssumption DEF TrimmedTo, Overfull
<1>b. \A o : Retained(held, o) \in Nat /\ (Retained(held, o) > 0 <=> \E r \in held : r.office = o)
  BY <1>a, RetainedCounts
<1>1. bare # {}
  <2> SUFFICES ASSUME bare = {} PROVE FALSE
    OBVIOUS
  <2> DEFINE f == [o \in DOMAIN view |-> CHOOSE r \in held : r.office = o]
  <2>1. \A o \in DOMAIN view : \E r \in held : r.office = o
    BY <1>b
  <2>2. \A o \in DOMAIN view : f[o] \in held /\ f[o].office = o
    BY <2>1
  <2>3. f \in Injection(DOMAIN view, held)
    <3>1. f \in [DOMAIN view -> held]
      BY <2>2
    <3>2. \A a, b \in DOMAIN view : f[a] = f[b] => a = b
      BY <2>2
    <3> HIDE DEF f
    <3>3. QED
      BY <3>1, <3>2 DEF Injection, IsInjective
  <2>4. Cardinality(DOMAIN view) <= Cardinality(held)
    BY <2>3, <1>a, FS_Injection
  <2>5. Cardinality(DOMAIN view) \in Nat /\ Cardinality(held) \in Nat
    BY <1>a, FS_CardinalityType
  <2>6. QED
    BY <2>4, <2>5, <1>a
<1>2. \A o \in bare : view[o].observed \in Nat
  <2>1. \A o \in bare : view[o] \in Window
    BY DEF TrimmedTo, Overfull
  <2>2. \A w \in Window : w.observed \in Nat
    BY DEF Window
  <2>3. QED
    BY <2>1, <2>2
<1>3. seen \in [bare -> Nat] /\ name \in [bare -> Nat]
  BY <1>2, <1>a
<1> HIDE DEF bare, seen, name
<1>4. PICK o \in bare : \A p \in bare : NotAfter(seen, name, name, o, p)
  BY <1>1, <1>3, LexMin
<1> USE DEF bare, seen, name
<1>5. \A p \in DOMAIN view : Retained(held, p) = 0 =>
        view[o].observed < view[p].observed \/ (view[o].observed = view[p].observed /\ o <= p)
  <2>1. ASSUME NEW p \in bare
        PROVE view[o].observed < view[p].observed \/ (view[o].observed = view[p].observed /\ o <= p)
    <3>1. o \in Nat /\ p \in Nat
      BY <1>a
    <3>2. QED
      BY <1>4, <3>1 DEF NotAfter
  <2>2. QED
    BY <2>1
<1>6. \E q \in DOMAIN view :
        /\ Retained(held, q) = 0
        /\ \A p \in DOMAIN view : Retained(held, p) = 0 =>
             view[q].observed < view[p].observed \/ (view[q].observed = view[p].observed /\ q <= p)
  BY <1>5
<1>7. Forgettable(held, view) \in DOMAIN view /\ Retained(held, Forgettable(held, view)) = 0
  BY <1>6 DEF Forgettable
<1>8. QED
  BY <1>7, <1>b

-----------------------------------------------------------------------------
(* The empty history does.                                                 *)
LEMMA InitInvariant == HistoryInit => HistoryInv
<1> SUFFICES ASSUME HistoryInit PROVE HistoryInv
  OBVIOUS
<1>1. DOMAIN windows = {} /\ records = {}
  BY DEF HistoryInit
<1>2. Limit \in Nat
  BY HistoryAssumption
<1>3. /\ IsFiniteSet(records) /\ IsFiniteSet(DOMAIN windows)
      /\ Cardinality(records) <= Limit /\ Cardinality(DOMAIN windows) <= Limit
  BY <1>1, <1>2, FS_EmptySet
<1>4. ordinal = 0 /\ older = FALSE /\ lost = {}
  BY DEF HistoryInit
<1>5. HistoryTypeOK
  BY <1>1, <1>3, <1>4 DEF HistoryTypeOK
<1>6. QED
  BY <1>3, <1>4, <1>5 DEF HistoryInv, LossDisclosed

(* A record that comes keeps it so.                                        *)
LEMMA InsertStep ==
  ASSUME HistoryInv, NEW office \in Offices, NEW key \in Keys, NEW at \in Times,
         NEW body \in Bodies, Insert(office, key, at, body)
  PROVE  HistoryInv'
<1> DEFINE old == Known(key)
           home == IF old = {} THEN office ELSE (CHOOSE r \in old : TRUE).office
           new == [office |-> home, key |-> key, at |-> at, body |-> body]
           held == (records \ old) \cup {new}
           view == Opened(home)
           stored == Stored(held, view)
<1>a. /\ records \subseteq Record /\ IsFiniteSet(records) /\ Cardinality(records) <= Limit
      /\ \A r, q \in records : r.key = q.key => r = q
      /\ DOMAIN windows \subseteq Offices /\ IsFiniteSet(DOMAIN windows)
      /\ Cardinality(DOMAIN windows) <= Limit
      /\ \A r \in records : r.office \in DOMAIN windows
      /\ ordinal \in Nat /\ older \in BOOLEAN /\ lost \subseteq Offices /\ Limit \in Nat
  BY HistoryAssumption DEF HistoryInv, HistoryTypeOK
<1>1. home \in Offices /\ new \in Record /\ new.key = key /\ new.office = home
  <2>1. old # {} => (CHOOSE r \in old : TRUE) \in records
    BY DEF Known
  <2>2. home \in Offices
    BY <2>1, <1>a DEF Record
  <2> HIDE DEF home
  <2>3. QED
    BY <2>2 DEF Record
<1>2. /\ records' = stored.records /\ lost' = lost \cup stored.lost
      /\ ordinal' = ordinal + 1 /\ Forget(stored)
  BY DEF Insert
<1>3. /\ DOMAIN view = DOMAIN windows \cup {home}
      /\ \A o \in DOMAIN view : view[o] \in Window /\ (Admits(WindowOf(o)) => Admits(view[o]))
  BY <1>1, OpenedKeeps
<1> HIDE DEF new, home
<1>4. Overfull(held, view)
  <2>1. IsFiniteSet(held) /\ Cardinality(held) <= Limit + 1
    <3>1. IsFiniteSet(records \ old) /\ Cardinality(records \ old) <= Cardinality(records)
      BY <1>a, FS_Subset
    <3>2. /\ IsFiniteSet(held)
          /\ Cardinality(held) <= Cardinality(records \ old) + 1
      <4>1. /\ IsFiniteSet((records \ old) \cup {new})
            /\ Cardinality((records \ old) \cup {new}) =
                 IF new \in records \ old THEN Cardinality(records \ old)
                 ELSE Cardinality(records \ old) + 1
        BY <3>1, FS_AddElement
      <4>2. Cardinality(records \ old) \in Nat
        BY <3>1, FS_CardinalityType
      <4>3. QED
        BY <4>1, <4>2
    <3>3. Cardinality(held) \in Nat /\ Cardinality(records \ old) \in Nat /\ Cardinality(records) \in Nat
      BY <3>1, <3>2, <1>a, FS_CardinalityType
    <3>4. QED
      BY <3>1, <3>2, <3>3, <1>a
  <2>2. IsFiniteSet(DOMAIN view) /\ Cardinality(DOMAIN view) <= Limit + 1
    <3>1. /\ IsFiniteSet(DOMAIN view)
          /\ Cardinality(DOMAIN view) <= Cardinality(DOMAIN windows) + 1
      <4>1. /\ IsFiniteSet(DOMAIN windows \cup {home})
            /\ Cardinality(DOMAIN windows \cup {home}) =
                 IF home \in DOMAIN windows THEN Cardinality(DOMAIN windows)
                 ELSE Cardinality(DOMAIN windows) + 1
        BY <1>a, FS_AddElement
      <4>2. Cardinality(DOMAIN windows) \in Nat
        BY <1>a, FS_CardinalityType
      <4>3. QED
        BY <4>1, <4>2, <1>3
    <3>2. Cardinality(DOMAIN view) \in Nat /\ Cardinality(DOMAIN windows) \in Nat
      BY <3>1, <1>a, FS_CardinalityType
    <3>3. QED
      BY <3>1, <3>2, <1>a
  <2>3. \A r, q \in held : r.key = q.key => r = q
    BY <1>a, <1>1 DEF Known
  <2>4. \A r \in held : r \in Record /\ r.office \in DOMAIN view
    BY <1>a, <1>1, <1>3
  <2> HIDE DEF held, view
  <2>5. QED
    BY <2>1, <2>2, <2>3, <2>4, <1>a, <1>1, <1>3 DEF Overfull
<1> HIDE DEF held, view
<1>5. /\ TrimmedTo(stored.records, stored.windows)
      /\ DOMAIN stored.windows = DOMAIN view
      /\ stored.lost \subseteq DOMAIN view
      /\ \A o \in DOMAIN view :
           (Admits(view[o]) \/ o \in stored.lost) => Admits(stored.windows[o])
  BY <1>4, StoredTrims
<1> HIDE DEF stored
(* What the window of a project that lost a record will say.               *)
<1>6. \A o \in lost' : o \in DOMAIN view => Admits(stored.windows[o])
  BY <1>2, <1>3, <1>5 DEF HistoryInv, LossDisclosed, Admits
<1>7. \A o \in lost' : o \notin DOMAIN view => o \in lost /\ o \notin DOMAIN windows /\ older
  <2>1. ASSUME NEW o \in lost', o \notin DOMAIN view
        PROVE o \in lost /\ o \notin DOMAIN windows
    BY <2>1, <1>2, <1>3, <1>5
  <2>2. ASSUME NEW o \in lost, o \notin DOMAIN windows PROVE older
    <3>1. WindowOf(o) = FreshWindow
      BY <2>2 DEF WindowOf
    <3>2. FreshWindow.evicted > 0 \/ FreshWindow.priorUnknown
      BY <3>1 DEF HistoryInv, LossDisclosed
    <3>3. FreshWindow.evicted = 0 /\ FreshWindow.priorUnknown = older
      BY DEF FreshWindow
    <3>4. QED
      BY <3>2, <3>3
  <2>3. QED
    BY <2>1, <2>2
<1>8. /\ lost' \subseteq Offices /\ ordinal' \in Nat
      /\ records' \subseteq Record /\ IsFiniteSet(records') /\ Cardinality(records') <= Limit
      /\ \A r, q \in records' : r.key = q.key => r = q
  BY <1>2, <1>3, <1>5, <1>a, <1>1 DEF TrimmedTo, Overfull
<1>9. CASE ~(Cardinality(DOMAIN stored.windows) > Limit)
  <2>1. windows' = stored.windows /\ older' = older
    BY <1>2, <1>9 DEF Forget
  <2>2. Cardinality(DOMAIN windows') <= Limit /\ IsFiniteSet(DOMAIN windows')
    BY <2>1, <1>9, <1>5, <1>a, FS_CardinalityType DEF TrimmedTo, Overfull
  <2>3. HistoryTypeOK'
    BY <2>1, <2>2, <1>2, <1>5, <1>8, <1>a DEF HistoryTypeOK, TrimmedTo, Overfull
  <2>4. ASSUME NEW o \in lost' PROVE Admits(WindowOf(o)')
    <3>1. CASE o \in DOMAIN view
      BY <3>1, <1>5, <1>6, <2>1 DEF WindowOf
    <3>2. CASE o \notin DOMAIN view
      <4>1. WindowOf(o)' = FreshWindow' /\ older'
        BY <3>2, <1>5, <1>7, <2>1 DEF WindowOf
      <4>2. QED
        BY <4>1 DEF FreshWindow, Admits
    <3>3. QED
      BY <3>1, <3>2
  <2>5. QED
    BY <2>2, <2>3, <2>4, <1>8 DEF HistoryInv, LossDisclosed, Admits
<1>10. CASE Cardinality(DOMAIN stored.windows) > Limit
  <2> DEFINE gone == Forgettable(stored.records, stored.windows)
  <2>1. /\ windows' = [o \in DOMAIN stored.windows \ {gone} |-> stored.windows[o]]
        /\ older' = TRUE
    BY <1>2, <1>10 DEF Forget
  <2>2. gone \in DOMAIN stored.windows /\ \A r \in stored.records : r.office # gone
    BY <1>5, <1>10, ForgettableExists
  <2> HIDE DEF gone
  <2>3. DOMAIN windows' = DOMAIN stored.windows \ {gone}
    BY <2>1
  <2>4. Cardinality(DOMAIN windows') <= Limit /\ IsFiniteSet(DOMAIN windows')
    <3>1. /\ IsFiniteSet(DOMAIN windows')
          /\ Cardinality(DOMAIN windows') = Cardinality(DOMAIN stored.windows) - 1
      BY <2>2, <2>3, <1>5, FS_RemoveElement DEF TrimmedTo, Overfull
    <3>2. Cardinality(DOMAIN stored.windows) \in Nat /\ Cardinality(DOMAIN stored.windows) <= Limit + 1
      BY <1>5, FS_CardinalityType DEF TrimmedTo, Overfull
    <3>3. QED
      BY <3>1, <3>2, <1>a
  <2>5. \A o \in DOMAIN windows' : windows'[o] \in Window /\ o \in Offices
    BY <2>1, <2>3, <1>5 DEF TrimmedTo, Overfull
  <2>6. \A r \in records' : r.office \in DOMAIN windows'
    BY <2>2, <2>3, <1>2, <1>5 DEF TrimmedTo, Overfull
  <2>7. HistoryTypeOK'
    BY <2>1, <2>4, <2>5, <2>6, <1>8 DEF HistoryTypeOK
  <2>8. ASSUME NEW o \in lost' PROVE Admits(WindowOf(o)')
    <3>1. CASE o \in DOMAIN windows'
      BY <3>1, <1>5, <1>6, <2>1, <2>3 DEF WindowOf
    <3>2. CASE o \notin DOMAIN windows'
      <4>1. WindowOf(o)' = FreshWindow'
        BY <3>2 DEF WindowOf
      <4>2. QED
        BY <4>1, <2>1 DEF FreshWindow, Admits
    <3>3. QED
      BY <3>1, <3>2
  <2>9. QED
    BY <2>4, <2>7, <2>8, <1>8 DEF HistoryInv, LossDisclosed, Admits
<1>11. QED
  BY <1>9, <1>10

(* The invariant holds in every state.                                     *)
THEOREM HistoryInvariance == HistorySpec => []HistoryInv
<1>1. HistoryInv /\ [HistoryNext]_historyVars => HistoryInv'
  <2>1. ASSUME HistoryInv, HistoryNext PROVE HistoryInv'
    BY <2>1, InsertStep DEF HistoryNext
  <2>2. ASSUME HistoryInv, UNCHANGED historyVars PROVE HistoryInv'
    BY <2>2 DEF HistoryInv, HistoryTypeOK, LossDisclosed, WindowOf, FreshWindow, historyVars
  <2>3. QED
    BY <2>1, <2>2
<1>2. QED
  BY InitInvariant, <1>1, PTL DEF HistorySpec

(* The store and its windows keep their limits, every record has its own   *)
(* key, and every project with records a window (HistoryStore::insert).    *)
THEOREM HistoryTypeCorrect == HistorySpec => []HistoryTypeOK
<1>1. HistoryInv => HistoryTypeOK
  BY DEF HistoryInv
<1>2. QED
  BY HistoryInvariance, <1>1, PTL

(* A project that ever lost a record says so, or says that it cannot know, *)
(* also after its window was forgotten and opened again.                   *)
THEOREM LossDisclosedCorrect == HistorySpec => []LossDisclosed
<1>1. HistoryInv => LossDisclosed
  BY DEF HistoryInv
<1>2. QED
  BY HistoryInvariance, <1>1, PTL

-----------------------------------------------------------------------------
(* A store holds no more records than projects times the most that one of  *)
(* them holds.                                                             *)
LEMMA ShareBound ==
  ASSUME NEW held, IsFiniteSet(held), NEW most \in Nat, NEW busy, IsFiniteSet(busy),
         \A r \in held : r.office \in busy,
         \A o \in busy : Retained(held, o) <= most
  PROVE  Cardinality(held) <= Cardinality(busy) * most
<1> DEFINE mine(o) == {r \in held : r.office = o}
           places(o) == CHOOSE b : b \in Injection(mine(o), 1..most)
           place == [r \in held |-> <<r.office, places(r.office)[r]>>]
<1>1. ASSUME NEW o \in busy PROVE places(o) \in Injection(mine(o), 1..most)
  <2>1. IsFiniteSet(mine(o))
    BY FS_Subset
  <2>2. Cardinality(mine(o)) \in Nat /\ Cardinality(mine(o)) <= most
    BY <2>1, FS_CardinalityType DEF Retained
  <2>3. IsFiniteSet(1..Cardinality(mine(o))) /\ Cardinality(1..Cardinality(mine(o))) = Cardinality(mine(o))
    <3>1. \A n \in Nat : IsFiniteSet(1..n) /\ Cardinality(1..n) = n
      BY FS_Interval
    <3>2. QED
      BY <2>2, <3>1
  <2>4. PICK b : b \in Bijection(mine(o), 1..Cardinality(mine(o)))
    BY <2>1, <2>3, FS_SameCardinalityBij DEF ExistsBijection
  <2>5. b \in Injection(mine(o), 1..most)
    BY <2>2, <2>4 DEF Bijection, Injection, IsInjective
  <2>6. QED
    BY <2>5
<1>2. ASSUME NEW r \in held PROVE place[r] \in busy \X (1..most)
  <2>1. r.office \in busy /\ r \in mine(r.office)
    OBVIOUS
  <2>2. places(r.office)[r] \in 1..most
    BY <1>1, <2>1 DEF Injection
  <2>3. QED
    BY <2>1, <2>2
<1>3. ASSUME NEW r \in held, NEW q \in held, place[r] = place[q] PROVE r = q
  <2>1. r.office = q.office /\ places(r.office)[r] = places(q.office)[q]
    BY <1>3
  <2>2. r.office \in busy /\ r \in mine(r.office) /\ q \in mine(r.office)
    BY <2>1
  <2>3. places(r.office) \in Injection(mine(r.office), 1..most)
    BY <1>1, <2>2
  <2> HIDE DEF place, places, mine
  <2>4. \A a, b \in mine(r.office) : places(r.office)[a] = places(r.office)[b] => a = b
    BY <2>3 DEF Injection, IsInjective
  <2>5. places(r.office)[r] = places(r.office)[q]
    BY <2>1
  <2>6. QED
    BY <2>2, <2>4, <2>5
<1>4. place \in Injection(held, busy \X (1..most))
  <2>1. place \in [held -> busy \X (1..most)]
    BY <1>2
  <2> HIDE DEF place
  <2>2. QED
    BY <1>3, <2>1 DEF Injection, IsInjective
<1>5. IsFiniteSet(1..most) /\ Cardinality(1..most) = most
  BY FS_Interval
<1>6. /\ IsFiniteSet(busy \X (1..most))
      /\ Cardinality(busy \X (1..most)) = Cardinality(busy) * most
  BY <1>5, FS_Product
<1>7. QED
  BY <1>4, <1>6, FS_Injection

(* The project that pays holds as much as any other.                       *)
LEMMA VictimHoldsMost ==
  ASSUME NEW held \in SUBSET Record, IsFiniteSet(held), held # {}, NEW o \in Offices
  PROVE  Retained(held, o) <= Retained(held, Victim(held))
<1>1. \E v \in Offices : /\ Retained(held, v) > 0
                         /\ \A p \in Offices : (Retained(held, p) > 0 /\ p # v) => ~Sooner(held, p, v)
  BY PayerExists
<1>2. /\ Retained(held, Victim(held)) > 0
      /\ \A p \in Offices : (Retained(held, p) > 0 /\ p # Victim(held)) => ~Sooner(held, p, Victim(held))
  BY <1>1 DEF Victim
<1>3. Retained(held, o) \in Nat /\ Retained(held, Victim(held)) \in Nat
  BY RetainedCounts
<1>4. QED
  BY <1>2, <1>3 DEF Sooner

(* A record that goes is the first one of the project that pays, and the   *)
(* insertion that it makes room for was of an unknown record.              *)
LEMMA FairStep ==
  ASSUME HistoryInv, NEW office \in Offices, NEW key \in Keys, NEW at \in Times,
         NEW body \in Bodies, Insert(office, key, at, body), NEW o \in Offices,
         NEW r \in records, r.office = o, \A q \in records' : q.key # r.key
  PROVE  LET busy == {q.office : q \in records \cup records'}
         IN /\ (Retained(records', o) + 1) * Cardinality(busy) > Limit
            /\ \A q \in records' \ records : Known(q.key) = {}
<1> DEFINE old == Known(key)
           home == IF old = {} THEN office ELSE (CHOOSE x \in old : TRUE).office
           new == [office |-> home, key |-> key, at |-> at, body |-> body]
           held == (records \ old) \cup {new}
           view == Opened(home)
           stored == Stored(held, view)
           gone == Oldest(held, Victim(held))
           busy == {q.office : q \in records \cup records'}
<1>a. /\ records \subseteq Record /\ IsFiniteSet(records) /\ Cardinality(records) <= Limit
      /\ \A x, q \in records : x.key = q.key => x = q
      /\ \A x \in records : x.office \in DOMAIN windows
      /\ IsFiniteSet(DOMAIN windows) /\ Limit \in Nat
  BY HistoryAssumption DEF HistoryInv, HistoryTypeOK
<1>1. home \in Offices /\ new \in Record /\ new.key = key /\ new.office = home
  <2>1. old # {} => (CHOOSE x \in old : TRUE) \in records
    BY DEF Known
  <2>2. home \in Offices
    BY <2>1, <1>a DEF Record
  <2> HIDE DEF home
  <2>3. QED
    BY <2>2 DEF Record
<1>2. records' = stored.records
  BY DEF Insert
<1> HIDE DEF new, home, view
<1>3. Cardinality(held) > Limit
  <2> SUFFICES ASSUME ~(Cardinality(held) > Limit) PROVE FALSE
    OBVIOUS
  <2>1. records' = held
    BY <1>2 DEF Stored
  <2>2. r \in old => r.key = key
    BY DEF Known
  <2>3. QED
    BY <2>1, <2>2, <1>1
<1>4. old = {}
  <2> SUFFICES ASSUME NEW x \in old PROVE FALSE
    OBVIOUS
  <2>1. records \ old \subseteq records \ {x} /\ x \in records
    BY DEF Known
  <2>2. IsFiniteSet(records \ {x}) /\ Cardinality(records \ {x}) = Cardinality(records) - 1
    BY <2>1, <1>a, FS_RemoveElement
  <2>3. IsFiniteSet(records \ old) /\ Cardinality(records \ old) <= Cardinality(records \ {x})
    BY <2>1, <2>2, FS_Subset
  <2>4. Cardinality(held) <= Cardinality(records \ old) + 1
    <3>1. Cardinality(held) = IF new \in records \ old THEN Cardinality(records \ old)
                              ELSE Cardinality(records \ old) + 1
      BY <2>3, FS_AddElement
    <3>2. Cardinality(records \ old) \in Nat
      BY <2>3, FS_CardinalityType
    <3>3. QED
      BY <3>1, <3>2
  <2>5. /\ Cardinality(records \ old) \in Nat /\ Cardinality(records) \in Nat
        /\ Cardinality(records \ {x}) \in Nat
    BY <2>2, <2>3, <1>a, FS_CardinalityType
  <2>6. IsFiniteSet(held)
    BY <2>3, FS_AddElement
  <2>7. Cardinality(held) \in Nat
    BY <2>6, FS_CardinalityType
  <2>8. QED
    BY <2>2, <2>3, <2>4, <2>5, <2>7, <1>3, <1>a
<1>5. held = records \cup {new}
  BY <1>4
<1>6. held \in SUBSET Record /\ IsFiniteSet(held) /\ held # {}
  BY <1>5, <1>1, <1>a, FS_AddElement
<1>7. records' = held \ {gone}
  BY <1>2, <1>3 DEF Stored, Evicted
<1>8. gone \in held /\ gone.office = Victim(held)
  BY <1>6, VictimExists, OldestExists
<1>9. r = gone
  BY <1>5, <1>7
<1> HIDE DEF held, gone, stored, old
<1>10. new # r
  <2>1. r.key # key
    BY <1>4 DEF old, Known
  <2>2. QED
    BY <2>1, <1>1
<1>11. records' \ records = {new} \ records /\ new \in records'
  BY <1>5, <1>7, <1>9, <1>10
<1>12. \A q \in records' \ records : Known(q.key) = {}
  BY <1>11, <1>4, <1>1 DEF old
<1>13. Retained(records', o) + 1 = Retained(held, o)
  <2> DEFINE mine == {q \in held : q.office = o}
  <2>1. {q \in records' : q.office = o} = mine \ {gone} /\ gone \in mine
    BY <1>7, <1>8, <1>9
  <2>2. IsFiniteSet(mine)
    BY <1>6, FS_Subset
  <2>3. Cardinality(mine \ {gone}) = Cardinality(mine) - 1 /\ Cardinality(mine) \in Nat
    BY <2>1, <2>2, FS_RemoveElement, FS_CardinalityType
  <2>4. /\ Retained(records', o) = Cardinality(mine \ {gone})
        /\ Retained(held, o) = Cardinality(mine)
    BY <2>1 DEF Retained
  <2> HIDE DEF mine
  <2>5. QED
    BY <2>3, <2>4
<1>14. busy = {q.office : q \in held}
  BY <1>5, <1>7, <1>8, <1>9, <1>11
<1>15. IsFiniteSet(busy)
  <2>1. busy \subseteq DOMAIN windows \cup {home}
    BY <1>14, <1>5, <1>1, <1>a
  <2>2. IsFiniteSet(DOMAIN windows \cup {home})
    BY <1>a, FS_AddElement
  <2>3. QED
    BY <2>1, <2>2, FS_Subset
<1>16. Cardinality(held) <= Cardinality(busy) * Retained(held, o)
  <2>1. \A q \in held : q.office \in busy
    BY <1>14
  <2>2. \A p \in busy : Retained(held, p) <= Retained(held, o)
    <3>1. \A p \in busy : p \in Offices
      BY <1>14, <1>6 DEF Record
    <3>2. Victim(held) = o
      BY <1>8, <1>9
    <3>3. QED
      BY <3>1, <3>2, <1>6, VictimHoldsMost
  <2>3. Retained(held, o) \in Nat
    BY <1>6, RetainedCounts
  <2> HIDE DEF busy
  <2>4. QED
    BY <2>1, <2>2, <2>3, <1>6, <1>15, ShareBound
<1>17. (Retained(records', o) + 1) * Cardinality(busy) > Limit
  <2>1. Cardinality(held) \in Nat /\ Cardinality(busy) \in Nat /\ Retained(held, o) \in Nat
    BY <1>6, <1>15, FS_CardinalityType, RetainedCounts
  <2>2. Cardinality(busy) * Retained(held, o) = Retained(held, o) * Cardinality(busy)
    BY <2>1
  <2>3. QED
    BY <2>1, <2>2, <1>3, <1>13, <1>16, <1>a
<1>18. QED
  BY <1>12, <1>17

(* A project loses a record only while it holds more than its share.       *)
THEOREM FairShareCorrect == HistorySpec => FairShare
<1> DEFINE Fair == \A o \in Offices :
             LET dropped == {r \in records : r.office = o /\ \A q \in records' : q.key # r.key}
                 busy == {r.office : r \in records \cup records'}
             IN dropped # {} =>
                  /\ (Retained(records', o) + 1) * Cardinality(busy) > Limit
                  /\ \A q \in records' \ records : Known(q.key) = {}
<1>1. ASSUME HistoryInv, HistoryNext PROVE Fair
  BY <1>1, FairStep DEF HistoryNext
<1>2. ASSUME UNCHANGED historyVars PROVE Fair
  BY <1>2 DEF historyVars
<1>3. HistoryInv /\ [HistoryNext]_historyVars => [Fair]_historyVars
  BY <1>1, <1>2
<1>4. QED
  BY HistoryInvariance, <1>3, PTL DEF HistorySpec, FairShare

-----------------------------------------------------------------------------
(* The relationships, finitely many, are between two workers, and nobody   *)
(* is their own ancestor.                                                  *)
KinInv ==
  /\ relationships \subseteq Relationship /\ Acyclic
  /\ \A r \in relationships : r.parent # r.child
  /\ IsFiniteSet(relationships)

(* A walk stays among the workers, begins at its start, and follows every  *)
(* link from what it reached.                                              *)
LEMMA WalkFollows ==
  ASSUME NEW links \in SUBSET (Workers \X Workers), NEW start \in Workers
  PROVE  /\ Reached(links, start) \in SUBSET Workers /\ start \in Reached(links, start)
         /\ \A l \in links : l[1] \in Reached(links, start) => l[2] \in Reached(links, start)
<1>1. Reached(links, start) \in SUBSET Workers /\ start \in Reached(links, start)
  BY DEF Reached
<1>2. ASSUME NEW l \in links, l[1] \in Reached(links, start) PROVE l[2] \in Reached(links, start)
  <2>1. l[2] \in Workers
    OBVIOUS
  <2>2. ASSUME NEW known \in SUBSET Workers, start \in known,
               \A k \in links : k[1] \in known => k[2] \in known
        PROVE  l[2] \in known
    BY <1>2, <2>2 DEF Reached
  <2>3. QED
    BY <2>1, <2>2 DEF Reached
<1>3. QED
  BY <1>1, <1>2

(* It reaches no more than any set that is closed.                         *)
LEMMA WalkIsLeast ==
  ASSUME NEW links, NEW start, NEW known \in SUBSET Workers, start \in known,
         \A l \in links : l[1] \in known => l[2] \in known
  PROVE  Reached(links, start) \subseteq known
  BY DEF Reached

(* The explicit links from child to parent, and who is above somebody by   *)
(* them.                                                                   *)
Ups(held) == {<<r.child, r.parent>> : r \in {s \in held : s.kind # Membership}}
Above(held, id) == Reached(Ups(held), id)

(* The explicit ancestors of a worker, with the worker.                    *)
LEMMA AncestorsAre ==
  Acyclic <=> \A r \in relationships : r.kind # Membership =>
                r.child \notin Above(relationships, r.parent) /\ r.child # r.parent
  BY DEF Acyclic, Explicit, Ancestors, Above, Ups

(* A relationship closes a cycle when its child is above its parent.       *)
LEMMA ClosesIs ==
  ASSUME NEW r, r.child # r.parent
  PROVE  Closes(r) <=> r.child \in Above(relationships, r.parent)
  BY DEF Closes, Explicit, Ancestors, Above, Ups

(* The links are between workers.                                          *)
LEMMA UpsLink ==
  ASSUME NEW held \in SUBSET Relationship
  PROVE  Ups(held) \in SUBSET (Workers \X Workers)
  BY DEF Ups, Relationship

(* One more record that closes no circle leaves none, whatever goes.       *)
LEMMA AcyclicGrows ==
  ASSUME KinInv, NEW r \in Relationship, r.parent # r.child,
         r.kind = Membership \/ ~Closes(r),
         relationships' \subseteq relationships \cup {r}
  PROVE  KinInv'
<1> DEFINE up(id) == Above(relationships, id)
           up2(id) == Above(relationships', id)
<1>1. relationships \in SUBSET Relationship /\ relationships' \in SUBSET Relationship
  BY DEF KinInv
<1>2. ASSUME NEW id \in Workers
      PROVE  /\ up(id) \in SUBSET Workers /\ id \in up(id)
             /\ \A s \in relationships : s.kind # Membership /\ s.child \in up(id) => s.parent \in up(id)
  <2>1. up(id) \in SUBSET Workers /\ id \in up(id)
    BY <1>1, UpsLink, WalkFollows DEF Above
  <2>2. \A l \in Ups(relationships) : l[1] \in up(id) => l[2] \in up(id)
    BY <1>1, UpsLink, WalkFollows DEF Above
  <2>3. ASSUME NEW s \in relationships, s.kind # Membership, s.child \in up(id) PROVE s.parent \in up(id)
    <3>1. <<s.child, s.parent>> \in Ups(relationships)
      BY <2>3 DEF Ups
    <3> HIDE DEF up
    <3>2. <<s.child, s.parent>>[1] = s.child /\ <<s.child, s.parent>>[2] = s.parent
      OBVIOUS
    <3>3. QED
      BY <2>2, <2>3, <3>1, <3>2
  <2>4. QED
    BY <2>1, <2>3
<1>3. ASSUME NEW id \in Workers, NEW known \in SUBSET Workers, id \in known,
             \A s \in relationships' : s.kind # Membership /\ s.child \in known => s.parent \in known
      PROVE  up2(id) \subseteq known
  <2>1. \A l \in Ups(relationships') : l[1] \in known => l[2] \in known
    <3>1. ASSUME NEW l \in Ups(relationships'), l[1] \in known PROVE l[2] \in known
      <4>1. PICK s \in relationships' : s.kind # Membership /\ l = <<s.child, s.parent>>
        BY DEF Ups
      <4>2. l[1] = s.child /\ l[2] = s.parent
        BY <4>1
      <4>3. QED
        BY <1>3, <3>1, <4>1, <4>2
    <3>2. QED
      BY <3>1
  <2>2. QED
    BY <1>3, <2>1, WalkIsLeast DEF Above
<1>4. \A s \in relationships : s.kind # Membership => s.child \notin up(s.parent) /\ s.child # s.parent
  BY AncestorsAre DEF KinInv
<1>5. \A s \in Relationship : s.parent \in Workers /\ s.child \in Workers
  BY DEF Relationship
<1>6. r.kind = Membership \/ r.child \notin up(r.parent)
  BY ClosesIs
<1> HIDE DEF up, up2
(* The ancestors of s.parent are at most these.                            *)
<1>7. ASSUME NEW s \in relationships', s.kind # Membership
      PROVE  s.child \notin up2(s.parent) /\ s.child # s.parent
  <2>1. s.parent \in Workers /\ s.child \in Workers /\ r.parent \in Workers /\ r.child \in Workers
    BY <1>1, <1>5
  <2>2. s \in relationships \/ s = r
    BY <1>7
  <2>3. s.child # s.parent
    BY <1>4, <1>7, <2>2
  <2>4. CASE r.kind # Membership /\ r.child \in up(s.parent)
    <3> DEFINE known == up(s.parent) \cup up(r.parent)
    <3>1. known \in SUBSET Workers /\ s.parent \in known
      BY <1>2, <2>1
    <3>2. ASSUME NEW t \in relationships', t.kind # Membership, t.child \in known PROVE t.parent \in known
      <4>1. CASE t \in relationships
        BY <1>2, <2>1, <3>2, <4>1
      <4>2. CASE t = r
        BY <1>2, <2>1, <4>2
      <4>3. QED
        BY <4>1, <4>2
    <3>3. up2(s.parent) \subseteq known
      <4> HIDE DEF known
      <4>1. QED
        BY <1>3, <2>1, <3>1, <3>2
    <3>4. s \in relationships => s.child \notin up(s.parent)
      BY <1>4, <1>7
    <3>5. s = r => FALSE
      BY <1>6, <2>4
    <3>6. s.child \notin up(r.parent)
      <4> SUFFICES ASSUME s.child \in up(r.parent) PROVE FALSE
        OBVIOUS
      <4>1. s \in relationships
        BY <2>2, <3>5
      <4>2. s.parent \in up(r.parent)
        BY <1>2, <1>7, <2>1, <4>1
      <4>3. up(s.parent) \subseteq up(r.parent)
        <5>1. up(r.parent) \in SUBSET Workers
          BY <1>2, <2>1
        <5>2. \A l \in Ups(relationships) : l[1] \in up(r.parent) => l[2] \in up(r.parent)
          BY <1>1, <2>1, UpsLink, WalkFollows DEF Above, up
        <5>3. QED
          BY <4>2, <5>1, <5>2, WalkIsLeast DEF Above, up
      <4>4. QED
        BY <1>6, <2>4, <4>3
    <3>7. QED
      BY <2>2, <2>3, <3>3, <3>4, <3>5, <3>6
  <2>5. CASE ~(r.kind # Membership /\ r.child \in up(s.parent))
    <3>1. up(s.parent) \in SUBSET Workers /\ s.parent \in up(s.parent)
      BY <1>2, <2>1
    <3>2. ASSUME NEW t \in relationships', t.kind # Membership, t.child \in up(s.parent)
          PROVE  t.parent \in up(s.parent)
      BY <1>2, <2>1, <2>5, <3>2
    <3>3. up2(s.parent) \subseteq up(s.parent)
      BY <1>3, <2>1, <3>1, <3>2
    <3>4. s.child \notin up(s.parent)
      BY <1>4, <1>6, <1>7, <2>2
    <3>5. QED
      BY <2>3, <3>3, <3>4
  <2>6. QED
    BY <2>4, <2>5
<1>8. Acyclic'
  <2>1. \A s \in relationships' : s.kind # Membership =>
           s.child \notin Above(relationships', s.parent) /\ s.child # s.parent
    BY <1>7 DEF up2
  <2>2. QED
    BY <2>1 DEF Acyclic, Explicit, Ancestors, Above, Ups
<1>9. IsFiniteSet(relationships')
  <2>1. IsFiniteSet(relationships \cup {r})
    BY FS_AddElement DEF KinInv
  <2>2. QED
    BY <2>1, FS_Subset
<1>10. \A s \in relationships' : s.parent # s.child
  BY <1>7, <1>1 DEF KinInv
<1>11. QED
  BY <1>1, <1>8, <1>9, <1>10 DEF KinInv

(* A relationship that comes keeps the kinship.                            *)
LEMMA RelateStep ==
  ASSUME KinInv, NEW r \in Relationship, Relate(r)
  PROVE  KinInv'
<1>1. \A held : Trimmed(held) \subseteq held
  BY DEF Trimmed
<1>2. relationships' \subseteq relationships \cup {r}
  <2> DEFINE old == {s \in relationships : SameKey(r, s)}
  <2>1. relationships' = Trimmed(relationships) \/ relationships' = Trimmed((relationships \ old) \cup {r})
    BY DEF Relate
  <2>2. QED
    BY <1>1, <2>1
<1>3. QED
  BY <1>2, AcyclicGrows DEF Relate

(* What goes closes no circle.                                             *)
LEMMA FewerStep ==
  ASSUME KinInv, relationships' \subseteq relationships
  PROVE  KinInv'
<1>1. CASE relationships = {}
  <2>1. relationships' = {}
    BY <1>1
  <2>2. QED
    BY <2>1, FS_EmptySet DEF KinInv, Acyclic, Explicit
<1>2. CASE relationships # {}
  <2>1. PICK r \in relationships : TRUE
    BY <1>2
  <2>2. r \in Relationship /\ r.parent # r.child
    BY DEF KinInv
  <2>3. r.kind = Membership \/ r.child \notin Above(relationships, r.parent)
    BY AncestorsAre DEF KinInv
  <2>4. r.kind = Membership \/ ~Closes(r)
    BY <2>2, <2>3, ClosesIs
  <2>5. QED
    BY <2>2, <2>4, AcyclicGrows
<1>3. QED
  BY <1>1, <1>2

-----------------------------------------------------------------------------
(* The members of a finite set in an order: of two, one comes up to the    *)
(* other and all that comes up to it, so the places are 1, 2, 3 ...        *)
Ordered(S, upto) ==
  /\ IsFiniteSet(S) /\ DOMAIN upto = S
  /\ \A x \in S : x \in upto[x] /\ upto[x] \in SUBSET S
  /\ \A x, y \in S : \/ x = y
                     \/ upto[x] \in SUBSET upto[y] /\ y \notin upto[x]
                     \/ upto[y] \in SUBSET upto[x] /\ x \notin upto[y]

LEMMA PlacesFilled ==
  ASSUME NEW S, NEW upto, Ordered(S, upto)
  PROVE  /\ Cardinality(S) \in Nat
         /\ \A x \in S : Cardinality(upto[x]) \in 1..Cardinality(S)
         /\ \A x, y \in S : Cardinality(upto[x]) = Cardinality(upto[y]) => x = y
         /\ \A i \in 1..Cardinality(S) : \E x \in S : Cardinality(upto[x]) = i
<1> DEFINE n == Cardinality(S)
           f == [x \in S |-> Cardinality(upto[x])]
<1>1. n \in Nat /\ IsFiniteSet(1..n) /\ Cardinality(1..n) = n
  <2>1. IsFiniteSet(S)
    BY DEF Ordered
  <2>2. QED
    BY <2>1, FS_CardinalityType, FS_Interval
<1>2. \A x \in S : IsFiniteSet(upto[x]) /\ Cardinality(upto[x]) \in Nat /\ Cardinality(upto[x]) <= n
  BY FS_Subset, FS_CardinalityType DEF Ordered
<1>3. \A x \in S : Cardinality(upto[x]) # 0
  BY <1>2, FS_EmptySet DEF Ordered
<1>4. ASSUME NEW x \in S, NEW y \in S, upto[x] \in SUBSET upto[y], y \notin upto[x]
      PROVE  Cardinality(upto[x]) # Cardinality(upto[y])
  <2>1. Cardinality(upto[x]) = Cardinality(upto[y]) => upto[x] = upto[y]
    BY <1>2, <1>4, FS_Subset
  <2>2. QED
    BY <1>4, <2>1 DEF Ordered
<1>5. \A x \in S : Cardinality(upto[x]) \in 1..n
  BY <1>1, <1>2, <1>3
<1>6. ASSUME NEW x \in S, NEW y \in S, Cardinality(upto[x]) = Cardinality(upto[y]) PROVE x = y
  BY <1>4, <1>6 DEF Ordered
<1>7. \A i \in 1..n : \E x \in S : Cardinality(upto[x]) = i
  <2>1. f \in Injection(S, 1..n)
    BY <1>5, <1>6 DEF Injection, IsInjective
  <2>2. f \in Surjection(S, 1..n)
    <3> HIDE DEF f
    <3>1. QED
      BY <1>1, <2>1, FS_Injection DEF Ordered
  <2>3. QED
    BY <2>2 DEF Surjection
<1>8. QED
  BY <1>1, <1>5, <1>6, <1>7

(* So it is with numbers.                                                  *)
Upto(S, x) == {y \in S : y <= x}

LEMMA PlacesDiffer ==
  ASSUME NEW S \in SUBSET Nat, IsFiniteSet(S)
  PROVE  /\ Cardinality(S) \in Nat
         /\ \A x \in S : Cardinality(Upto(S, x)) \in 1..Cardinality(S)
         /\ \A x, y \in S : Cardinality(Upto(S, x)) = Cardinality(Upto(S, y)) => x = y
         /\ \A i \in 1..Cardinality(S) : \E x \in S : Cardinality(Upto(S, x)) = i
<1> DEFINE upto == [x \in S |-> Upto(S, x)]
<1>1. \A x \in S : upto[x] = Upto(S, x)
  OBVIOUS
<1>2. Ordered(S, upto)
  <2>1. \A x \in S : x \in upto[x] /\ upto[x] \in SUBSET S
    BY DEF Upto
  <2>2. ASSUME NEW x \in S, NEW y \in S, x < y
        PROVE  upto[x] \in SUBSET upto[y] /\ y \notin upto[x]
    <3>1. x \in Nat /\ y \in Nat /\ ~(y <= x)
      BY <2>2
    <3>2. \A u \in S : u \in Nat /\ (u <= x => u <= y)
      BY <2>2, <3>1
    <3>3. QED
      BY <1>1, <3>1, <3>2 DEF Upto
  <2>3. \A x, y \in S : x = y \/ x < y \/ y < x
    OBVIOUS
  <2>4. DOMAIN upto = S
    OBVIOUS
  <2> HIDE DEF upto
  <2>5. QED
    BY <2>1, <2>2, <2>3, <2>4 DEF Ordered
<1> HIDE DEF upto
<1>3. QED
  BY <1>1, <1>2, PlacesFilled

(* A row of a tree: a worker, how deep, and by which kind of record.       *)
TreeRow == [worker : Workers, depth : Nat, via : Nat]

(* e can be drawn below a row for this worker.                             *)
Joined(root, id, e) == \E r \in Drawn(root, id) : r.child = e.worker /\ r.kind = e.via

Of(id) == {r \in relationships : r.parent = id}

(* Entries: one for each child that is drawn, by a record that draws it.   *)
LEMMA EntriesAre ==
  ASSUME KinInv, NEW root \in Workers, NEW id \in Workers, NEW depth \in Nat
  PROVE  /\ Entries(root, id, depth) \in Seq(TreeRow)
         /\ Len(Entries(root, id, depth)) <= Cardinality(Of(id))
         /\ \A i \in DOMAIN Entries(root, id, depth) :
              /\ Entries(root, id, depth)[i].depth = depth
              /\ Joined(root, id, Entries(root, id, depth)[i])
         /\ \A r \in Drawn(root, id) : \E i \in DOMAIN Entries(root, id, depth) :
              Entries(root, id, depth)[i].worker = r.child
<1> DEFINE drawn == Drawn(root, id)
           children == {r.child : r \in drawn}
           Kind(c, k) == /\ \E r \in drawn : r.child = c /\ r.kind = k
                         /\ \A r \in drawn : r.child = c => k <= r.kind
           via(c) == CHOOSE k \in KindIndex : Kind(c, k)
           nth(i) == CHOOSE d \in children : Cardinality(Upto(children, d)) = i
           n == Cardinality(children)
           e == Entries(root, id, depth)
<1>1. drawn \in SUBSET Of(id) /\ Of(id) \in SUBSET relationships /\ relationships \in SUBSET Relationship
  BY DEF Drawn, Of, KinInv
<1>2. \A r \in Relationship : r.child \in Workers /\ r.kind \in KindIndex
  BY DEF Relationship
<1>3. Workers \in SUBSET Nat /\ KindIndex \in SUBSET Nat
  BY KinshipAssumption DEF KindIndex, Kinds
<1>4. children \in SUBSET Workers /\ children \in SUBSET Nat
  BY <1>1, <1>2, <1>3
<1>5. e = [i \in 1..n |-> [worker |-> nth(i), depth |-> depth, via |-> via(nth(i))]]
  BY DEF Entries, Upto
<1>6. IsFiniteSet(children) /\ n <= Cardinality(Of(id)) /\ n \in Nat
  <2> DEFINE f == [r \in drawn |-> r.child]
  <2>1. f \in Surjection(drawn, children)
    BY DEF Surjection
  <2>2. IsFiniteSet(Of(id)) /\ IsFiniteSet(drawn) /\ Cardinality(drawn) <= Cardinality(Of(id))
    <3> HIDE DEF drawn
    <3>1. IsFiniteSet(Of(id))
      BY <1>1, FS_Subset DEF KinInv
    <3>2. QED
      BY <1>1, <3>1, FS_Subset
  <2> HIDE DEF f, drawn, children
  <2>3. IsFiniteSet(children) /\ n <= Cardinality(drawn)
    BY <2>1, <2>2, FS_Surjection
  <2>4. n \in Nat /\ Cardinality(drawn) \in Nat /\ Cardinality(Of(id)) \in Nat
    BY <2>2, <2>3, FS_CardinalityType
  <2>5. QED
    BY <2>2, <2>3, <2>4
<1>7. ASSUME NEW c \in children PROVE via(c) \in KindIndex /\ Kind(c, via(c))
  <2> DEFINE K == {r.kind : r \in {s \in drawn : s.child = c}}
  <2>1. K \in SUBSET KindIndex /\ K # {}
    BY <1>1, <1>2
  <2>2. PICK k \in K : \A m \in K : k <= m
    <3> HIDE DEF K
    <3>1. QED
      BY <1>3, <2>1, LeastOf
  <2>3. k \in KindIndex /\ Kind(c, k)
    BY <2>1, <2>2
  <2> HIDE DEF Kind
  <2>4. QED
    BY <2>3
<1>8. ASSUME NEW i \in 1..n PROVE nth(i) \in children
  <2> HIDE DEF children
  <2>1. \E d \in children : Cardinality(Upto(children, d)) = i
    BY <1>4, <1>6, PlacesDiffer
  <2>2. QED
    BY <2>1
<1>9. ASSUME NEW c \in children PROVE \E i \in 1..n : nth(i) = c
  <2> HIDE DEF children
  <2>1. Cardinality(Upto(children, c)) \in 1..n
    BY <1>4, <1>6, PlacesDiffer
  <2>2. \A d \in children : Cardinality(Upto(children, d)) = Cardinality(Upto(children, c)) => d = c
    BY <1>4, <1>6, PlacesDiffer
  <2>3. nth(Cardinality(Upto(children, c))) = c
    BY <2>2
  <2>4. QED
    BY <2>1, <2>3
<1>10. ASSUME NEW i \in 1..n
       PROVE  /\ e[i] \in TreeRow /\ e[i].depth = depth /\ e[i].worker = nth(i)
              /\ Joined(root, id, e[i])
  <2>1. nth(i) \in children /\ via(nth(i)) \in KindIndex /\ Kind(nth(i), via(nth(i)))
    BY <1>7, <1>8
  <2>2. \E r \in drawn : r.child = nth(i) /\ r.kind = via(nth(i))
    BY <2>1
  <2> HIDE DEF nth, via, drawn, children, e
  <2>3. e[i] = [worker |-> nth(i), depth |-> depth, via |-> via(nth(i))]
    BY <1>5
  <2>4. nth(i) \in Workers /\ via(nth(i)) \in Nat
    BY <1>3, <1>4, <2>1
  <2>5. e[i] \in TreeRow /\ e[i].depth = depth /\ e[i].worker = nth(i) /\ e[i].via = via(nth(i))
    BY <2>3, <2>4 DEF TreeRow
  <2>6. QED
    BY <2>2, <2>5 DEF Joined, drawn
<1>11. DOMAIN e = 1..n /\ e \in Seq(TreeRow) /\ Len(e) = n
  <2> HIDE DEF e, nth, via, children
  <2>1. DOMAIN e = 1..n
    BY <1>5
  <2>2. e = [i \in 1..n |-> e[i]]
    BY <1>5, <2>1
  <2>3. e \in [1..n -> TreeRow]
    BY <1>10, <2>2
  <2>4. QED
    BY <1>6, <2>1, <2>3
<1>12. \A r \in drawn : \E i \in DOMAIN e : e[i].worker = r.child
  <2>1. ASSUME NEW r \in drawn PROVE \E i \in DOMAIN e : e[i].worker = r.child
    <3>1. r.child \in children
      OBVIOUS
    <3> HIDE DEF children, nth, e
    <3>2. PICK i \in 1..n : nth(i) = r.child
      BY <1>9, <3>1
    <3>3. QED
      BY <1>10, <1>11, <3>2
  <2>2. QED
    BY <2>1
<1> HIDE DEF e, nth, via, children
<1>13. QED
  BY <1>6, <1>10, <1>11, <1>12 DEF e, drawn

-----------------------------------------------------------------------------
(* One entry of the stack, as tree takes it.                               *)
Start(root) == [stack |-> <<[worker |-> root, depth |-> 0, via |-> 0]>>, out |-> <<>>]

Step(root, s) ==
  IF s.stack = <<>> THEN s
  ELSE LET e == Head(s.stack)
       IN IF \E i \in DOMAIN s.out : s.out[i].worker = e.worker
          THEN [s EXCEPT !.stack = Tail(@)]
          ELSE [stack |-> Entries(root, e.worker, e.depth + 1) \o Tail(s.stack),
                out |-> Append(s.out, e)]

In(q) == {q[i] : i \in DOMAIN q}

(* The records of those that are not drawn yet.                            *)
Ahead(out) == {r \in relationships : \A i \in DOMAIN out : out[i].worker # r.parent}

(* e hangs on a row of the first n below which only deeper ones follow.    *)
Hangs(root, out, n, e) ==
  \E j \in 1..n :
    /\ out[j].depth + 1 = e.depth /\ Joined(root, out[j].worker, e)
    /\ \A k \in (j + 1)..n : out[k].depth > out[j].depth

(* What is so after n steps: rows and entries are of descendants, each row *)
(* of another; each but the first, and each entry, hangs on a row; deeper  *)
(* entries come first; a child of a row is drawn or about to be; and there *)
(* are steps enough for the entries, and for those they can add.           *)
Once(out) == \A i, j \in DOMAIN out : out[i].worker = out[j].worker => i = j

RowsHang(root, out) ==
  \A i \in DOMAIN out \ {1} : Hangs(root, out, i - 1, out[i])

EntriesHang(root, s) ==
  IF s.out = <<>> THEN s = Start(root)
  ELSE s.out[1].worker = root /\ \A e \in In(s.stack) : Hangs(root, s.out, Len(s.out), e)

DeepestFirst(stack) == \A i, j \in DOMAIN stack : i <= j => stack[j].depth <= stack[i].depth

NoneMissed(root, s) ==
  \A x \in In(s.out) : \A r \in Drawn(root, x.worker) :
    \E y \in In(s.out) \cup In(s.stack) : y.worker = r.child

StepsLeft(s, n) ==
  s.stack # <<>> => Len(s.stack) + Cardinality(Ahead(s.out)) + n <= Cardinality(relationships) + 1

Walked(root, s, n) ==
  /\ s \in [stack : Seq(TreeRow), out : Seq(TreeRow)]
  /\ \A x \in In(s.out) \cup In(s.stack) : x.worker \in Descendants(root)
  /\ Once(s.out) /\ RowsHang(root, s.out) /\ EntriesHang(root, s)
  /\ DeepestFirst(s.stack) /\ NoneMissed(root, s) /\ StepsLeft(s, n)

(* The descendants of a worker: with it, and with the child of each.       *)
LEMMA DescendantsFollow ==
  ASSUME KinInv, NEW root \in Workers
  PROVE  /\ Descendants(root) \in SUBSET Workers /\ root \in Descendants(root)
         /\ \A r \in relationships : r.parent \in Descendants(root) => r.child \in Descendants(root)
<1> DEFINE links == {<<r.parent, r.child>> : r \in relationships}
<1>1. links \in SUBSET (Workers \X Workers)
  BY DEF KinInv, Relationship
<1>2. \A r \in relationships : <<r.parent, r.child>> \in links
  OBVIOUS
<1>3. Descendants(root) = Reached(links, root)
  BY DEF Descendants
<1> HIDE DEF links
<1>4. \A l \in links : l[1] \in Reached(links, root) => l[2] \in Reached(links, root)
  BY <1>1, WalkFollows
<1>5. ASSUME NEW r \in relationships, r.parent \in Descendants(root) PROVE r.child \in Descendants(root)
  <2>1. <<r.parent, r.child>>[1] = r.parent /\ <<r.parent, r.child>>[2] = r.child
    OBVIOUS
  <2>2. QED
    BY <1>2, <1>3, <1>4, <1>5, <2>1
<1>6. QED
  BY <1>1, <1>3, <1>5, WalkFollows

LEMMA WalkStarts ==
  ASSUME KinInv, NEW root \in Workers
  PROVE  Walked(root, Start(root), 0)
<1> DEFINE s == Start(root)
           e == [worker |-> root, depth |-> 0, via |-> 0]
<1>1. e \in TreeRow
  BY DEF TreeRow
<1>2. s.stack = <<e>> /\ s.out = <<>> /\ s = [stack |-> <<e>>, out |-> <<>>]
  BY DEF Start
<1>3. In(s.out) = {} /\ In(s.stack) = {e} /\ DOMAIN s.out = {} /\ DOMAIN s.stack = {1}
  BY <1>2 DEF In
<1>4. s \in [stack : Seq(TreeRow), out : Seq(TreeRow)]
  BY <1>1, <1>2
<1>5. Ahead(s.out) = relationships /\ Len(s.stack) = 1
  BY <1>2, <1>3 DEF Ahead
<1>6. Cardinality(relationships) \in Nat
  BY FS_CardinalityType DEF KinInv
<1>7. e.worker = root /\ e.depth = 0
  OBVIOUS
<1>8. \A x \in In(s.out) \cup In(s.stack) : x.worker \in Descendants(root)
  BY <1>3, <1>7, DescendantsFollow
<1>9. Once(s.out) /\ RowsHang(root, s.out) /\ EntriesHang(root, s) /\ NoneMissed(root, s)
  BY <1>2, <1>3 DEF Once, RowsHang, EntriesHang, NoneMissed
<1>10. DeepestFirst(s.stack)
  <2>1. s.stack[1].depth = 0
    BY <1>2, <1>7
  <2>2. QED
    BY <1>3, <2>1 DEF DeepestFirst
<1>11. StepsLeft(s, 0)
  BY <1>5, <1>6 DEF StepsLeft
<1> HIDE DEF s, e
<1>12. QED
  BY <1>4, <1>8, <1>9, <1>10, <1>11 DEF Walked, s

LEMMA InAppend ==
  ASSUME NEW T, NEW q \in Seq(T), NEW e \in T
  PROVE  In(Append(q, e)) = In(q) \cup {e}
<1>1. DOMAIN Append(q, e) = 1..(Len(q) + 1) /\ DOMAIN q = 1..Len(q) /\ Len(q) \in Nat
  OBVIOUS
<1>2. \A i \in 1..Len(q) : Append(q, e)[i] = q[i]
  OBVIOUS
<1>3. Append(q, e)[Len(q) + 1] = e
  OBVIOUS
<1> DEFINE a == Append(q, e)
           n == Len(q)
<1> HIDE DEF a, n
<1>4. QED
  BY <1>1, <1>2, <1>3 DEF In, a, n

LEMMA InTail ==
  ASSUME NEW T, NEW q \in Seq(T), q # <<>>
  PROVE  /\ Head(q) \in T /\ Tail(q) \in Seq(T) /\ Len(Tail(q)) = Len(q) - 1 /\ Len(q) >= 1
         /\ In(q) = In(Tail(q)) \cup {Head(q)}
         /\ \A i \in DOMAIN Tail(q) : i + 1 \in DOMAIN q /\ Tail(q)[i] = q[i + 1]
         /\ 1 \in DOMAIN q /\ q[1] = Head(q)
<1> DEFINE t == Tail(q)
           n == Len(q)
<1>1. Head(q) \in T /\ t \in Seq(T) /\ Len(t) = n - 1 /\ n >= 1 /\ n \in Nat
  OBVIOUS
<1>2. DOMAIN t = 1..(n - 1) /\ DOMAIN q = 1..n
  BY <1>1
<1>3. \A i \in 1..(n - 1) : t[i] = q[i + 1]
  OBVIOUS
<1>4. q[1] = Head(q)
  OBVIOUS
<1> HIDE DEF t, n
<1>5. \A i \in DOMAIN t : i + 1 \in DOMAIN q /\ t[i] = q[i + 1]
  BY <1>1, <1>2, <1>3
<1>6. \A i \in DOMAIN q : i = 1 \/ (i - 1 \in DOMAIN t /\ (i - 1) + 1 = i)
  BY <1>1, <1>2
<1>7. In(q) = In(t) \cup {Head(q)}
  <2>1. In(q) \subseteq In(t) \cup {Head(q)}
    <3>1. ASSUME NEW i \in DOMAIN q PROVE q[i] \in In(t) \cup {Head(q)}
      BY <1>4, <1>5, <1>6 DEF In
    <3>2. QED
      BY <3>1 DEF In
  <2>2. 1 \in DOMAIN q
    BY <1>1, <1>2
  <2>3. QED
    BY <1>4, <1>5, <2>1, <2>2 DEF In
<1>8. QED
  BY <1>1, <1>2, <1>4, <1>5, <1>7 DEF t, n

(* b is p and then q.                                                      *)
IsBoth(p, q, b) ==
  /\ Len(b) = Len(p) + Len(q) /\ In(b) = In(p) \cup In(q)
  /\ \A i \in DOMAIN p : b[i] = p[i]
  /\ \A i \in DOMAIN b : i \in DOMAIN p \/ (i - Len(p) \in DOMAIN q /\ b[i] = q[i - Len(p)])

LEMMA InBoth ==
  ASSUME NEW T, NEW p \in Seq(T), NEW q \in Seq(T)
  PROVE  p \o q \in Seq(T) /\ IsBoth(p, q, p \o q)
<1> DEFINE b == p \o q
           m == Len(p)
           n == Len(q)
<1>1. b \in Seq(T) /\ Len(b) = m + n /\ m \in Nat /\ n \in Nat
  OBVIOUS
<1>2. DOMAIN b = 1..(m + n) /\ DOMAIN p = 1..m /\ DOMAIN q = 1..n
  BY <1>1
<1>3. \A i \in 1..m : b[i] = p[i]
  OBVIOUS
<1>4. \A i \in 1..(m + n) : i > m => b[i] = q[i - m]
  OBVIOUS
<1> HIDE DEF b, m, n
<1>5. \A i \in DOMAIN b : i \in DOMAIN p \/ (i - m \in DOMAIN q /\ b[i] = q[i - m])
  BY <1>1, <1>2, <1>4
<1>6. \A i \in DOMAIN p : i \in DOMAIN b /\ b[i] = p[i]
  BY <1>1, <1>2, <1>3
<1>7. \A i \in DOMAIN q : i + m \in DOMAIN b /\ b[i + m] = q[i]
  <2>1. ASSUME NEW i \in DOMAIN q PROVE i + m \in 1..(m + n) /\ i + m > m /\ (i + m) - m = i
    BY <1>1, <1>2
  <2>2. QED
    BY <1>2, <1>4, <2>1
<1>8. In(b) = In(p) \cup In(q)
  BY <1>5, <1>6, <1>7 DEF In
<1>9. QED
  BY <1>1, <1>5, <1>6, <1>8 DEF b, m, n, IsBoth

(* A step of the walk.                                                     *)
LEMMA WalkGoes ==
  ASSUME KinInv, NEW root \in Workers, NEW s, NEW n \in Nat, Walked(root, s, n)
  PROVE  Walked(root, Step(root, s), n + 1)
<1> DEFINE e == Head(s.stack)
           rest == Tail(s.stack)
           t == Step(root, s)
<1>1. /\ s \in [stack : Seq(TreeRow), out : Seq(TreeRow)]
      /\ \A x \in In(s.out) \cup In(s.stack) : x.worker \in Descendants(root)
      /\ Once(s.out) /\ RowsHang(root, s.out) /\ EntriesHang(root, s)
      /\ DeepestFirst(s.stack) /\ NoneMissed(root, s) /\ StepsLeft(s, n)
  BY DEF Walked
<1>2. CASE s.stack = <<>>
  <2>1. t = s /\ StepsLeft(s, n + 1)
    BY <1>2 DEF Step, StepsLeft
  <2>2. QED
    BY <1>1, <2>1 DEF Walked
<1>3. CASE s.stack # <<>>
  <2>0. s.stack \in Seq(TreeRow) /\ s.out \in Seq(TreeRow) /\ Len(s.stack) \in Nat /\ Len(s.out) \in Nat
    BY <1>1
  <2>1. /\ e \in TreeRow /\ rest \in Seq(TreeRow) /\ Len(rest) = Len(s.stack) - 1 /\ Len(s.stack) >= 1
        /\ In(s.stack) = In(rest) \cup {e}
        /\ \A i \in DOMAIN rest : i + 1 \in DOMAIN s.stack /\ rest[i] = s.stack[i + 1]
        /\ 1 \in DOMAIN s.stack /\ s.stack[1] = e
    BY <1>3, <2>0, InTail
  <2>2. e.worker \in Workers /\ e.depth \in Nat /\ e.worker \in Descendants(root)
    BY <1>1, <2>1 DEF TreeRow
  <2>3. /\ Cardinality(relationships) \in Nat /\ Cardinality(Ahead(s.out)) \in Nat
        /\ IsFiniteSet(relationships) /\ IsFiniteSet(Ahead(s.out))
    <3>1. IsFiniteSet(relationships) /\ Ahead(s.out) \in SUBSET relationships
      BY DEF KinInv, Ahead
    <3>2. QED
      BY <3>1, FS_Subset, FS_CardinalityType
  <2>4. DeepestFirst(rest) /\ \A x \in In(rest) : x.depth <= e.depth
    <3>1. \A i, j \in DOMAIN rest : i <= j => rest[j].depth <= rest[i].depth
      <4>1. ASSUME NEW i \in DOMAIN rest, NEW j \in DOMAIN rest, i <= j
            PROVE  rest[j].depth <= rest[i].depth
        <5>1. i + 1 <= j + 1
          BY <2>1, <4>1
        <5>2. QED
          BY <1>1, <2>1, <5>1 DEF DeepestFirst
      <4>2. QED
        BY <4>1
    <3>2. ASSUME NEW i \in DOMAIN rest PROVE rest[i].depth <= e.depth
      <4>1. 1 <= i + 1
        BY <2>1
      <4>2. QED
        BY <1>1, <2>1, <4>1 DEF DeepestFirst
    <3>3. QED
      BY <3>1, <3>2 DEF DeepestFirst, In
  <2>5. CASE \E i \in DOMAIN s.out : s.out[i].worker = e.worker
    <3>1. t = [s EXCEPT !.stack = rest]
      BY <1>3, <2>5 DEF Step
    <3>2. t.stack = rest /\ t.out = s.out /\ t \in [stack : Seq(TreeRow), out : Seq(TreeRow)]
      BY <1>1, <2>1, <3>1
    <3>3. PICK x \in In(s.out) : x.worker = e.worker
      BY <2>5 DEF In
    <3>4. s.out # <<>>
      BY <2>5
    <3> HIDE DEF e, rest, t
    <3>5. \A y \in In(t.out) \cup In(t.stack) : y.worker \in Descendants(root)
      BY <1>1, <2>1, <3>2
    <3>6. Once(t.out) /\ RowsHang(root, t.out) /\ DeepestFirst(t.stack)
      BY <1>1, <2>4, <3>2
    <3>7. EntriesHang(root, t)
      BY <1>1, <2>1, <3>2, <3>4 DEF EntriesHang
    <3>8. NoneMissed(root, t)
      BY <1>1, <2>1, <3>2, <3>3 DEF NoneMissed
    <3>9. StepsLeft(t, n + 1)
      <4>1. Len(s.stack) + Cardinality(Ahead(s.out)) + n <= Cardinality(relationships) + 1
        BY <1>1, <1>3 DEF StepsLeft
      <4>2. Len(rest) + Cardinality(Ahead(s.out)) + (n + 1) <= Cardinality(relationships) + 1
        <5> DEFINE c == Cardinality(Ahead(s.out))
                   d == Cardinality(relationships)
                   l == Len(rest)
                   p == Len(s.stack)
        <5>1. c \in Nat /\ d \in Nat /\ p \in Nat /\ l = p - 1 /\ p + c + n <= d + 1
          BY <2>0, <2>1, <2>3, <4>1
        <5> HIDE DEF c, d, l, p
        <5>2. l + c + (n + 1) <= d + 1
          BY <5>1
        <5>3. QED
          BY <5>2 DEF c, d, l, p
      <4>3. QED
        BY <3>2, <4>2 DEF StepsLeft
    <3>10. QED
      BY <3>2, <3>5, <3>6, <3>7, <3>8, <3>9 DEF Walked, t
  <2>6. CASE \A i \in DOMAIN s.out : s.out[i].worker # e.worker
    <3> DEFINE new == Entries(root, e.worker, e.depth + 1)
               m == Len(s.out)
    <3>1. t = [stack |-> new \o rest, out |-> Append(s.out, e)]
      BY <1>3, <2>6 DEF Step
    <3> HIDE DEF e, rest, t, new
    <3>2. t.stack = new \o rest /\ t.out = Append(s.out, e)
      BY <3>1
    <3>3. /\ new \in Seq(TreeRow) /\ Len(new) <= Cardinality(Of(e.worker))
          /\ \A i \in DOMAIN new : new[i].depth = e.depth + 1 /\ Joined(root, e.worker, new[i])
          /\ \A r \in Drawn(root, e.worker) : \E i \in DOMAIN new : new[i].worker = r.child
      <4>1. e.depth + 1 \in Nat
        BY <2>2
      <4>2. QED
        BY <2>2, <4>1, EntriesAre DEF new
    <3>4. /\ t.stack \in Seq(TreeRow) /\ Len(t.stack) = Len(new) + Len(rest)
          /\ In(t.stack) = In(new) \cup In(rest)
          /\ \A i \in DOMAIN new : t.stack[i] = new[i]
          /\ \A i \in DOMAIN t.stack : i \in DOMAIN new \/ (i - Len(new) \in DOMAIN rest /\ t.stack[i] = rest[i - Len(new)])
      <4> DEFINE b == new \o rest
      <4>1. b \in Seq(TreeRow) /\ IsBoth(new, rest, b)
        BY <2>1, <3>3, InBoth
      <4>2. t.stack = b
        BY <3>2
      <4> HIDE DEF b
      <4>3. QED
        BY <4>1, <4>2 DEF IsBoth
    <3>5. /\ t.out \in Seq(TreeRow) /\ Len(t.out) = m + 1 /\ DOMAIN t.out = 1..(m + 1)
          /\ t.out[m + 1] = e /\ \A i \in 1..m : t.out[i] = s.out[i]
          /\ In(t.out) = In(s.out) \cup {e} /\ DOMAIN s.out = 1..m /\ m \in Nat
      <4>1. In(t.out) = In(s.out) \cup {e}
        BY <2>0, <2>1, <3>2, InAppend
      <4>2. QED
        BY <2>0, <2>1, <3>2, <4>1
    <3>6. \A x \in In(new) : Joined(root, e.worker, x) /\ x.depth = e.depth + 1
      BY <3>3 DEF In
    <3>7. \A x \in In(t.out) \cup In(t.stack) : x.worker \in Descendants(root)
      <4>1. ASSUME NEW x \in In(new) PROVE x.worker \in Descendants(root)
        <5>1. PICK r \in relationships : r.parent = e.worker /\ r.child = x.worker
          BY <3>6 DEF Joined, Drawn
        <5>2. QED
          BY <2>2, <5>1, DescendantsFollow
      <4>2. QED
        BY <1>1, <2>1, <2>2, <3>4, <3>5, <4>1
    <3>8. Once(t.out)
      <4>1. ASSUME NEW i \in 1..(m + 1), NEW j \in 1..(m + 1), t.out[i].worker = t.out[j].worker PROVE i = j
        <5>1. (i \in 1..m \/ i = m + 1) /\ (j \in 1..m \/ j = m + 1)
          BY <3>5
        <5>2. CASE i \in 1..m /\ j \in 1..m
          BY <1>1, <3>5, <4>1, <5>2 DEF Once
        <5>3. QED
          BY <2>6, <3>5, <4>1, <5>1, <5>2
      <4>2. QED
        BY <3>5, <4>1 DEF Once
    <3>9. ASSUME NEW k \in 0..m, NEW x, Hangs(root, s.out, k, x) PROVE Hangs(root, t.out, k, x)
      <4>1. \A i \in 1..k : i \in 1..m /\ t.out[i] = s.out[i]
        BY <3>5
      <4>2. PICK j \in 1..k : /\ s.out[j].depth + 1 = x.depth /\ Joined(root, s.out[j].worker, x)
                              /\ \A l \in (j + 1)..k : s.out[l].depth > s.out[j].depth
        BY <3>9 DEF Hangs
      <4>3. \A l \in (j + 1)..k : l \in 1..k
        BY <3>5
      <4>4. \A l \in (j + 1)..k : t.out[l].depth > t.out[j].depth
        BY <4>1, <4>2, <4>3
      <4>5. QED
        BY <4>1, <4>2, <4>4 DEF Hangs
    <3>10. s.out # <<>> => Hangs(root, t.out, m, e)
      <4>1. m \in 0..m
        BY <3>5
      <4>2. QED
        BY <1>1, <2>1, <3>9, <4>1 DEF EntriesHang
    <3>11. RowsHang(root, t.out)
      <4>1. ASSUME NEW i \in 1..(m + 1), i # 1 PROVE Hangs(root, t.out, i - 1, t.out[i])
        <5>1. CASE i = m + 1
          <6>1. s.out # <<>> /\ i - 1 = m
            BY <3>5, <4>1, <5>1
          <6>2. QED
            BY <3>5, <3>10, <5>1, <6>1
        <5>2. CASE i # m + 1
          <6>1. i \in DOMAIN s.out /\ i - 1 \in 0..m /\ t.out[i] = s.out[i]
            BY <3>5, <4>1, <5>2
          <6>2. Hangs(root, s.out, i - 1, s.out[i])
            BY <1>1, <4>1, <6>1 DEF RowsHang
          <6>3. QED
            BY <3>9, <6>1, <6>2
        <5>3. QED
          BY <5>1, <5>2
      <4>2. QED
        BY <3>5, <4>1 DEF RowsHang
    <3>12. EntriesHang(root, t)
      <4>1. t.out # <<>>
        BY <3>5
      <4>2. t.out[1].worker = root
        <5>1. CASE s.out = <<>>
          <6>1. m = 0 /\ s = Start(root)
            BY <1>1, <5>1 DEF EntriesHang
          <6>2. e.worker = root
            BY <6>1 DEF Start, e
          <6>3. QED
            BY <3>5, <6>1, <6>2
        <5>2. CASE s.out # <<>>
          <6>1. 1 \in 1..m
            BY <2>0, <3>5, <5>2
          <6>2. QED
            BY <1>1, <3>5, <5>2, <6>1 DEF EntriesHang
        <5>3. QED
          BY <5>1, <5>2
      <4>3. ASSUME NEW x \in In(new) PROVE Hangs(root, t.out, m + 1, x)
        <5>1. m + 1 \in 1..(m + 1) /\ ((m + 1) + 1)..(m + 1) = {}
          BY <3>5
        <5>2. t.out[m + 1].depth + 1 = x.depth /\ Joined(root, t.out[m + 1].worker, x)
          BY <3>5, <3>6
        <5>3. QED
          BY <5>1, <5>2 DEF Hangs
      <4>4. ASSUME NEW x \in In(rest) PROVE Hangs(root, t.out, m + 1, x)
        <5>1. s.out # <<>>
          <6> SUFFICES ASSUME s.out = <<>> PROVE FALSE
            OBVIOUS
          <6>1. s.stack = <<[worker |-> root, depth |-> 0, via |-> 0]>>
            BY <1>1 DEF EntriesHang, Start
          <6>2. Len(rest) = 0
            BY <2>1, <6>1
          <6>3. QED
            BY <2>1, <6>2 DEF In
        <5>2. x \in In(s.stack) /\ x.depth <= e.depth
          BY <2>1, <2>4
        <5>3. PICK j \in 1..m : /\ s.out[j].depth + 1 = x.depth /\ Joined(root, s.out[j].worker, x)
                                /\ \A l \in (j + 1)..m : s.out[l].depth > s.out[j].depth
          BY <1>1, <5>1, <5>2 DEF EntriesHang, Hangs
        <5>4. j \in 1..(m + 1) /\ t.out[j] = s.out[j] /\ s.out[j].depth \in Nat
          <6>1. s.out[j] \in TreeRow /\ j \in 1..(m + 1) /\ t.out[j] = s.out[j]
            BY <2>0, <3>5
          <6>2. QED
            BY <6>1 DEF TreeRow
        <5>5. ASSUME NEW l \in (j + 1)..(m + 1) PROVE t.out[l].depth > t.out[j].depth
          <6>1. CASE l = m + 1
            <7>1. e.depth > s.out[j].depth
              BY <2>2, <5>2, <5>3, <5>4
            <7>2. QED
              BY <3>5, <5>4, <6>1, <7>1
          <6>2. CASE l # m + 1
            <7>1. l \in (j + 1)..m /\ l \in 1..m
              BY <3>5, <6>2
            <7>2. QED
              BY <3>5, <5>3, <5>4, <7>1
          <6>3. QED
            BY <6>1, <6>2
        <5>6. QED
          BY <5>3, <5>4, <5>5 DEF Hangs
      <4>5. QED
        BY <3>4, <3>5, <4>1, <4>2, <4>3, <4>4 DEF EntriesHang
    <3>13. DeepestFirst(t.stack)
      <4>1. ASSUME NEW i \in DOMAIN t.stack, NEW j \in DOMAIN t.stack, i <= j
            PROVE  t.stack[j].depth <= t.stack[i].depth
        <5>1. DOMAIN new = 1..Len(new) /\ Len(new) \in Nat /\ DOMAIN rest = 1..Len(rest) /\ Len(rest) \in Nat
          BY <2>1, <3>3
        <5>2. CASE i \in DOMAIN new
          <6>1. t.stack[i].depth = e.depth + 1
            BY <3>3, <3>4, <5>2
          <6>2. t.stack[j] \in In(new) \cup In(rest)
            BY <3>4 DEF In
          <6>3. t.stack[j].depth \in Nat /\ (t.stack[j].depth = e.depth + 1 \/ t.stack[j].depth <= e.depth)
            <7>1. t.stack[j] \in TreeRow
              BY <3>4
            <7>2. t.stack[j].depth \in Nat
              BY <7>1 DEF TreeRow
            <7>3. QED
              BY <2>4, <3>6, <6>2, <7>2
          <6>4. QED
            BY <2>2, <6>1, <6>3
        <5>3. CASE i \notin DOMAIN new
          <6>0. i \in Nat /\ j \in Nat
            BY <3>4
          <6>1. i - Len(new) \in DOMAIN rest /\ t.stack[i] = rest[i - Len(new)]
            BY <3>4, <5>3
          <6>2. i > Len(new) /\ j > Len(new) /\ j \notin DOMAIN new
            BY <4>1, <5>1, <6>0, <6>1
          <6>3. j - Len(new) \in DOMAIN rest /\ t.stack[j] = rest[j - Len(new)] /\ i - Len(new) <= j - Len(new)
            BY <3>4, <4>1, <5>1, <6>0, <6>2
          <6>4. QED
            BY <2>4, <6>1, <6>3 DEF DeepestFirst
        <5>4. QED
          BY <5>2, <5>3
      <4>2. QED
        BY <4>1 DEF DeepestFirst
    <3>14. NoneMissed(root, t)
      <4>1. ASSUME NEW x \in In(t.out), NEW r \in Drawn(root, x.worker)
            PROVE  \E y \in In(t.out) \cup In(t.stack) : y.worker = r.child
        <5>1. CASE x \in In(s.out)
          <6>1. PICK y \in In(s.out) \cup In(s.stack) : y.worker = r.child
            BY <1>1, <5>1 DEF NoneMissed
          <6>2. y \in In(t.out) \cup In(t.stack)
            BY <2>1, <3>4, <3>5, <6>1
          <6>3. QED
            BY <6>1, <6>2
        <5>2. CASE x = e
          <6>1. PICK i \in DOMAIN new : new[i].worker = r.child
            BY <3>3, <5>2
          <6>2. new[i] \in In(t.stack)
            BY <3>4 DEF In
          <6>3. QED
            BY <6>1, <6>2
        <5>3. QED
          BY <3>5, <5>1, <5>2
      <4>2. QED
        BY <4>1 DEF NoneMissed
    <3>15. StepsLeft(t, n + 1)
      <4>1. Len(s.stack) + Cardinality(Ahead(s.out)) + n <= Cardinality(relationships) + 1
        BY <1>1, <1>3 DEF StepsLeft
      <4>2. Of(e.worker) \in SUBSET Ahead(s.out)
        BY <2>6 DEF Of, Ahead
      <4>3. Ahead(t.out) = Ahead(s.out) \ Of(e.worker)
        <5>1. ASSUME NEW r \in relationships
              PROVE  (\A i \in DOMAIN t.out : t.out[i].worker # r.parent)
                       <=> (\A i \in DOMAIN s.out : s.out[i].worker # r.parent) /\ r.parent # e.worker
          <6>1. \A i \in 1..(m + 1) : i \in 1..m \/ i = m + 1
            BY <3>5
          <6>2. m + 1 \in 1..(m + 1) /\ \A i \in 1..m : i \in 1..(m + 1)
            BY <3>5
          <6>3. QED
            BY <3>5, <6>1, <6>2
        <5>2. QED
          BY <5>1 DEF Ahead, Of
      <4>4. Cardinality(Ahead(s.out)) = Cardinality(Ahead(t.out)) + Cardinality(Of(e.worker))
            /\ Cardinality(Ahead(t.out)) \in Nat /\ Cardinality(Of(e.worker)) \in Nat
        <5> DEFINE A == Ahead(t.out)
                   B == Of(e.worker)
        <5>1. A \cup B = Ahead(s.out) /\ A \cap B = {}
          BY <4>2, <4>3
        <5>2. A \in SUBSET Ahead(s.out) /\ B \in SUBSET Ahead(s.out)
          BY <4>2, <4>3
        <5> HIDE DEF A, B
        <5>3. IsFiniteSet(A) /\ IsFiniteSet(B)
          BY <2>3, <5>2, FS_Subset
        <5>4. Cardinality(A \cup B) = Cardinality(A) + Cardinality(B) - Cardinality(A \cap B)
          BY <5>3, FS_Union
        <5>5. Cardinality(A) \in Nat /\ Cardinality(B) \in Nat /\ Cardinality({}) = 0
          BY <5>3, FS_CardinalityType, FS_EmptySet
        <5>6. Cardinality(Ahead(s.out)) = Cardinality(A) + Cardinality(B)
          BY <5>1, <5>4, <5>5
        <5>7. QED
          BY <5>5, <5>6 DEF A, B
      <4>5. Len(new) \in Nat /\ Len(rest) \in Nat
        BY <2>1, <3>3
      <4>6. (Len(new) + Len(rest)) + Cardinality(Ahead(t.out)) + (n + 1) <= Cardinality(relationships) + 1
        <5> DEFINE a == Cardinality(Ahead(t.out))
                   b == Cardinality(Of(e.worker))
                   c == Cardinality(Ahead(s.out))
                   d == Cardinality(relationships)
                   k == Len(new)
                   l == Len(rest)
                   p == Len(s.stack)
        <5>1. /\ a \in Nat /\ b \in Nat /\ c = a + b /\ d \in Nat /\ k \in Nat /\ l \in Nat /\ p \in Nat
              /\ l = p - 1 /\ k <= b /\ p + c + n <= d + 1
          BY <2>0, <2>1, <2>3, <3>3, <4>1, <4>4, <4>5
        <5> HIDE DEF a, b, c, d, k, l, p
        <5>2. (k + l) + a + (n + 1) <= d + 1
          BY <5>1
        <5>3. QED
          BY <5>2 DEF a, b, c, d, k, l, p
      <4>7. QED
        BY <3>4, <4>6 DEF StepsLeft
    <3>16. t \in [stack : Seq(TreeRow), out : Seq(TreeRow)]
      <4>1. t = [stack |-> t.stack, out |-> t.out]
        BY <3>1, <3>2
      <4>2. QED
        BY <3>4, <3>5, <4>1
    <3>17. QED
      BY <3>7, <3>8, <3>11, <3>12, <3>13, <3>14, <3>15, <3>16 DEF Walked, t
  <2>7. QED
    BY <2>5, <2>6
<1>4. QED
  BY <1>2, <1>3

(* The walk ends with nothing left to draw.                                *)
LEMMA TreeIsWalked ==
  ASSUME KinInv, NEW root \in Workers
  PROVE  \E s : Walked(root, s, Cardinality(relationships) + 1) /\ s.out = Tree(root)
<1> DEFINE N == Cardinality(relationships) + 1
           Goes(f, k) == f = [n \in 0..k |-> IF n = 0 THEN Start(root) ELSE Step(root, f[n - 1])]
           walk == CHOOSE f : Goes(f, N)
           Lost == {k \in 0..N : ~ \E f : Goes(f, k)}
           Odd == {n \in 0..N : ~Walked(root, walk[n], n)}
<1>1. N \in Nat /\ N \in 0..N /\ 0 \in 0..N
  BY FS_CardinalityType DEF KinInv
<1>2. Tree(root) = walk[N].out
  BY DEF Tree, Start, Step
<1> HIDE DEF N
<1>3. Lost = {}
  <2> SUFFICES ASSUME Lost # {} PROVE FALSE
    OBVIOUS
  <2>1. PICK k \in Lost : \A m \in Lost : k <= m
    <3>1. Lost \in SUBSET Nat
      <4> HIDE DEF Goes
      <4>1. QED
        BY <1>1
    <3> HIDE DEF Lost
    <3>2. QED
      BY <3>1, LeastOf
  <2>2. k \in 0..N /\ ~ \E f : Goes(f, k)
    BY <2>1
  <2>3. CASE k = 0
    <3> DEFINE f == [n \in 0..0 |-> Start(root)]
    <3>1. DOMAIN f = 0..0 /\ \A n \in 0..0 : n = 0 /\ f[n] = Start(root)
      OBVIOUS
    <3>2. f = [n \in 0..0 |-> IF n = 0 THEN Start(root) ELSE Step(root, f[n - 1])]
      OBVIOUS
    <3>3. Goes(f, k)
      BY <2>3, <3>2
    <3>4. QED
      BY <2>2, <3>3
  <2>4. CASE k # 0
    <3>1. k - 1 \in 0..N /\ k - 1 < k /\ k - 1 \in 0..(k - 1)
      BY <1>1, <2>2, <2>4
    <3>2. k - 1 \notin Lost
      <4> HIDE DEF Lost
      <4>1. QED
        BY <1>1, <2>1, <2>2, <3>1
    <3>3. PICK f : Goes(f, k - 1)
      BY <3>1, <3>2
    <3> DEFINE g == [n \in 0..k |-> IF n < k THEN f[n] ELSE Step(root, f[k - 1])]
    <3>4. f = [n \in 0..(k - 1) |-> IF n = 0 THEN Start(root) ELSE Step(root, f[n - 1])]
      BY <3>3
    <3>5. ASSUME NEW n \in 0..k PROVE g[n] = IF n = 0 THEN Start(root) ELSE Step(root, g[n - 1])
      <4>1. CASE n = k
        <5>1. k \in 0..k /\ k - 1 \in 0..k /\ k - 1 < k /\ ~(k < k)
          BY <1>1, <2>2, <2>4
        <5>2. g[k] = Step(root, f[k - 1]) /\ g[k - 1] = f[k - 1]
          BY <5>1
        <5> HIDE DEF g
        <5>3. QED
          BY <5>2, <4>1, <2>4
      <4>2. CASE n # k
        <5>1. n \in 0..(k - 1) /\ n < k
          BY <1>1, <2>2, <4>2
        <5>2. g[n] = f[n]
          BY <5>1
        <5>3. n # 0 => g[n - 1] = f[n - 1]
          <6>1. n # 0 => n - 1 \in 0..k /\ n - 1 < k
            BY <1>1, <2>2, <5>1
          <6>2. QED
            BY <6>1
        <5>4. f[n] = IF n = 0 THEN Start(root) ELSE Step(root, f[n - 1])
          BY <3>4, <5>1
        <5> HIDE DEF g
        <5>5. QED
          BY <5>2, <5>3, <5>4
      <4>3. QED
        BY <4>1, <4>2
    <3>6. g = [n \in 0..k |-> IF n = 0 THEN Start(root) ELSE Step(root, g[n - 1])]
      <4>1. DOMAIN g = 0..k /\ g = [n \in 0..k |-> g[n]]
        OBVIOUS
      <4> HIDE DEF g
      <4>2. QED
        BY <3>5, <4>1
    <3>7. Goes(g, k)
      BY <3>6
    <3>8. QED
      BY <2>2, <3>7
  <2>5. QED
    BY <2>3, <2>4
<1>4. \A n \in 0..N : walk[n] = IF n = 0 THEN Start(root) ELSE Step(root, walk[n - 1])
  <2>1. \E f : Goes(f, N)
    BY <1>1, <1>3
  <2>2. Goes(walk, N)
    <3> HIDE DEF Goes
    <3>1. QED
      BY <2>1
  <2>3. walk = [n \in 0..N |-> IF n = 0 THEN Start(root) ELSE Step(root, walk[n - 1])]
    BY <2>2
  <2> HIDE DEF walk
  <2>4. QED
    BY <2>3
<1> HIDE DEF walk
<1>5. Odd = {}
  <2> SUFFICES ASSUME Odd # {} PROVE FALSE
    OBVIOUS
  <2>1. PICK n \in Odd : \A m \in Odd : n <= m
    <3>1. Odd \in SUBSET Nat
      BY <1>1
    <3> HIDE DEF Odd
    <3>2. QED
      BY <3>1, LeastOf
  <2>2. n \in 0..N /\ ~Walked(root, walk[n], n)
    BY <2>1
  <2>3. CASE n = 0
    BY <1>4, <2>2, <2>3, WalkStarts
  <2>4. CASE n # 0
    <3>1. n - 1 \in 0..N /\ n - 1 \in Nat /\ (n - 1) + 1 = n /\ n - 1 < n /\ n \in Nat
      BY <1>1, <2>2, <2>4
    <3>2. n - 1 \notin Odd
      <4> HIDE DEF Odd
      <4>1. QED
        BY <2>1, <3>1
    <3>3. Walked(root, walk[n - 1], n - 1)
      BY <3>1, <3>2
    <3>4. Walked(root, Step(root, walk[n - 1]), (n - 1) + 1)
      BY <3>1, <3>3, WalkGoes
    <3>5. QED
      BY <1>4, <2>2, <2>4, <3>1, <3>4
  <2>5. QED
    BY <2>3, <2>4
<1>6. Walked(root, walk[N], N)
  BY <1>1, <1>5
<1>7. QED
  BY <1>2, <1>6 DEF N

(* A tree shows all of its root's descendants, once each and in order, and *)
(* nobody who descends by explicit records as a mere member.               *)
LEMMA TreeSound ==
  ASSUME KinInv, NEW root \in Workers
  PROVE  LET tree == Tree(root)
         IN /\ {tree[i].worker : i \in DOMAIN tree} = Descendants(root)
            /\ \A i, j \in DOMAIN tree : tree[i].worker = tree[j].worker => i = j
            /\ \A i \in DOMAIN tree \ {1} : \E j \in 1..(i - 1), r \in relationships :
                 /\ tree[j].depth + 1 = tree[i].depth
                 /\ r.parent = tree[j].worker /\ r.child = tree[i].worker
                 /\ r.kind = tree[i].via
                 /\ \A k \in (j + 1)..i : tree[k].depth > tree[j].depth
            /\ \A id \in Descendants(root) :
                 root \in Ancestors(id) => Row(tree, id).via # Membership
<1> DEFINE N == Cardinality(relationships) + 1
           tree == Tree(root)
<1>1. PICK s : Walked(root, s, N) /\ s.out = tree
  BY TreeIsWalked
<1> HIDE DEF tree
<1>2. /\ s \in [stack : Seq(TreeRow), out : Seq(TreeRow)]
      /\ \A x \in In(s.out) \cup In(s.stack) : x.worker \in Descendants(root)
      /\ Once(s.out) /\ RowsHang(root, s.out) /\ EntriesHang(root, s)
      /\ DeepestFirst(s.stack) /\ NoneMissed(root, s) /\ StepsLeft(s, N)
  BY <1>1 DEF Walked
<1>3. tree \in Seq(TreeRow) /\ s.stack \in Seq(TreeRow)
  BY <1>1, <1>2
<1>4. s.stack = <<>>
  <2> SUFFICES ASSUME s.stack # <<>> PROVE FALSE
    OBVIOUS
  <2>1. IsFiniteSet(relationships) /\ Ahead(s.out) \in SUBSET relationships
    BY DEF KinInv, Ahead
  <2>2. Cardinality(relationships) \in Nat /\ Cardinality(Ahead(s.out)) \in Nat
    BY <2>1, FS_Subset, FS_CardinalityType
  <2>3. Len(s.stack) + Cardinality(Ahead(s.out)) + N <= N
    BY <1>2 DEF StepsLeft
  <2>4. Len(s.stack) \in Nat /\ Len(s.stack) # 0
    BY <1>3
  <2>5. QED
    BY <2>2, <2>3, <2>4
<1>5. In(s.stack) = {} /\ In(tree) = {tree[i] : i \in DOMAIN tree}
  BY <1>4 DEF In
<1>6. tree # <<>> /\ tree[1].worker = root /\ 1 \in DOMAIN tree
  <2>1. tree # <<>>
    <3> SUFFICES ASSUME tree = <<>> PROVE FALSE
      OBVIOUS
    <3>1. s.stack = <<[worker |-> root, depth |-> 0, via |-> 0]>>
      BY <1>1, <1>2 DEF EntriesHang, Start
    <3>2. Len(s.stack) = 1
      BY <3>1
    <3>3. QED
      BY <1>4, <3>2
  <2>2. QED
    BY <1>1, <1>2, <1>3, <2>1 DEF EntriesHang
<1> DEFINE D == {tree[i].worker : i \in DOMAIN tree}
<1>7. \A r \in relationships : \A i \in DOMAIN tree :
        r.parent = tree[i].worker /\ ~(r.kind = Membership /\ root \in Ancestors(r.child)) => r.child \in D
  <2>1. ASSUME NEW r \in relationships, NEW i \in DOMAIN tree, r.parent = tree[i].worker,
               ~(r.kind = Membership /\ root \in Ancestors(r.child))
        PROVE  r.child \in D
    <3>1. r \in Drawn(root, tree[i].worker)
      BY <2>1 DEF Drawn
    <3>2. tree[i] \in In(tree)
      BY DEF In
    <3>3. PICK y \in In(tree) : y.worker = r.child
      BY <1>1, <1>2, <1>5, <3>1, <3>2 DEF NoneMissed
    <3>4. QED
      BY <3>3 DEF In
  <2>2. QED
    BY <2>1
<1>8. \A r \in relationships : r.parent \in D /\ ~(r.kind = Membership /\ root \in Ancestors(r.child)) => r.child \in D
  BY <1>7
<1>9. D \in SUBSET Workers /\ root \in D /\ D \subseteq Descendants(root)
  <2>1. ASSUME NEW i \in DOMAIN tree PROVE tree[i].worker \in Workers /\ tree[i].worker \in Descendants(root)
    <3>1. tree[i] \in TreeRow /\ tree[i] \in In(s.out)
      BY <1>1, <1>3 DEF In
    <3>2. QED
      BY <1>2, <3>1 DEF TreeRow
  <2>2. QED
    BY <1>6, <2>1
<1> HIDE DEF D
<1>10. relationships \in SUBSET Relationship /\ \A r \in Relationship : r.parent \in Workers /\ r.child \in Workers
  BY DEF KinInv, Relationship
<1>11. ASSUME NEW c \in Workers \ D PROVE root \notin Ancestors(c)
  <2> DEFINE outside == Workers \ D
  <2>1. ASSUME NEW l \in Ups(relationships), l[1] \in outside PROVE l[2] \in outside
    <3>1. PICK r \in relationships : r.kind # Membership /\ l = <<r.child, r.parent>>
      BY DEF Ups
    <3>2. l[1] = r.child /\ l[2] = r.parent
      BY <3>1
    <3>3. QED
      BY <1>8, <1>10, <2>1, <3>1, <3>2
  <2>2. Ancestors(c) \subseteq Above(relationships, c)
    BY DEF Ancestors, Above, Ups, Explicit
  <2>3. Above(relationships, c) \subseteq outside
    <3>1. outside \in SUBSET Workers /\ c \in outside
      OBVIOUS
    <3> HIDE DEF outside
    <3>2. QED
      BY <2>1, <3>1, WalkIsLeast DEF Above
  <2>4. QED
    BY <1>9, <2>2, <2>3
<1>12. \A r \in relationships : r.parent \in D => r.child \in D
  BY <1>8, <1>10, <1>11
<1>13. Descendants(root) \subseteq D
  <2> DEFINE links == {<<r.parent, r.child>> : r \in relationships}
  <2>1. ASSUME NEW l \in links, l[1] \in D PROVE l[2] \in D
    <3>1. PICK r \in relationships : l = <<r.parent, r.child>>
      OBVIOUS
    <3>2. l[1] = r.parent /\ l[2] = r.child
      BY <3>1
    <3>3. QED
      BY <1>12, <2>1, <3>2
  <2>2. Descendants(root) = Reached(links, root)
    BY DEF Descendants
  <2> HIDE DEF links
  <2>3. QED
    BY <1>9, <2>1, <2>2, WalkIsLeast
<1>14. D = Descendants(root)
  BY <1>9, <1>13
<1>15. ASSUME NEW i \in DOMAIN tree \ {1}
       PROVE  \E j \in 1..(i - 1) : \E r \in Drawn(root, tree[j].worker) :
                /\ tree[j].depth + 1 = tree[i].depth
                /\ r \in relationships /\ r.parent = tree[j].worker /\ r.child = tree[i].worker
                /\ r.kind = tree[i].via
                /\ \A k \in (j + 1)..i : tree[k].depth > tree[j].depth
  <2>1. PICK j \in 1..(i - 1) :
           /\ tree[j].depth + 1 = tree[i].depth /\ Joined(root, tree[j].worker, tree[i])
           /\ \A k \in (j + 1)..(i - 1) : tree[k].depth > tree[j].depth
    <3>1. Hangs(root, tree, i - 1, tree[i])
      BY <1>1, <1>2 DEF RowsHang
    <3>2. QED
      BY <3>1 DEF Hangs
  <2>2. PICK r \in Drawn(root, tree[j].worker) : r.child = tree[i].worker /\ r.kind = tree[i].via
    BY <2>1 DEF Joined
  <2>3. r \in relationships /\ r.parent = tree[j].worker
    BY <2>2 DEF Drawn
  <2>4. i \in 1..Len(tree) /\ Len(tree) \in Nat /\ DOMAIN tree = 1..Len(tree)
    BY <1>3
  <2>5. j \in DOMAIN tree /\ tree[j].depth \in Nat /\ tree[i].depth \in Nat
    <3>1. j \in DOMAIN tree /\ i \in DOMAIN tree
      BY <2>4
    <3>2. tree[j] \in TreeRow /\ tree[i] \in TreeRow
      BY <1>3, <3>1
    <3>3. QED
      BY <3>1, <3>2 DEF TreeRow
  <2>6. ASSUME NEW k \in (j + 1)..i PROVE tree[k].depth > tree[j].depth
    <3>1. k = i \/ k \in (j + 1)..(i - 1)
      BY <2>4
    <3>2. QED
      BY <2>1, <2>5, <3>1
  <2>7. QED
    BY <2>1, <2>2, <2>3, <2>6
<1>16. ASSUME NEW id \in Descendants(root), root \in Ancestors(id) PROVE Row(tree, id).via # Membership
  <2>1. \E i \in DOMAIN tree : tree[i].worker = id
    BY <1>14 DEF D
  <2>2. PICK i \in DOMAIN tree : tree[i].worker = id /\ Row(tree, id) = tree[i]
    <3> DEFINE i == CHOOSE k \in DOMAIN tree : tree[k].worker = id
    <3>1. i \in DOMAIN tree /\ tree[i].worker = id
      BY <2>1
    <3>2. Row(tree, id) = tree[i]
      BY DEF Row
    <3> HIDE DEF i
    <3>3. QED
      BY <3>1, <3>2
  <2>3. id # root
    BY <1>16 DEF Ancestors
  <2>4. i \in DOMAIN tree \ {1}
    BY <1>6, <2>2, <2>3
  <2>5. PICK j \in 1..(i - 1) : \E r \in Drawn(root, tree[j].worker) :
           r.child = tree[i].worker /\ r.kind = tree[i].via
    BY <1>15, <2>4
  <2>6. PICK r \in Drawn(root, tree[j].worker) : r.child = id /\ r.kind = tree[i].via
    BY <2>2, <2>5
  <2>7. r.kind # Membership
    BY <1>16, <2>6 DEF Drawn
  <2>8. QED
    BY <2>2, <2>6, <2>7
<1>17. \A i, j \in DOMAIN tree : tree[i].worker = tree[j].worker => i = j
  BY <1>1, <1>2 DEF Once
<1>18. \A i \in DOMAIN tree \ {1} : \E j \in 1..(i - 1), r \in relationships :
         /\ tree[j].depth + 1 = tree[i].depth
         /\ r.parent = tree[j].worker /\ r.child = tree[i].worker
         /\ r.kind = tree[i].via
         /\ \A k \in (j + 1)..i : tree[k].depth > tree[j].depth
  <2>1. ASSUME NEW i \in DOMAIN tree \ {1}
        PROVE  \E j \in 1..(i - 1), r \in relationships :
                 /\ tree[j].depth + 1 = tree[i].depth
                 /\ r.parent = tree[j].worker /\ r.child = tree[i].worker
                 /\ r.kind = tree[i].via
                 /\ \A k \in (j + 1)..i : tree[k].depth > tree[j].depth
    BY <1>15
  <2>2. QED
    BY <2>1
<1>19. QED
  BY <1>14, <1>16, <1>17, <1>18 DEF D, tree

-----------------------------------------------------------------------------
(* What a worker did, and when.                                            *)
Beat == [at : Nat, activity : Activities]

(* The source times of the beats that a worker keeps.                      *)
LEMMA RemembersNewest ==
  ASSUME NEW beats \in Seq(Beat), NEW beat \in Beat, Newest(beats)
  PROVE  Remembered(beats, beat) \in Seq(Beat) /\ Newest(Remembered(beats, beat))
<1> DEFINE n == Len(beats)
           upTo == {i \in DOMAIN beats : beats[i].at <= beat.at}
           before == Cardinality(upTo)
           grown == SubSeq(beats, 1, before) \o <<beat>> \o SubSeq(beats, before + 1, n)
<1>a. n \in Nat /\ DOMAIN beats = 1..n /\ BeatLimit \in Nat \ {0}
  BY WorldAssumption
<1>b. beat.at \in Nat /\ \A i \in 1..n : beats[i].at \in Nat /\ beats[i] \in Beat
  <2>1. \A i \in 1..n : beats[i] \in Beat
    BY <1>a
  <2>2. \A b \in Beat : b.at \in Nat
    BY DEF Beat
  <2>3. QED
    BY <2>1, <2>2
<1>c. n <= BeatLimit /\ \A i, j \in 1..n : i < j => beats[i].at <= beats[j].at /\ beats[i] # beats[j]
  BY <1>a DEF Newest
<1>1. before \in 0..n /\ upTo = 1..before
  <2> DEFINE later == {i \in 1..n : beat.at < beats[i].at}
  <2>1. \E k \in 0..n : upTo = 1..k
    <3>1. CASE later = {}
      <4>1. upTo = 1..n
        BY <1>a, <1>b, <3>1
      <4>2. QED
        BY <1>a, <4>1
    <3>2. CASE later # {}
      <4>1. later \in SUBSET Nat
        BY <1>a
      <4>2. PICK k \in later : \A i \in later : k <= i
        BY <3>2, <4>1, LeastOf
      <4>3. k \in 1..n /\ beat.at < beats[k].at
        BY <4>2
      <4>4. \A i \in 1..n : i < k => beats[i].at <= beat.at
        BY <1>a, <1>b, <4>2, <4>3
      <4>5. \A i \in 1..n : i >= k => beat.at < beats[i].at
        BY <1>a, <1>b, <1>c, <4>3
      <4>6. upTo = 1..(k - 1) /\ k - 1 \in 0..n
        BY <1>a, <1>b, <4>3, <4>4, <4>5
      <4>7. QED
        BY <4>6
    <3>3. QED
      BY <3>1, <3>2
  <2>2. PICK k \in 0..n : upTo = 1..k
    BY <2>1
  <2>3. Cardinality(1..k) = k
    <3>1. k \in Nat
      BY <1>a, <2>2
    <3>2. QED
      BY <3>1, FS_Interval
  <2>4. QED
    BY <2>2, <2>3
<1> HIDE DEF before, upTo
<1>2. /\ grown \in Seq(Beat) /\ Len(grown) = n + 1
      /\ \A i \in 1..(n + 1) : grown[i] = IF i <= before THEN beats[i]
                                          ELSE IF i = before + 1 THEN beat ELSE beats[i - 1]
  <2> DEFINE first == SubSeq(beats, 1, before)
             rest == SubSeq(beats, before + 1, n)
  <2>1. /\ first \in Seq(Beat) /\ Len(first) = before
        /\ \A i \in 1..before : first[i] = beats[i]
    BY <1>1, <1>a
  <2>2. /\ rest \in Seq(Beat) /\ Len(rest) = n - before
        /\ \A i \in 1..(n - before) : rest[i] = beats[before + i]
    <3>1. rest = [i \in 1..(n - before) |-> beats[before + i]]
      <4>1. before \in Nat /\ (before + 1)..n = (before + 1)..Len(beats)
        BY <1>1, <1>a
      <4>2. rest = [i \in 1..(n - (before + 1) + 1) |-> beats[i + (before + 1) - 1]]
        BY <1>1, <1>a
      <4>3. n - (before + 1) + 1 = n - before
        BY <1>a, <4>1
      <4>4. \A i \in 1..(n - before) : i + (before + 1) - 1 = before + i
        BY <1>a, <4>1
      <4>5. QED
        BY <4>2, <4>3, <4>4
    <3>2. \A i \in 1..(n - before) : before + i \in 1..n
      BY <1>1, <1>a
    <3>3. \A i \in 1..(n - before) : beats[before + i] \in Beat
      BY <1>b, <3>2
    <3>4. n - before \in Nat
      BY <1>1, <1>a
    <3> HIDE DEF rest
    <3>5. QED
      BY <3>1, <3>3, <3>4
  <2>3. <<beat>> \in Seq(Beat) /\ Len(<<beat>>) = 1 /\ <<beat>>[1] = beat
    OBVIOUS
  <2> HIDE DEF first, rest
  <2>4. /\ first \o <<beat>> \in Seq(Beat) /\ Len(first \o <<beat>>) = before + 1
        /\ \A i \in 1..(before + 1) : (first \o <<beat>>)[i] = IF i <= before THEN beats[i] ELSE beat
    <3>1. first \o <<beat>> \in Seq(Beat) /\ Len(first \o <<beat>>) = before + 1
      BY <2>1, <2>3, ConcatProperties
    <3>2. ASSUME NEW i \in 1..(before + 1)
          PROVE  (first \o <<beat>>)[i] = IF i <= before THEN beats[i] ELSE beat
      <4>1. (first \o <<beat>>)[i] = IF i <= before THEN first[i] ELSE <<beat>>[i - before]
        BY <2>1, <2>3, ConcatProperties
      <4>2. i > before => i - before = 1
        BY <1>1, <1>a
      <4>3. i <= before => i \in 1..before
        BY <1>1, <1>a
      <4>4. i <= before \/ i > before
        BY <1>1, <1>a
      <4>5. QED
        BY <2>1, <2>3, <4>1, <4>2, <4>3, <4>4
    <3>3. QED
      BY <3>1, <3>2
  <2> DEFINE most == first \o <<beat>>
  <2>9. /\ most \in Seq(Beat) /\ Len(most) = before + 1
        /\ \A i \in 1..(before + 1) : most[i] = IF i <= before THEN beats[i] ELSE beat
    BY <2>4
  <2> HIDE DEF most
  <2>5. most \o rest \in Seq(Beat) /\ Len(most \o rest) = n + 1
    <3>a. most \in Seq(Beat) /\ rest \in Seq(Beat)
      BY <2>2, <2>9
    <3>b. Len(most \o rest) = Len(most) + Len(rest)
      BY <3>a
    <3>1. Len(most \o rest) = (before + 1) + (n - before)
      BY <2>2, <2>9, <3>b
    <3>2. QED
      BY <1>1, <1>a, <2>2, <2>9, <3>1, ConcatProperties
  <2>6. ASSUME NEW i \in 1..(n + 1)
        PROVE  (most \o rest)[i] = IF i <= before THEN beats[i]
                                   ELSE IF i = before + 1 THEN beat ELSE beats[i - 1]
    <3>1. i \in 1..(Len(most) + Len(rest))
      BY <1>1, <1>a, <2>2, <2>9
    <3>2. (most \o rest)[i] = IF i <= before + 1 THEN most[i] ELSE rest[i - (before + 1)]
      BY <2>2, <2>9, <3>1, ConcatProperties
    <3>3. CASE i <= before + 1
      <4>1. i \in 1..(before + 1) /\ (i <= before \/ i = before + 1) /\ ~(before + 1 <= before)
        BY <1>1, <1>a, <3>3
      <4>2. QED
        BY <2>9, <3>2, <3>3, <4>1
    <3>4. CASE ~(i <= before + 1)
      <4>1. i - (before + 1) \in 1..(n - before) /\ before + (i - (before + 1)) = i - 1
            /\ ~(i <= before) /\ i # before + 1
        BY <1>1, <1>a, <3>4
      <4>2. QED
        BY <2>2, <3>2, <3>4, <4>1
    <3>5. QED
      BY <3>3, <3>4
  <2>7. QED
    BY <2>5, <2>6 DEF most, first, rest
<1> HIDE DEF grown
<1>3. CASE \E i \in DOMAIN beats : beats[i] = beat
  BY <1>3 DEF Remembered
<1>4. CASE ~\E i \in DOMAIN beats : beats[i] = beat
  <2>1. \A i \in 1..n : beats[i] # beat
    BY <1>4, <1>a
  <2>2. \A i \in 1..n : i <= before <=> beats[i].at <= beat.at
    BY <1>1, <1>a DEF upTo
  <2>3. ASSUME NEW i \in 1..(n + 1), NEW j \in 1..(n + 1), i < j
        PROVE  grown[i].at <= grown[j].at /\ grown[i] # grown[j]
    <3>1. CASE j <= before
      <4>1. grown[i] = beats[i] /\ grown[j] = beats[j] /\ i \in 1..n /\ j \in 1..n
        BY <1>1, <1>2, <1>a, <2>3, <3>1
      <4>2. QED
        BY <1>c, <2>3, <4>1
    <3>2. CASE j = before + 1
      <4>1. i <= before /\ i \in 1..n
        BY <1>1, <1>a, <2>3, <3>2
      <4>2. grown[i] = beats[i] /\ grown[j] = beat
        BY <1>1, <1>2, <1>a, <3>2, <4>1
      <4>3. QED
        BY <2>1, <2>2, <4>1, <4>2
    <3>3. CASE j > before + 1
      <4>1. grown[j] = beats[j - 1] /\ j - 1 \in 1..n /\ j - 1 > before
        BY <1>1, <1>2, <1>a, <3>3
      <4>2. CASE i <= before
        <5>1. grown[i] = beats[i] /\ i \in 1..n /\ i < j - 1
          BY <1>1, <1>2, <1>a, <4>1, <4>2
        <5>2. QED
          BY <1>c, <4>1, <5>1
      <4>3. CASE i = before + 1
        <5>1. grown[i] = beat
          BY <1>1, <1>2, <1>a, <4>3
        <5>2. ~(beats[j - 1].at <= beat.at)
          BY <2>2, <4>1, <1>1, <1>a
        <5>3. beat.at <= beats[j - 1].at /\ beats[j - 1] # beat
          BY <1>b, <2>1, <4>1, <5>2
        <5>4. QED
          BY <4>1, <5>1, <5>3
      <4>4. CASE i > before + 1
        <5>1. grown[i] = beats[i - 1] /\ i - 1 \in 1..n /\ i - 1 < j - 1
          BY <1>1, <1>2, <1>a, <2>3, <4>4
        <5>2. QED
          BY <1>c, <4>1, <5>1
      <4>5. QED
        BY <1>1, <1>a, <4>2, <4>3, <4>4
    <3>4. QED
      BY <1>1, <1>a, <3>1, <3>2, <3>3
  <2>4. Remembered(beats, beat) = IF Len(grown) > BeatLimit THEN Tail(grown) ELSE grown
    BY <1>4 DEF Remembered, grown, before, upTo
  <2>5. CASE Len(grown) > BeatLimit
    <3>1. Tail(grown) \in Seq(Beat) /\ Len(Tail(grown)) = n /\ \A i \in 1..n : Tail(grown)[i] = grown[i + 1]
      BY <1>2, <1>a
    <3>2. ASSUME NEW i \in 1..n, NEW j \in 1..n, i < j
          PROVE  Tail(grown)[i].at <= Tail(grown)[j].at /\ Tail(grown)[i] # Tail(grown)[j]
      <4>1. i + 1 \in 1..(n + 1) /\ j + 1 \in 1..(n + 1) /\ i + 1 < j + 1
        BY <1>a, <3>2
      <4>2. grown[i + 1].at <= grown[j + 1].at /\ grown[i + 1] # grown[j + 1]
        BY <2>3, <4>1
      <4>3. QED
        BY <3>1, <4>2
    <3>3. Newest(Tail(grown))
      BY <1>c, <3>1, <3>2 DEF Newest
    <3>4. QED
      BY <2>4, <2>5, <3>1, <3>3
  <2>6. CASE ~(Len(grown) > BeatLimit)
    <3>1. Len(grown) <= BeatLimit /\ DOMAIN grown = 1..(n + 1)
      BY <1>2, <1>a, <2>6
    <3>2. QED
      BY <1>2, <2>3, <2>4, <2>6, <3>1 DEF Newest
  <2>7. QED
    BY <2>5, <2>6
<1>5. QED
  BY <1>3, <1>4

(* What is made of a finite set, one for one, is no larger.                *)
LEMMA ImageFinite ==
  ASSUME NEW S, IsFiniteSet(S), NEW f, S \subseteq DOMAIN f
  PROVE  IsFiniteSet({f[x] : x \in S}) /\ Cardinality({f[x] : x \in S}) <= Cardinality(S)
<1> DEFINE T == {f[x] : x \in S}
           g == [x \in S |-> f[x]]
<1>1. g \in Surjection(S, T)
  BY DEF Surjection
<1>2. QED
  BY <1>1, FS_Surjection

(* The workers that stay remembered are at most RetiredLimit: their places *)
(* in the order of leaving are the last ones.                              *)
LEMMA ForgottenLimits ==
  ASSUME NEW people, IsFiniteSet(people),
         \A p \in people : p.seen \in Nat /\ p.id \in Nat,
         \A p, q \in people : p.id = q.id => p = q
  PROVE  /\ Forgotten(people) \subseteq people /\ IsFiniteSet(people \ Forgotten(people))
         /\ Cardinality(people \ Forgotten(people)) <= RetiredLimit
<1> DEFINE n == Cardinality(people)
           Sooner_(q, p) == q.seen < p.seen \/ (q.seen = p.seen /\ q.id < p.id)
           before(p) == {q \in people : Sooner_(q, p)}
           kept == people \ Forgotten(people)
           place == [p \in kept |-> Cardinality(before(p))]
<1>a. RetiredLimit \in Nat /\ n \in Nat
  BY WorldAssumption, FS_CardinalityType
<1>1. Forgotten(people) = {p \in people : Cardinality(before(p)) + RetiredLimit < n}
  BY DEF Forgotten
<1>2. kept \in SUBSET people /\ IsFiniteSet(kept)
  <2>1. kept \in SUBSET people
    OBVIOUS
  <2> HIDE DEF kept
  <2>2. QED
    BY <2>1, FS_Subset
<1>3. ASSUME NEW p \in people
      PROVE  IsFiniteSet(before(p)) /\ Cardinality(before(p)) \in Nat /\ Cardinality(before(p)) < n
  <2>1. p \notin before(p)
    OBVIOUS
  <2>2. before(p) \in SUBSET (people \ {p})
    BY <2>1
  <2>3. IsFiniteSet(people \ {p}) /\ Cardinality(people \ {p}) = n - 1
    BY FS_RemoveElement
  <2> HIDE DEF before, n
  <2>4. IsFiniteSet(before(p)) /\ Cardinality(before(p)) <= n - 1
    BY <2>2, <2>3, FS_Subset
  <2>5. Cardinality(before(p)) \in Nat
    BY <2>4, FS_CardinalityType
  <2>6. QED
    BY <1>a, <2>4, <2>5
<1>4. ASSUME NEW p \in people, NEW q \in people, Sooner_(q, p)
      PROVE  Cardinality(before(q)) < Cardinality(before(p))
  <2>1. /\ p.seen \in Nat /\ p.id \in Nat /\ q.seen \in Nat /\ q.id \in Nat
        /\ \A x \in people : x.seen \in Nat /\ x.id \in Nat
    OBVIOUS
  <2>2. \A x \in people : Sooner_(x, q) => Sooner_(x, p)
    BY ONLY <1>4, <2>1
  <2>3. ~Sooner_(q, q)
    BY ONLY <2>1
  <2>4. before(q) \in SUBSET before(p) /\ q \in before(p) /\ q \notin before(q)
    BY <1>4, <2>2, <2>3
  <2> HIDE DEF before
  <2>5. Cardinality(before(q)) <= Cardinality(before(p)) /\ Cardinality(before(q)) # Cardinality(before(p))
    BY <1>3, <2>4, FS_Subset
  <2>6. QED
    BY <1>3, <2>5
<1>5. ASSUME NEW p \in people, NEW q \in people, p # q PROVE Sooner_(p, q) \/ Sooner_(q, p)
  <2>1. p.seen \in Nat /\ p.id \in Nat /\ q.seen \in Nat /\ q.id \in Nat /\ p.id # q.id
    BY <1>5
  <2>2. QED
    BY ONLY <2>1
<1>6. ASSUME NEW p \in kept, NEW q \in kept, place[p] = place[q] PROVE p = q
  <2>1. p \in people /\ q \in people /\ Cardinality(before(p)) = Cardinality(before(q))
    BY <1>6
  <2> HIDE DEF before
  <2>2. QED
    BY <1>3, <1>4, <1>5, <2>1
<1>7. CASE n <= RetiredLimit
  <2>1. Cardinality(kept) <= n
    BY <1>2, FS_Subset
  <2>2. Cardinality(kept) \in Nat
    BY <1>2, FS_CardinalityType
  <2>3. QED
    BY <1>1, <1>2, <1>7, <1>a, <2>1, <2>2
<1>8. CASE RetiredLimit < n
  <2> DEFINE last == (n - RetiredLimit)..(n - 1)
  <2>1. ASSUME NEW p \in kept PROVE place[p] \in last
    <3>1. p \in people /\ ~(Cardinality(before(p)) + RetiredLimit < n)
      BY <1>1
    <3>2. Cardinality(before(p)) \in Nat /\ Cardinality(before(p)) < n
      BY <1>3, <3>1
    <3>3. place[p] = Cardinality(before(p))
      OBVIOUS
    <3> HIDE DEF place, before
    <3>4. QED
      BY <1>a, <3>1, <3>2, <3>3
  <2>2. place \in [kept -> last]
    BY <2>1
  <2> HIDE DEF place, kept
  <2>3. place \in Injection(kept, last)
    BY <1>6, <2>2 DEF Injection, IsInjective
  <2>4. IsFiniteSet(last) /\ Cardinality(last) = RetiredLimit
    <3>1. n - RetiredLimit \in Int /\ n - 1 \in Int
      BY <1>a
    <3>2. IsFiniteSet(last) /\ Cardinality(last) =
            IF n - RetiredLimit > n - 1 THEN 0 ELSE (n - 1) - (n - RetiredLimit) + 1
      BY <3>1, FS_Interval
    <3>3. QED
      BY <1>8, <1>a, <3>2
  <2> HIDE DEF last
  <2>5. Cardinality(kept) <= RetiredLimit
    BY <2>3, <2>4, FS_Injection
  <2>6. QED
    BY <1>1, <1>2, <2>5 DEF kept
<1>9. QED
  BY <1>a, <1>7, <1>8

(* What is known of a worker.                                              *)
Person ==
  [id : Workers, office : Offices, seen : Nat, lifecycle : Lifecycles, turn : BOOLEAN,
   wait : Waits, activity : Activities, beats : Seq(Beat), coverage : SourceCoverage]

(* A worker's record, at a desk, and of a worker that left.                *)
Sound(p) == p \in Person /\ Newest(p.beats) /\ (p.lifecycle \in Ended => ~p.turn)
Here(p) == Sound(p) /\ p.lifecycle # "Removed"
Gone(p) == Sound(p) /\ ~p.turn /\ p.wait = None /\ p.lifecycle \in Ended \cup {"Removed"}

(* Everybody has one record.                                               *)
OneEach(people) == \A p, q \in people : p.id = q.id => p = q

(* These workers, each in the room of its office, and no room empty.       *)
Seating(people, rooms) ==
  /\ DOMAIN rooms = {p.office : p \in people}
  /\ \A o \in DOMAIN rooms : rooms[o] = {p \in people : p.office = o}

(* The people that are here are those whose desk the index names.          *)
AtDesks(people, places) ==
  /\ \A p \in people : Here(p) /\ p.id \in DOMAIN places /\ places[p.id] = p.office
  /\ \A id \in DOMAIN places : \E p \in people : p.id = id
  /\ OneEach(people) /\ IsFiniteSet(DOMAIN places)

(* The people that left have no desk, and are not too many.                *)
GoneFrom(people, places) ==
  /\ \A p \in people : Gone(p) /\ p.id \notin DOMAIN places
  /\ OneEach(people) /\ IsFiniteSet(people) /\ Cardinality(people) <= RetiredLimit

(* The rooms, the index of desks and the records of those that left agree. *)
RosterInv ==
  Seating(Present, offices) /\ AtDesks(Present, desks) /\ GoneFrom(retired, desks)

(* That is what the property says of them.                                 *)
LEMMA RosterMeans == RosterInv => RosterAgrees
<1> SUFFICES ASSUME RosterInv PROVE RosterAgrees
  OBVIOUS
<1>1. \A p \in Present : /\ Here(p) /\ p.id \in DOMAIN desks /\ desks[p.id] = p.office
  BY DEF RosterInv, AtDesks
<1>2. \A p \in retired : Gone(p) /\ p.id \notin DOMAIN desks
  BY DEF RosterInv, GoneFrom
<1>3. \A p, q \in Everyone : p.id = q.id => p = q
  BY <1>1, <1>2 DEF RosterInv, AtDesks, GoneFrom, OneEach, Everyone
<1>4. {p.id : p \in Present} = DOMAIN desks
  BY <1>1 DEF RosterInv, AtDesks
<1>5. ASSUME NEW o \in DOMAIN offices
      PROVE  offices[o] # {} /\ \A p \in offices[o] : p.office = o /\ desks[p.id] = o
  <2>1. offices[o] = {p \in Present : p.office = o} /\ \E p \in Present : p.office = o
    BY DEF RosterInv, Seating
  <2>2. QED
    BY <2>1, <1>1
<1>6. {p.id : p \in retired} \cap DOMAIN desks = {} /\ Cardinality(retired) <= RetiredLimit
  BY <1>2 DEF RosterInv, GoneFrom
<1>7. \A p \in retired : ~p.turn /\ p.wait = None /\ p.lifecycle \in Ended \cup {"Removed"}
  BY <1>2 DEF Gone
<1>8. \A p \in Present : p.lifecycle # "Removed" /\ (p.lifecycle \in Ended => ~p.turn)
  BY <1>1 DEF Here, Sound
<1>9. \A p \in Everyone : Newest(p.beats)
  BY <1>1, <1>2 DEF Here, Gone, Sound, Everyone
<1>10. QED
  BY <1>3, <1>4, <1>5, <1>6, <1>7, <1>8, <1>9 DEF RosterAgrees

(* Everyone is in some room, and in the rooms is everyone.                 *)
LEMMA SeatedAll ==
  ASSUME NEW people, NEW rooms, Seating(people, rooms)
  PROVE  UNION {rooms[o] : o \in DOMAIN rooms} = people
<1>1. ASSUME NEW p \in people PROVE p \in UNION {rooms[o] : o \in DOMAIN rooms}
  <2>1. p.office \in DOMAIN rooms /\ p \in rooms[p.office]
    BY DEF Seating
  <2>2. QED
    BY <2>1
<1>2. \A o \in DOMAIN rooms : rooms[o] \subseteq people
  BY DEF Seating
<1>3. QED
  BY <1>1, <1>2

(* Open keeps every room that somebody sits in, and no other.              *)
LEMMA OpenSeats ==
  ASSUME NEW people, NEW rooms,
         \A p \in people : p.office \in DOMAIN rooms,
         \A o \in DOMAIN rooms : rooms[o] = {p \in people : p.office = o}
  PROVE  Seating(people, Open(rooms))
<1>1. DOMAIN Open(rooms) = {o \in DOMAIN rooms : rooms[o] # {}}
  BY DEF Open
<1>2. \A o \in DOMAIN Open(rooms) : Open(rooms)[o] = rooms[o]
  BY DEF Open
<1>3. ASSUME NEW o \in DOMAIN Open(rooms) PROVE o \in {p.office : p \in people}
  <2>1. o \in DOMAIN rooms /\ rooms[o] # {}
    BY <1>1
  <2>2. rooms[o] = {p \in people : p.office = o}
    BY <2>1
  <2>3. PICK p \in people : p.office = o
    BY <2>1, <2>2
  <2>4. QED
    BY <2>3
<1>4. ASSUME NEW p \in people PROVE p.office \in DOMAIN Open(rooms)
  <2>1. p.office \in DOMAIN rooms
    OBVIOUS
  <2>2. rooms[p.office] = {q \in people : q.office = p.office}
    BY <2>1
  <2>3. rooms[p.office] # {}
    BY <2>2
  <2>4. QED
    BY <1>1, <2>1, <2>3
<1>5. \A o \in DOMAIN Open(rooms) : o \in DOMAIN rooms
  BY <1>1
<1>6. QED
  BY <1>2, <1>3, <1>4, <1>5 DEF Seating

(* Whoever seats people in this way keeps it.                              *)
LEMMA RosterNext ==
  ASSUME NEW people, Seating(people, offices'), AtDesks(people, desks'), GoneFrom(retired', desks')
  PROVE  RosterInv' /\ Present' = people /\ Everyone' = people \cup retired'
<1>1. Present' = people
  BY SeatedAll DEF Present
<1>2. Everyone' = people \cup retired'
  BY <1>1 DEF Everyone
<1>3. Seating(Present, offices)' /\ AtDesks(Present, desks)'
  BY <1>1 DEF Seating, AtDesks
<1>4. GoneFrom(retired, desks)'
  BY DEF GoneFrom
<1>5. QED
  BY <1>1, <1>2, <1>3, <1>4 DEF RosterInv

(* What was known of a worker's sources is what is known now.              *)
CoverageKept ==
  \A p \in Everyone, q \in Everyone' : p.id = q.id => q.coverage = p.coverage

(* When nobody is touched nothing changes.                                 *)
LEMMA NobodyNew ==
  ASSUME RosterInv, UNCHANGED rosterVars
  PROVE  RosterInv' /\ CoverageKept
<1>1. Present' = Present
  BY DEF rosterVars, Present
<1>2. Seating(Present, offices') /\ AtDesks(Present, desks') /\ GoneFrom(retired', desks')
  BY DEF rosterVars, RosterInv
<1>3. RosterInv' /\ Everyone' = Everyone
  BY <1>1, <1>2, RosterNext DEF rosterVars, Everyone
<1>4. QED
  BY <1>3, RosterMeans DEF CoverageKept, RosterAgrees

-----------------------------------------------------------------------------
(* A note about a worker wherever it is kept.                              *)
LEMMA AmendStep ==
  ASSUME RosterInv, NEW id, NEW f, DOMAIN f = Person,
         \A p \in Person : /\ Sound(p) => Sound(f[p])
                           /\ f[p].id = p.id /\ f[p].office = p.office
                           /\ f[p].lifecycle = p.lifecycle /\ f[p].turn = p.turn /\ f[p].wait = p.wait,
         desks' = desks,
         LET amended(people) == {IF p.id = id THEN f[p] ELSE p : p \in people}
         IN IF id \in DOMAIN desks
            THEN /\ offices' = [offices EXCEPT ![desks[id]] = amended(@)]
                 /\ UNCHANGED retired
            ELSE retired' = amended(retired) /\ UNCHANGED offices
  PROVE  /\ RosterInv'
         /\ \A q \in Everyone' : q \in Everyone \/ \E p \in Everyone : p \in Person /\ q = f[p]
<1> DEFINE g == [p \in Person |-> IF p.id = id THEN f[p] ELSE p]
           present == {g[p] : p \in Present}
           left == {g[p] : p \in retired}
<1>1. \A p \in Present : p \in Person /\ Here(p) /\ p.id \in DOMAIN desks /\ desks[p.id] = p.office
  BY DEF RosterInv, AtDesks, Here, Sound
<1>2. \A p \in retired : p \in Person /\ Gone(p) /\ p.id \notin DOMAIN desks
  BY DEF RosterInv, GoneFrom, Gone, Sound
<1>3. ASSUME NEW p \in Person
      PROVE  /\ g[p].id = p.id /\ g[p].office = p.office /\ (Sound(p) => Sound(g[p]))
             /\ g[p].lifecycle = p.lifecycle /\ g[p].turn = p.turn /\ g[p].wait = p.wait
             /\ (p.id # id => g[p] = p) /\ (p.id = id => g[p] = f[p])
  BY <1>3
<1>4. ASSUME NEW p \in Person PROVE (Here(p) => Here(g[p])) /\ (Gone(p) => Gone(g[p]))
  <2> HIDE DEF g
  <2>1. QED
    BY <1>3 DEF Here, Gone
<1>5. \A o \in DOMAIN offices : offices[o] = {p \in Present : p.office = o}
  BY DEF RosterInv, Seating
<1>6. DOMAIN offices = {p.office : p \in Present}
  BY DEF RosterInv, Seating
<1> DEFINE amended(people) == {IF p.id = id THEN f[p] ELSE p : p \in people}
<1>7. ASSUME NEW people \in SUBSET Person PROVE amended(people) = {g[p] : p \in people}
  <2>1. \A p \in people : g[p] = IF p.id = id THEN f[p] ELSE p
    OBVIOUS
  <2> HIDE DEF g
  <2>2. QED
    BY <2>1
<1> HIDE DEF g
<1>8. retired' = left
  <2>1. CASE id \in DOMAIN desks
    <3>1. \A p \in retired : g[p] = p
      BY <1>2, <1>3, <2>1
    <3>2. QED
      BY <2>1, <3>1
  <2>2. CASE id \notin DOMAIN desks
    <3>1. retired \in SUBSET Person
      BY <1>2
    <3>2. retired' = amended(retired)
      BY <2>2
    <3>3. QED
      BY <1>7, <3>1, <3>2
  <2>3. QED
    BY <2>1, <2>2
<1>9. Seating(present, offices')
  <2>1. \A p \in Present : g[p].office = p.office /\ g[p].id = p.id
    BY <1>1, <1>3
  <2>2. {p.office : p \in present} = DOMAIN offices
    BY <1>6, <2>1
  <2>3. ASSUME NEW o \in DOMAIN offices
        PROVE  {p \in present : p.office = o} = {g[p] : p \in offices[o]}
    BY <1>5, <2>1
  <2>4. CASE id \in DOMAIN desks
    <3> DEFINE d == desks[id]
    <3>1. offices' = [offices EXCEPT ![d] = amended(offices[d])]
      BY <2>4
    <3>2. DOMAIN offices' = DOMAIN offices /\ \A o \in DOMAIN offices :
            offices'[o] = IF o = d THEN amended(offices[d]) ELSE offices[o]
      BY <3>1
    <3>3. ASSUME NEW o \in DOMAIN offices, o = d PROVE offices'[o] = {g[p] : p \in offices[o]}
      <4>1. offices[o] \in SUBSET Person
        BY <1>1, <1>5
      <4>2. QED
        BY <1>7, <3>2, <3>3, <4>1
    <3>4. ASSUME NEW o \in DOMAIN offices, o # d PROVE offices'[o] = {g[p] : p \in offices[o]}
      <4>1. \A p \in offices[o] : p.id # id /\ p \in Person
        BY <1>1, <1>5, <3>4
      <4>2. \A p \in offices[o] : g[p] = p
        BY <1>3, <4>1
      <4>3. QED
        BY <3>2, <3>4, <4>2
    <3>5. QED
      BY <2>2, <2>3, <3>2, <3>3, <3>4 DEF Seating
  <2>5. CASE id \notin DOMAIN desks
    <3>1. \A p \in Present : g[p] = p
      BY <1>1, <1>3, <2>5
    <3>2. present = Present
      BY <3>1
    <3>3. QED
      BY <2>5, <3>2 DEF RosterInv
  <2>6. QED
    BY <2>4, <2>5
<1>10. AtDesks(present, desks')
  <2>1. \A p \in present : Here(p) /\ p.id \in DOMAIN desks /\ desks[p.id] = p.office
    BY <1>1, <1>3, <1>4
  <2>2. \A w \in DOMAIN desks : \E p \in present : p.id = w
    <3>1. ASSUME NEW w \in DOMAIN desks PROVE \E p \in present : p.id = w
      <4>1. PICK p \in Present : p.id = w
        BY DEF RosterInv, AtDesks
      <4>2. g[p] \in present /\ g[p].id = w
        BY <1>1, <1>3, <4>1
      <4>3. QED
        BY <4>2
    <3>2. QED
      BY <3>1
  <2>3. OneEach(present) /\ IsFiniteSet(DOMAIN desks)
    BY <1>1, <1>3 DEF RosterInv, AtDesks, OneEach
  <2> HIDE DEF present
  <2>4. QED
    BY <2>1, <2>2, <2>3 DEF AtDesks
<1>11. GoneFrom(retired', desks')
  <2>1. \A p \in left : Gone(p) /\ p.id \notin DOMAIN desks
    BY <1>2, <1>3, <1>4
  <2>2. OneEach(left)
    BY <1>2, <1>3 DEF RosterInv, GoneFrom, OneEach
  <2>3. IsFiniteSet(left) /\ Cardinality(left) <= Cardinality(retired)
    <3>1. retired \subseteq DOMAIN g
      BY <1>2 DEF g
    <3>2. IsFiniteSet(retired)
      BY DEF RosterInv, GoneFrom
    <3>3. QED
      BY <3>1, <3>2, ImageFinite
  <2>4. Cardinality(left) <= RetiredLimit
    <3>1. Cardinality(left) \in Nat /\ Cardinality(retired) \in Nat /\ Cardinality(retired) <= RetiredLimit
      BY <2>3, FS_CardinalityType DEF RosterInv, GoneFrom
    <3>2. QED
      BY <2>3, <3>1, WorldAssumption
  <2> HIDE DEF left
  <2>5. QED
    BY <1>8, <2>1, <2>2, <2>3, <2>4 DEF GoneFrom
<1>12. RosterInv' /\ Everyone' = present \cup left
  BY <1>8, <1>9, <1>10, <1>11, RosterNext
<1>13. \A p \in Everyone : p \in Person /\ (g[p] = p \/ g[p] = f[p])
  BY <1>1, <1>2, <1>3 DEF Everyone
<1>14. QED
  BY <1>12, <1>13 DEF Everyone

(* The fields of a record.                                                 *)
LEMMA PersonFields ==
  ASSUME NEW p \in Person
  PROVE  /\ p.id \in Workers /\ p.office \in Offices /\ p.seen \in Nat
         /\ p.lifecycle \in Lifecycles /\ p.turn \in BOOLEAN /\ p.wait \in Waits
         /\ p.activity \in Activities /\ p.beats \in Seq(Beat) /\ p.coverage \in SourceCoverage
  BY DEF Person

(* Who is known, and where.                                                *)
LEMMA RosterFacts ==
  ASSUME RosterInv
  PROVE  /\ \A p \in Present : p \in Person /\ Here(p) /\ p.id \in DOMAIN desks /\ desks[p.id] = p.office
         /\ \A p \in retired : p \in Person /\ Gone(p) /\ p.id \notin DOMAIN desks
         /\ \A o : Staff(o) = {p \in Present : p.office = o}
         /\ DOMAIN offices = {p.office : p \in Present}
         /\ \A o \in DOMAIN offices : offices[o] = {p \in Present : p.office = o}
         /\ \A id \in DOMAIN desks : \E p \in Present : p.id = id
         /\ \A p, q \in Everyone : p.id = q.id => p = q
<1>1. /\ \A p \in Present : p \in Person /\ Here(p) /\ p.id \in DOMAIN desks /\ desks[p.id] = p.office
      /\ \A p \in retired : p \in Person /\ Gone(p) /\ p.id \notin DOMAIN desks
  BY DEF RosterInv, AtDesks, GoneFrom, Here, Gone, Sound
<1>2. /\ DOMAIN offices = {p.office : p \in Present}
      /\ \A o \in DOMAIN offices : offices[o] = {p \in Present : p.office = o}
  BY DEF RosterInv, Seating
<1>3. ASSUME NEW o PROVE Staff(o) = {p \in Present : p.office = o}
  <2>1. CASE o \in DOMAIN offices
    BY <1>2, <2>1 DEF Staff
  <2>2. CASE o \notin DOMAIN offices
    BY <1>2, <2>2 DEF Staff
  <2>3. QED
    BY <2>1, <2>2
<1>4. \A id \in DOMAIN desks : \E p \in Present : p.id = id
  BY DEF RosterInv, AtDesks
<1>5. \A p, q \in Everyone : p.id = q.id => p = q
  BY RosterMeans DEF RosterAgrees
<1>6. QED
  BY <1>1, <1>2, <1>3, <1>4, <1>5

(* A worker that nobody knew gets a record of somebody that is here.       *)
LEMMA NewWorkerHere ==
  ASSUME NEW id \in Workers, NEW office \in Offices, NEW at \in Nat
  PROVE  /\ Here(NewWorker(id, office, at)) /\ NewWorker(id, office, at).id = id
         /\ NewWorker(id, office, at).office = office
<1>1. Unsaid \in SourceCoverage
  BY DEF Unsaid, SourceCoverage
<1>2. <<>> \in Seq(Beat) /\ Newest(<<>>)
  BY WorldAssumption DEF Newest
<1>3. NewWorker(id, office, at) \in Person
  BY <1>1, <1>2 DEF NewWorker, Person, Lifecycles, Ended, Waits, Activities
<1>4. QED
  BY <1>2, <1>3 DEF NewWorker, Here, Sound, Ended

(* A worker's record in another office, seen again after it left.          *)
LEMMA Rejoins ==
  ASSUME NEW p, Sound(p), p.lifecycle = "Removed" => ~p.turn, NEW office \in Offices
  PROVE  LET joining == [p EXCEPT !.office = office]
             back == IF joining.lifecycle = "Removed"
                     THEN [joining EXCEPT !.lifecycle = "Unknown"] ELSE joining
         IN Here(back) /\ back.id = p.id /\ back.office = office /\ back.coverage = p.coverage
<1> DEFINE joining == [p EXCEPT !.office = office]
           again == [joining EXCEPT !.lifecycle = "Unknown"]
<1>1. p \in Person /\ Newest(p.beats) /\ (p.lifecycle \in Ended => ~p.turn)
  BY DEF Sound
<1>2. /\ joining \in Person /\ joining.id = p.id /\ joining.office = office
      /\ joining.coverage = p.coverage /\ joining.beats = p.beats /\ joining.turn = p.turn
      /\ joining.lifecycle = p.lifecycle
  BY <1>1 DEF Person
<1>3. /\ again \in Person /\ again.id = joining.id /\ again.office = joining.office
      /\ again.coverage = joining.coverage /\ again.beats = joining.beats
      /\ again.lifecycle = "Unknown"
  <2> HIDE DEF joining
  <2>1. QED
    BY <1>2 DEF Person, Lifecycles
<1>4. CASE joining.lifecycle = "Removed"
  <2> HIDE DEF again, joining
  <2>1. Here(again)
    BY <1>1, <1>2, <1>3 DEF Here, Sound, Ended
  <2>2. QED
    BY <1>2, <1>3, <1>4, <2>1 DEF again, joining
<1>5. CASE joining.lifecycle # "Removed"
  <2> HIDE DEF again, joining
  <2>1. Here(joining)
    BY <1>1, <1>2, <1>5 DEF Here, Sound
  <2>2. QED
    BY <1>2, <1>5, <2>1 DEF again, joining
<1>6. QED
  BY <1>4, <1>5

(* Whoever is named sits in the office, as x, and nowhere else: with the   *)
(* record of before if it sat there.                                       *)
SeatedAs(x, id, office, at) ==
  /\ Here(x) /\ x.id = id /\ x.office = office
  /\ \A p \in Everyone : p.id = id => x.coverage = p.coverage
  /\ \A p \in Present : p.id = id /\ p.office = office => x = p
  /\ DOMAIN Seated(id, office, at) = DOMAIN offices \cup {office}
  /\ \A o \in DOMAIN offices \cup {office} :
       Seated(id, office, at)[o] = IF o = office THEN Without(Staff(o), {id}) \cup {x}
                                   ELSE Without(offices[o], {id})

(* Moved, returned, new or there already, a worker sits in one office,     *)
(* with its own record.                                                    *)
LEMMA SeatedShape ==
  ASSUME RosterInv, NEW id \in Workers, NEW office \in Offices, NEW at \in Nat
  PROVE  \E x : SeatedAs(x, id, office, at)
<1>a. /\ \A p \in Present : p \in Person /\ Here(p) /\ p.id \in DOMAIN desks /\ desks[p.id] = p.office
      /\ \A p \in retired : p \in Person /\ Gone(p) /\ p.id \notin DOMAIN desks
      /\ \A o : Staff(o) = {p \in Present : p.office = o}
      /\ DOMAIN offices = {p.office : p \in Present}
      /\ \A o \in DOMAIN offices : offices[o] = {p \in Present : p.office = o}
      /\ \A w \in DOMAIN desks : \E p \in Present : p.id = w
      /\ \A p, q \in Everyone : p.id = q.id => p = q
  BY RosterFacts
<1> DEFINE moves == id \in DOMAIN desks /\ desks[id] # office
           known == IF moves THEN WithId(Staff(desks[id]), id) ELSE WithId(retired, id)
           joining == IF known = {} THEN NewWorker(id, office, at)
                      ELSE [(CHOOSE p \in known : TRUE) EXCEPT !.office = office]
           back == IF joining.lifecycle = "Removed"
                   THEN [joining EXCEPT !.lifecycle = "Unknown"] ELSE joining
<1>1. CASE WithId(Staff(office), id) # {}
  <2>1. PICK x \in Staff(office) : x.id = id
    BY <1>1 DEF WithId
  <2>2. x \in Present /\ x.office = office /\ Here(x) /\ office \in DOMAIN offices
    BY <1>a, <2>1
  <2>3. Seated(id, office, at) = offices
    BY <1>1 DEF Seated
  <2>4. \A p \in Everyone : p.id = id => p = x
    BY <1>a, <2>1, <2>2 DEF Everyone
  <2>5. Staff(office) = Without(Staff(office), {id}) \cup {x}
    BY <1>a, <2>1, <2>2, <2>4 DEF Without, Everyone
  <2>6. ASSUME NEW o \in DOMAIN offices, o # office PROVE offices[o] = Without(offices[o], {id})
    <3>1. \A p \in offices[o] : p \in Present /\ p.office = o
      BY <1>a
    <3>2. \A p \in offices[o] : p.id # id
      BY <2>2, <2>4, <2>6, <3>1 DEF Everyone
    <3>3. QED
      BY <3>2 DEF Without
  <2>7. Staff(office) = offices[office]
    BY <2>2 DEF Staff
  <2>8. SeatedAs(x, id, office, at)
    <3>1. \A p \in Present : p.id = id => x = p
      BY <2>4 DEF Everyone
    <3>2. QED
      BY <2>1, <2>2, <2>3, <2>4, <2>5, <2>6, <2>7, <3>1 DEF SeatedAs
  <2>9. QED
    BY <2>8
<1>2. CASE WithId(Staff(office), id) = {}
  <2>1. Seated(id, office, at) =
          [o \in DOMAIN offices \cup {office} |->
             IF o = office THEN Staff(o) \cup {back}
             ELSE IF moves /\ o = desks[id] THEN Without(offices[o], {id})
             ELSE offices[o]]
    BY <1>2 DEF Seated
  <2>2. \A p \in Present : p.id = id => moves
    BY <1>a, <1>2 DEF WithId
  <2>3. \A p \in known : p.id = id /\ p \in Everyone /\ Sound(p) /\ (p.lifecycle = "Removed" => ~p.turn)
    BY <1>a DEF WithId, Everyone, Here, Gone
  <2>4. \A p \in Everyone : p.id = id => p \in known
    <3>1. ASSUME NEW p \in Present, p.id = id PROVE p \in known
      BY <1>a, <2>2, <3>1 DEF WithId
    <3>2. ASSUME NEW p \in retired, p.id = id PROVE p \in known
      BY <1>a, <3>2 DEF WithId
    <3>3. QED
      BY <3>1, <3>2 DEF Everyone
  <2>5. /\ Here(back) /\ back.id = id /\ back.office = office
        /\ \A p \in Everyone : p.id = id => back.coverage = p.coverage
    <3>1. CASE known = {}
      <4>1. joining = NewWorker(id, office, at)
        BY <3>1
      <4> HIDE DEF joining
      <4>2. Here(joining) /\ joining.id = id /\ joining.office = office
        BY <4>1, NewWorkerHere
      <4>3. back = joining
        BY <4>2 DEF Here
      <4> HIDE DEF known, back
      <4>4. QED
        BY <2>4, <3>1, <4>2, <4>3
    <3>2. CASE known # {}
      <4> DEFINE p == CHOOSE q \in known : TRUE
      <4>1. p \in known
        BY <3>2
      <4>2. joining = [p EXCEPT !.office = office]
        BY <3>2
      <4> HIDE DEF p, known, joining
      <4>3. Here(back) /\ back.id = p.id /\ back.office = office /\ back.coverage = p.coverage
        <5>1. Sound(p) /\ (p.lifecycle = "Removed" => ~p.turn)
          BY <2>3, <4>1
        <5> DEFINE again == [[p EXCEPT !.office = office] EXCEPT !.lifecycle = "Unknown"]
                   same == [p EXCEPT !.office = office]
        <5>2. same.lifecycle = "Removed" => /\ Here(again) /\ again.id = p.id /\ again.office = office
                                            /\ again.coverage = p.coverage
          BY <5>1, Rejoins
        <5>3. same.lifecycle # "Removed" => /\ Here(same) /\ same.id = p.id /\ same.office = office
                                            /\ same.coverage = p.coverage
          BY <5>1, Rejoins
        <5>4. back = IF same.lifecycle = "Removed" THEN again ELSE same
          BY <4>2
        <5> HIDE DEF again, same, back
        <5>5. QED
          BY <5>2, <5>3, <5>4
      <4> HIDE DEF back
      <4>4. QED
        BY <1>a, <2>3, <4>1, <4>3
    <3>3. QED
      BY <3>1, <3>2
  <2>6. Staff(office) = Without(Staff(office), {id})
    BY <1>2 DEF WithId, Without
  <2>7. ASSUME NEW o \in DOMAIN offices, o # office, ~(moves /\ o = desks[id])
        PROVE  offices[o] = Without(offices[o], {id})
    <3>1. \A p \in offices[o] : p \in Present /\ p.office = o
      BY <1>a
    <3>2. \A p \in offices[o] : p.id # id
      BY <1>a, <2>2, <2>7, <3>1
    <3>3. QED
      BY <3>2 DEF Without
  <2> HIDE DEF back, moves
  <2>8. DOMAIN Seated(id, office, at) = DOMAIN offices \cup {office}
    BY <2>1
  <2>9. ASSUME NEW o \in DOMAIN offices \cup {office}
        PROVE  Seated(id, office, at)[o] = IF o = office THEN Without(Staff(o), {id}) \cup {back}
                                           ELSE Without(offices[o], {id})
    <3>1. Seated(id, office, at)[o] =
            IF o = office THEN Staff(o) \cup {back}
            ELSE IF moves /\ o = desks[id] THEN Without(offices[o], {id}) ELSE offices[o]
      BY <2>1
    <3>2. o # office => o \in DOMAIN offices
      OBVIOUS
    <3>3. QED
      BY <2>6, <2>7, <3>1, <3>2
  <2>10. \A p \in Present : p.id = id => p.office # office
    BY <1>a, <1>2 DEF WithId
  <2>11. SeatedAs(back, id, office, at)
    <3> HIDE DEF known, joining
    <3>1. QED
      BY <2>5, <2>8, <2>9, <2>10 DEF SeatedAs
  <2>12. QED
    BY <2>11
<1>3. QED
  BY <1>1, <1>2

(* Whoever is seen later is still at the desk.                             *)
LEMMA SeenLater ==
  ASSUME NEW p, Here(p), NEW at \in Nat
  PROVE  LET later == [p EXCEPT !.seen = IF @ > at THEN @ ELSE at]
         IN later \in Person /\ Here(later) /\ later.id = p.id /\ later.office = p.office
            /\ later.coverage = p.coverage
<1> DEFINE later == [p EXCEPT !.seen = IF @ > at THEN @ ELSE at]
<1>1. p \in Person /\ Newest(p.beats) /\ (p.lifecycle \in Ended => ~p.turn) /\ p.lifecycle # "Removed"
  BY DEF Here, Sound
<1>2. (IF p.seen > at THEN p.seen ELSE at) \in Nat
  BY <1>1, PersonFields
<1>3. /\ later \in Person /\ later.id = p.id /\ later.office = p.office
      /\ later.coverage = p.coverage /\ later.beats = p.beats /\ later.turn = p.turn
      /\ later.lifecycle = p.lifecycle
  BY <1>1, <1>2 DEF Person
<1> HIDE DEF later
<1>4. Here(later)
  BY <1>1, <1>3 DEF Here, Sound
<1>5. QED
  BY <1>3, <1>4 DEF later

(* A worker's record that was seen again.                                  *)
SeenAgain(p, at) == [p EXCEPT !.seen = IF @ > at THEN @ ELSE at]

(* A change of a record that a note may make.                              *)
Fits(f) ==
  /\ DOMAIN f = Person
  /\ \A p \in Person : Here(p) => /\ Here(f[p]) /\ f[p].id = p.id /\ f[p].office = p.office
                                  /\ f[p].coverage = p.coverage

(* Seated, and changed.                                                    *)
Noted(id, office, at, f) ==
  {IF p.id = id THEN f[SeenAgain(p, at)] ELSE p : p \in Seated(id, office, at)[office]}

(* Others keep their records; this one is seen again, and changed.         *)
NotedAs(id, office, at, f) ==
  \E x : /\ SeatedAs(x, id, office, at) /\ SeenAgain(x, at) \in Person
         /\ f[SeenAgain(x, at)].id = id
         /\ Present' = Without(Present, {id}) \cup {f[SeenAgain(x, at)]}

(* A step that keeps the roster and all that is known of the sources.      *)
RosterStep == RosterInv' /\ CoverageKept

(* A fact about a worker, in an office.                                    *)
LEMMA NotedStep ==
  ASSUME RosterInv, NEW id \in Workers, NEW office \in Offices, NEW at \in Nat,
         NEW f, Fits(f),
         offices' = Open([Seated(id, office, at) EXCEPT ![office] = Noted(id, office, at, f)]),
         desks' = [w \in DOMAIN desks \cup {id} |-> IF w = id THEN office ELSE desks[w]],
         retired' = IF id \in DOMAIN desks /\ desks[id] # office THEN retired
                    ELSE Without(retired, {id})
  PROVE  RosterStep /\ NotedAs(id, office, at, f)
<1>a. /\ \A p \in Present : p \in Person /\ Here(p) /\ p.id \in DOMAIN desks /\ desks[p.id] = p.office
      /\ \A p \in retired : p \in Person /\ Gone(p) /\ p.id \notin DOMAIN desks
      /\ \A o : Staff(o) = {p \in Present : p.office = o}
      /\ DOMAIN offices = {p.office : p \in Present}
      /\ \A o \in DOMAIN offices : offices[o] = {p \in Present : p.office = o}
      /\ \A w \in DOMAIN desks : \E p \in Present : p.id = w
      /\ \A p, q \in Everyone : p.id = q.id => p = q
  BY RosterFacts
<1> DEFINE amended(p) == IF p.id = id
                         THEN f[SeenAgain(p, at)] ELSE p
           seated == Seated(id, office, at)
           rooms == [seated EXCEPT ![office] = {amended(p) : p \in @}]
<1>b. PICK x : SeatedAs(x, id, office, at)
  BY SeatedShape
<1>1. /\ Here(x) /\ x.id = id /\ x.office = office
      /\ \A p \in Everyone : p.id = id => x.coverage = p.coverage
      /\ DOMAIN seated = DOMAIN offices \cup {office}
      /\ \A o \in DOMAIN offices \cup {office} :
           seated[o] = IF o = office THEN Without(Staff(o), {id}) \cup {x}
                       ELSE Without(offices[o], {id})
  BY <1>b DEF SeatedAs
<1> DEFINE y == amended(x)
           others == Without(Present, {id})
           people == others \cup {y}
<1>2. /\ Here(y) /\ y.id = id /\ y.office = office /\ y.coverage = x.coverage
      /\ SeenAgain(x, at) \in Person /\ y = f[SeenAgain(x, at)]
  <2> DEFINE later == SeenAgain(x, at)
  <2>1. later \in Person /\ Here(later) /\ later.id = x.id /\ later.office = x.office
        /\ later.coverage = x.coverage
    BY <1>1, SeenLater DEF SeenAgain
  <2>2. y = f[later]
    BY <1>1
  <2>3. later = SeenAgain(x, at)
    OBVIOUS
  <2> HIDE DEF later, y
  <2>4. QED
    BY <1>1, <2>1, <2>2, <2>3 DEF Fits
<1>3. \A p : p.id # id => amended(p) = p
  OBVIOUS
<1> HIDE DEF amended, y, seated
<1>4. others = {p \in Present : p.id # id}
  BY DEF Without
<1>5. /\ DOMAIN rooms = DOMAIN offices \cup {office}
      /\ \A o \in DOMAIN rooms : rooms[o] = {p \in people : p.office = o}
  <2>1. DOMAIN rooms = DOMAIN offices \cup {office}
    BY <1>1
  <2>2. rooms[office] = {p \in people : p.office = office}
    <3>1. seated[office] = {p \in others : p.office = office} \cup {x}
      BY <1>1, <1>a, <1>4 DEF Without
    <3>2. rooms[office] = {amended(p) : p \in seated[office]}
      BY <1>1
    <3>3. rooms[office] = {p \in others : p.office = office} \cup {y}
      <4> DEFINE mine == {p \in others : p.office = office}
      <4>1. amended(x) = y
        BY DEF y
      <4>2. \A p \in mine : amended(p) = p
        BY <1>3, <1>4
      <4>3. rooms[office] = {amended(p) : p \in mine \cup {x}}
        BY <3>1, <3>2
      <4> HIDE DEF mine, rooms
      <4>4. {amended(p) : p \in mine \cup {x}} = mine \cup {y}
        BY <4>1, <4>2
      <4>5. QED
        BY <4>3, <4>4 DEF mine
    <3>4. QED
      BY <1>2, <3>3
  <2>3. ASSUME NEW o \in DOMAIN offices, o # office PROVE rooms[o] = {p \in people : p.office = o}
    <3>1. rooms[o] = Without(offices[o], {id})
      BY <1>1, <2>3
    <3>2. Without(offices[o], {id}) = {p \in others : p.office = o}
      BY <1>a, <1>4 DEF Without
    <3>3. QED
      BY <1>2, <2>3, <3>1, <3>2
  <2>4. QED
    BY <2>1, <2>2, <2>3
<1>6. offices' = Open(rooms)
  BY DEF amended, seated, Noted
<1> HIDE DEF rooms
<1>7. Seating(people, offices')
  <2>1. \A p \in people : p.office \in DOMAIN rooms
    BY <1>a, <1>2, <1>4, <1>5
  <2> HIDE DEF people
  <2>2. QED
    BY <1>5, <1>6, <2>1, OpenSeats
<1>8. DOMAIN desks' = DOMAIN desks \cup {id}
      /\ \A w \in DOMAIN desks' : desks'[w] = IF w = id THEN office ELSE desks[w]
  OBVIOUS
<1>9. AtDesks(people, desks')
  <2>1. \A p \in people : Here(p) /\ p.id \in DOMAIN desks' /\ desks'[p.id] = p.office
    BY <1>a, <1>2, <1>4, <1>8
  <2>2. ASSUME NEW w \in DOMAIN desks' PROVE \E p \in people : p.id = w
    <3>1. CASE w = id
      BY <1>2, <3>1
    <3>2. CASE w # id
      <4>1. PICK p \in Present : p.id = w
        BY <1>a, <1>8, <3>2
      <4>2. QED
        BY <1>4, <3>2, <4>1
    <3>3. QED
      BY <3>1, <3>2
  <2>3. OneEach(people)
    BY <1>a, <1>2, <1>4 DEF OneEach, Everyone
  <2>4. IsFiniteSet(DOMAIN desks')
    BY <1>8, FS_AddElement DEF RosterInv, AtDesks
  <2> HIDE DEF people
  <2>5. QED
    BY <2>1, <2>2, <2>3, <2>4 DEF AtDesks
<1>10. retired' = Without(retired, {id})
  <2>1. CASE id \in DOMAIN desks /\ desks[id] # office
    <3>1. \A p \in retired : p.id # id
      BY <1>a, <2>1
    <3>2. QED
      BY <2>1, <3>1 DEF Without
  <2>2. QED
    BY <2>1
<1>11. GoneFrom(retired', desks')
  <2>1. retired' \in SUBSET retired /\ \A p \in retired' : p.id # id
    BY <1>10 DEF Without
  <2>2. IsFiniteSet(retired) /\ Cardinality(retired) \in Nat /\ Cardinality(retired) <= RetiredLimit
    BY FS_CardinalityType DEF RosterInv, GoneFrom
  <2>3. IsFiniteSet(retired') /\ Cardinality(retired') <= Cardinality(retired)
    BY <2>1, <2>2, FS_Subset
  <2>4. Cardinality(retired') <= RetiredLimit
    <3>1. Cardinality(retired') \in Nat
      BY <2>3, FS_CardinalityType
    <3>2. QED
      BY <2>2, <2>3, <3>1, WorldAssumption
  <2>5. \A p \in retired' : Gone(p) /\ p.id \notin DOMAIN desks'
    BY <1>a, <1>8, <2>1
  <2>6. OneEach(retired')
    BY <1>a, <2>1 DEF OneEach, Everyone
  <2>7. QED
    BY <2>3, <2>4, <2>5, <2>6 DEF GoneFrom
<1>12. RosterInv' /\ Present' = people /\ Everyone' = people \cup retired'
  BY <1>7, <1>9, <1>11, RosterNext
<1>13. CoverageKept
  <2>1. ASSUME NEW p \in Everyone, NEW q \in Everyone', p.id = q.id PROVE q.coverage = p.coverage
    <3>1. CASE q = y
      BY <1>1, <1>2, <2>1, <3>1
    <3>2. CASE q # y
      <4>1. q \in Everyone
        BY <1>4, <1>10, <1>12, <3>2 DEF Everyone, Without
      <4>2. QED
        BY <1>a, <2>1, <4>1
    <3>3. QED
      BY <3>1, <3>2
  <2>2. QED
    BY <2>1 DEF CoverageKept
<1>14. NotedAs(id, office, at, f)
  BY <1>b, <1>2, <1>12 DEF NotedAs
<1>15. QED
  BY <1>12, <1>13, <1>14 DEF RosterStep

-----------------------------------------------------------------------------
(* The record that is kept of a worker that leaves is that of one that     *)
(* left.                                                                   *)
LEMMA DepartedGone ==
  ASSUME NEW p, Here(p)
  PROVE  Gone(Departed(p)) /\ Departed(p).id = p.id /\ Departed(p).coverage = p.coverage
         /\ Departed(p).seen = p.seen
<1>1. p \in Person /\ Newest(p.beats)
  BY DEF Here, Sound
<1>2. /\ Departed(p) \in Person /\ Departed(p).id = p.id /\ Departed(p).coverage = p.coverage
      /\ Departed(p).beats = p.beats /\ Departed(p).seen = p.seen
      /\ Departed(p).turn = FALSE /\ Departed(p).wait = None
      /\ Departed(p).lifecycle = IF p.lifecycle \in {"Unknown", "Active"} THEN "Removed" ELSE p.lifecycle
  BY <1>1 DEF Person, Departed, Lifecycles, Waits
<1>3. p.lifecycle \in Lifecycles
  BY <1>1, PersonFields
<1>4. Departed(p).lifecycle \in Ended \cup {"Removed"}
  BY <1>2, <1>3 DEF Lifecycles
<1>5. QED
  BY <1>1, <1>2, <1>4 DEF Gone, Sound

(* Workers leave, and time passes for those that stay.                     *)
LEMMA RetireStep ==
  ASSUME RosterInv, NEW ids, NEW f, DOMAIN f = Person,
         \A p \in Person : Here(p) => /\ Here(f[p]) /\ f[p].id = p.id /\ f[p].office = p.office
                                      /\ f[p].coverage = p.coverage,
         Retire(ids),
         offices' = Open([o \in DOMAIN offices |-> {f[p] : p \in Without(offices[o], ids)}])
  PROVE  RosterInv' /\ CoverageKept /\ relationships' \subseteq relationships
<1>a. /\ \A p \in Present : p \in Person /\ Here(p) /\ p.id \in DOMAIN desks /\ desks[p.id] = p.office
      /\ \A p \in retired : p \in Person /\ Gone(p) /\ p.id \notin DOMAIN desks
      /\ DOMAIN offices = {p.office : p \in Present}
      /\ \A o \in DOMAIN offices : offices[o] = {p \in Present : p.office = o}
      /\ \A w \in DOMAIN desks : \E p \in Present : p.id = w
      /\ \A p, q \in Everyone : p.id = q.id => p = q
  BY RosterFacts
<1> DEFINE staying == {p \in Present : p.id \notin ids}
           people == {f[p] : p \in staying}
           leaving == {p \in Present : p.id \in ids \cap DOMAIN desks}
           departed == {Departed(p) : p \in leaving}
           all == Without(retired, {p.id : p \in leaving}) \cup departed
           rooms == [o \in DOMAIN offices |-> {f[p] : p \in Without(offices[o], ids)}]
<1>1. desks' = Unseated(ids) /\ retired' = all \ Forgotten(all)
      /\ relationships' = Unrelated({p.id : p \in Forgotten(all)})
  BY DEF Retire
<1>2. \A p \in staying : /\ Here(f[p]) /\ f[p].id = p.id /\ f[p].office = p.office
                         /\ f[p].coverage = p.coverage
  BY <1>a
<1>3. ASSUME NEW o \in DOMAIN offices PROVE rooms[o] = {p \in people : p.office = o}
  <2>1. Without(offices[o], ids) = {p \in staying : p.office = o}
    BY <1>a DEF Without
  <2>2. rooms[o] = {f[p] : p \in Without(offices[o], ids)}
    OBVIOUS
  <2> HIDE DEF rooms, staying
  <2>3. QED
    BY <1>2, <2>1, <2>2
<1>4. Seating(people, offices')
  <2>1. DOMAIN rooms = DOMAIN offices /\ offices' = Open(rooms)
    OBVIOUS
  <2> HIDE DEF rooms
  <2>2. \A p \in people : p.office \in DOMAIN rooms
    BY <1>a, <1>2, <2>1
  <2> HIDE DEF people
  <2>3. QED
    BY <1>3, <2>1, <2>2, OpenSeats
<1>5. DOMAIN desks' = DOMAIN desks \ ids /\ \A w \in DOMAIN desks' : desks'[w] = desks[w]
  BY <1>1 DEF Unseated
<1>6. AtDesks(people, desks')
  <2>1. \A p \in people : Here(p) /\ p.id \in DOMAIN desks' /\ desks'[p.id] = p.office
    BY <1>a, <1>2, <1>5
  <2>2. ASSUME NEW w \in DOMAIN desks' PROVE \E p \in people : p.id = w
    <3>1. PICK p \in Present : p.id = w
      BY <1>a, <1>5
    <3>2. p \in staying
      BY <1>5, <3>1
    <3>3. f[p] \in people /\ f[p].id = w
      BY <1>2, <3>1, <3>2
    <3>4. QED
      BY <3>3
  <2>3. OneEach(people)
    BY <1>a, <1>2 DEF OneEach, Everyone
  <2>4. IsFiniteSet(DOMAIN desks')
    <3>1. IsFiniteSet(DOMAIN desks) /\ DOMAIN desks' \in SUBSET DOMAIN desks
      BY <1>5 DEF RosterInv, AtDesks
    <3>2. QED
      BY <3>1, FS_Subset
  <2> HIDE DEF people
  <2>5. QED
    BY <2>1, <2>2, <2>3, <2>4 DEF AtDesks
<1>7. \A p \in leaving : /\ Gone(Departed(p)) /\ Departed(p).id = p.id
                         /\ Departed(p).coverage = p.coverage /\ p.id \in ids
  BY <1>a, DepartedGone
<1>8. \A p \in all : Gone(p) /\ p.id \notin DOMAIN desks'
  BY <1>a, <1>5, <1>7 DEF Without
<1>9. OneEach(all)
  <2>1. ASSUME NEW p \in all, NEW q \in all, p.id = q.id PROVE p = q
    <3>1. CASE p \in departed /\ q \in departed
      BY <1>a, <1>7, <2>1, <3>1 DEF Everyone
    <3>2. CASE p \notin departed /\ q \notin departed
      BY <1>a, <2>1, <3>2 DEF Without, Everyone
    <3>3. CASE p \in departed /\ q \notin departed
      BY <1>7, <2>1, <3>3 DEF Without
    <3>4. CASE p \notin departed /\ q \in departed
      BY <1>7, <2>1, <3>4 DEF Without
    <3>5. QED
      BY <3>1, <3>2, <3>3, <3>4
  <2> HIDE DEF all
  <2>2. QED
    BY <2>1 DEF OneEach
<1>10. IsFiniteSet(all)
  <2>1. IsFiniteSet(Present)
    <3> DEFINE who == [w \in DOMAIN desks |-> CHOOSE p \in Present : p.id = w]
    <3>1. \A p \in Present : p.id \in DOMAIN desks /\ who[p.id] = p
      BY <1>a DEF Everyone
    <3>2. Present \subseteq {who[w] : w \in DOMAIN desks}
      <4> HIDE DEF who
      <4>1. \A p \in Present : p.id \in DOMAIN desks /\ p = who[p.id]
        BY <3>1
      <4>2. QED
        BY <4>1
    <3>3. IsFiniteSet(DOMAIN desks) /\ DOMAIN desks \subseteq DOMAIN who
      BY DEF RosterInv, AtDesks
    <3> HIDE DEF who
    <3>4. IsFiniteSet({who[w] : w \in DOMAIN desks})
      BY <3>3, ImageFinite
    <3>5. QED
      BY <3>2, <3>4, FS_Subset
  <2>2. IsFiniteSet(leaving)
    <3>1. leaving \in SUBSET Present
      OBVIOUS
    <3> HIDE DEF leaving
    <3>2. QED
      BY <2>1, <3>1, FS_Subset
  <2>3. IsFiniteSet(departed)
    <3> DEFINE d == [p \in leaving |-> Departed(p)]
    <3>1. departed = {d[p] : p \in leaving} /\ leaving \subseteq DOMAIN d
      OBVIOUS
    <3> HIDE DEF d, departed, leaving
    <3>2. QED
      BY <2>2, <3>1, ImageFinite
  <2>4. IsFiniteSet(Without(retired, {p.id : p \in leaving}))
    <3>1. Without(retired, {p.id : p \in leaving}) \in SUBSET retired
      BY DEF Without
    <3>2. IsFiniteSet(retired)
      BY DEF RosterInv, GoneFrom
    <3>3. QED
      BY <3>1, <3>2, FS_Subset
  <2> HIDE DEF departed, leaving
  <2>5. QED
    BY <2>3, <2>4, FS_Union
<1>11. GoneFrom(retired', desks')
  <2> HIDE DEF all
  <2>1. \A p \in all : p.seen \in Nat /\ p.id \in Nat
    <3>1. \A p \in all : p \in Person
      BY <1>8 DEF Gone, Sound
    <3>2. QED
      BY <3>1, PersonFields, KinshipAssumption
  <2>2. \A p, q \in all : p.id = q.id => p = q
    BY <1>9 DEF OneEach
  <2>3. IsFiniteSet(retired') /\ Cardinality(retired') <= RetiredLimit
    BY <1>1, <1>10, <2>1, <2>2, ForgottenLimits
  <2>4. retired' \subseteq all
    BY <1>1
  <2>5. QED
    BY <1>8, <1>9, <2>3, <2>4 DEF GoneFrom, OneEach
<1>12. RosterInv' /\ Everyone' = people \cup retired'
  BY <1>4, <1>6, <1>11, RosterNext
<1>13. CoverageKept
  <2>1. ASSUME NEW p \in Everyone, NEW q \in Everyone', p.id = q.id PROVE q.coverage = p.coverage
    <3>1. q \in people \/ q \in all
      BY <1>1, <1>12
    <3>2. \E x \in Everyone : x.id = q.id /\ x.coverage = q.coverage
      <4>1. CASE q \in people
        BY <1>2, <4>1 DEF Everyone
      <4>2. CASE q \in departed
        BY <1>7, <4>2 DEF Everyone
      <4>3. CASE q \in all \ departed
        BY <4>3 DEF Everyone, Without
      <4>4. QED
        BY <3>1, <4>1, <4>2, <4>3
    <3>3. QED
      BY <1>a, <2>1, <3>2
  <2>2. QED
    BY <2>1 DEF CoverageKept
<1>14. relationships' \subseteq relationships
  BY <1>1 DEF Unrelated
<1>15. QED
  BY <1>12, <1>13, <1>14

(* Whoever sits in the office may be seen again.                           *)
LEMMA SeatedPersons ==
  ASSUME RosterInv, NEW id \in Workers, NEW office \in Offices, NEW at \in Nat
  PROVE  \A p \in Seated(id, office, at)[office] : SeenAgain(p, at) \in Person
<1>1. PICK x : SeatedAs(x, id, office, at)
  BY SeatedShape
<1>2. Seated(id, office, at)[office] = Without(Staff(office), {id}) \cup {x}
  BY <1>1 DEF SeatedAs
<1>3. Here(x) /\ \A p \in Staff(office) : Here(p)
  BY <1>1, RosterFacts DEF SeatedAs
<1>4. \A p \in Seated(id, office, at)[office] : Here(p)
  BY <1>2, <1>3 DEF Without
<1>5. QED
  BY <1>4, SeenLater DEF SeenAgain

(* Nobody else's record is changed.                                        *)
OthersStay(id) == \A p \in Present' : p.id # id => p \in Present

(* Whoever stays in the office is in the same turn as before.              *)
TurnKept(id, office) ==
  \A p \in Present', q \in Present :
    p.id = id /\ q.id = id /\ q.office = office => p.turn = q.turn

LEMMA NotedOthers ==
  ASSUME NEW id, NEW office, NEW at, NEW f, NotedAs(id, office, at, f)
  PROVE  /\ OthersStay(id)
         /\ \A p \in Present' : p.id = id =>
              \E x : SeatedAs(x, id, office, at) /\ SeenAgain(x, at) \in Person
                     /\ p = f[SeenAgain(x, at)]
<1>1. PICK x : /\ SeatedAs(x, id, office, at) /\ SeenAgain(x, at) \in Person
               /\ f[SeenAgain(x, at)].id = id
               /\ Present' = Without(Present, {id}) \cup {f[SeenAgain(x, at)]}
  BY DEF NotedAs
<1>2. \A p \in Without(Present, {id}) : p \in Present /\ p.id # id
  BY DEF Without
<1>3. QED
  BY <1>1, <1>2 DEF OthersStay

LEMMA NotedTurn ==
  ASSUME RosterInv, RosterInv', NEW id, NEW office, NEW at, NEW f, NotedAs(id, office, at, f),
         \A p \in Person : ~f[p].turn <=> ~p.turn
  PROVE  OthersStay(id) /\ TurnKept(id, office)
<1>1. ASSUME NEW p \in Present', NEW q \in Present, p.id = id, q.id = id, q.office = office
      PROVE  p.turn = q.turn
  <2>1. PICK x : SeatedAs(x, id, office, at) /\ SeenAgain(x, at) \in Person
                 /\ p = f[SeenAgain(x, at)]
    BY <1>1, NotedOthers
  <2>2. x = q
    BY <1>1, <2>1 DEF SeatedAs
  <2>3. q \in Person
    BY RosterFacts
  <2>4. SeenAgain(q, at).turn = q.turn
    BY <2>3 DEF SeenAgain, Person
  <2>5. ~p.turn <=> ~q.turn
    BY <2>1, <2>2, <2>4
  <2>6. p.turn \in BOOLEAN /\ q.turn \in BOOLEAN
    <3>1. p \in Person
      BY DEF RosterInv, AtDesks, Here, Sound
    <3>2. QED
      BY <2>3, <3>1, PersonFields
  <2>7. QED
    BY <2>5, <2>6
<1>2. QED
  BY <1>1, NotedOthers DEF TurnKept

(* One lemma for each kind of event: SessionSeen, TokenUsage and Identity. *)
LEMMA SeenStep ==
  ASSUME RosterInv, NEW id \in Workers, NEW office \in Offices, NEW at \in Nat,
         Note(id, office, at, Same)
  PROVE  RosterStep /\ OthersStay(id) /\ TurnKept(id, office)
<1> DEFINE f == [p \in Person |-> p]
           news == {IF p.id = id THEN Same(SeenAgain(p, at)) ELSE p : p \in Seated(id, office, at)[office]}
<1>1. Fits(f)
  BY DEF Fits
<1>2. Noted(id, office, at, f) = news
  BY SeatedPersons DEF Noted, Same
<1>3. offices' = Open([Seated(id, office, at) EXCEPT ![office] = news])
  BY DEF Note, SeenAgain
<1>4. \A p \in Person : ~f[p].turn <=> ~p.turn
  OBVIOUS
<1> HIDE DEF f, news
<1>5. RosterStep /\ NotedAs(id, office, at, f)
  BY <1>1, <1>2, <1>3, NotedStep DEF Note
<1>6. QED
  BY <1>4, <1>5, NotedTurn DEF RosterStep

(* Activity without a beat.                                                *)
LEMMA ActedStep ==
  ASSUME RosterInv, NEW id \in Workers, NEW office \in Offices, NEW at \in Nat,
         NEW activity \in Activities, Acted(id, office, at, activity)
  PROVE  RosterStep /\ OthersStay(id) /\ TurnKept(id, office)
<1> DEFINE acts(p) == [p EXCEPT !.activity = activity]
           f == [p \in Person |-> acts(p)]
           news == {IF p.id = id THEN acts(SeenAgain(p, at)) ELSE p : p \in Seated(id, office, at)[office]}
<1>1. Fits(f)
  <2>1. ASSUME NEW p \in Person, Here(p)
        PROVE  Here(acts(p)) /\ acts(p).id = p.id /\ acts(p).office = p.office /\ acts(p).coverage = p.coverage
    BY <2>1 DEF Here, Sound, Person
  <2>2. QED
    BY <2>1 DEF Fits
<1>2. Noted(id, office, at, f) = news
  BY SeatedPersons DEF Noted
<1>3. offices' = Open([Seated(id, office, at) EXCEPT ![office] = news])
  BY DEF Acted, Note, SeenAgain
<1>4. \A p \in Person : ~f[p].turn <=> ~p.turn
  BY DEF Person
<1> HIDE DEF f, news
<1>5. RosterStep /\ NotedAs(id, office, at, f)
  BY <1>1, <1>2, <1>3, NotedStep DEF Acted, Note
<1>6. QED
  BY <1>4, <1>5, NotedTurn DEF RosterStep

(* Activity with its beat.                                                 *)
LEMMA DidStep ==
  ASSUME RosterInv, NEW id \in Workers, NEW office \in Offices, NEW at \in Nat,
         NEW activity \in Activities, Did(id, office, at, activity)
  PROVE  RosterStep
<1> DEFINE does(p) == [p EXCEPT !.activity = activity,
                                !.beats = Remembered(@, [at |-> at, activity |-> activity])]
           f == [p \in Person |-> does(p)]
           news == {IF p.id = id THEN does(SeenAgain(p, at)) ELSE p : p \in Seated(id, office, at)[office]}
<1>1. Fits(f)
  <2>1. ASSUME NEW p \in Person, Here(p)
        PROVE  Here(does(p)) /\ does(p).id = p.id /\ does(p).office = p.office /\ does(p).coverage = p.coverage
    <3>1. p.beats \in Seq(Beat) /\ Newest(p.beats) /\ [at |-> at, activity |-> activity] \in Beat
      BY <2>1, PersonFields DEF Here, Sound, Beat
    <3> DEFINE beats == Remembered(p.beats, [at |-> at, activity |-> activity])
    <3>2. beats \in Seq(Beat) /\ Newest(beats)
      BY <3>1, RemembersNewest
    <3>3. does(p) = [p EXCEPT !.activity = activity, !.beats = beats]
      OBVIOUS
    <3> HIDE DEF beats, does
    <3>4. QED
      BY <2>1, <3>2, <3>3 DEF Here, Sound, Person
  <2>2. QED
    BY <2>1 DEF Fits
<1>2. Noted(id, office, at, f) = news
  BY SeatedPersons DEF Noted
<1>3. offices' = Open([Seated(id, office, at) EXCEPT ![office] = news])
  BY DEF Did, Note, SeenAgain
<1> HIDE DEF f, news
<1>4. QED
  BY <1>1, <1>2, <1>3, NotedStep DEF Did, Note

(* Resting changes nothing but the activity.                               *)
LEMMA RestedHere ==
  ASSUME NEW p, Here(p)
  PROVE  Here(Rested(p)) /\ Rested(p).id = p.id /\ Rested(p).office = p.office
         /\ Rested(p).coverage = p.coverage
<1>1. p \in Person /\ p.activity \in Activities
  BY PersonFields DEF Here, Sound
<1> DEFINE activity == IF p.activity = "Waiting" THEN "Idle" ELSE p.activity
<1>2. activity \in Activities
  BY <1>1 DEF Activities
<1>3. Rested(p) = [p EXCEPT !.activity = activity]
  BY DEF Rested
<1> HIDE DEF activity
<1>4. QED
  BY <1>1, <1>2, <1>3 DEF Here, Sound, Person

(* The begin and the end of a turn.                                        *)
LEMMA TurnStep ==
  ASSUME RosterInv, NEW id \in Workers, NEW office \in Offices, NEW at \in Nat,
         NEW open \in BOOLEAN, Turn(id, office, at, open)
  PROVE  /\ RosterStep /\ OthersStay(id)
         /\ \A p \in Present' : p.id = id => p.turn = open
<1> DEFINE turns(p) == IF open THEN [p EXCEPT !.turn = TRUE, !.lifecycle = "Active"]
                       ELSE Rested([p EXCEPT !.turn = FALSE, !.wait = None])
           f == [p \in Person |-> turns(p)]
           news == {IF p.id = id THEN turns(SeenAgain(p, at)) ELSE p : p \in Seated(id, office, at)[office]}
<1>1. Fits(f)
  <2>1. ASSUME NEW p \in Person, Here(p)
        PROVE  Here(turns(p)) /\ turns(p).id = p.id /\ turns(p).office = p.office /\ turns(p).coverage = p.coverage
    <3> DEFINE busy == [p EXCEPT !.turn = TRUE, !.lifecycle = "Active"]
               done == [p EXCEPT !.turn = FALSE, !.wait = None]
    <3>1. Here(busy) /\ busy.id = p.id /\ busy.office = p.office /\ busy.coverage = p.coverage
      BY <2>1 DEF Here, Sound, Person, Lifecycles, Ended
    <3>2. Here(done) /\ done.id = p.id /\ done.office = p.office /\ done.coverage = p.coverage
      BY <2>1 DEF Here, Sound, Person, Waits
    <3>3. turns(p) = IF open THEN busy ELSE Rested(done)
      OBVIOUS
    <3> HIDE DEF busy, done, turns
    <3>4. QED
      BY <3>1, <3>2, <3>3, RestedHere
  <2> HIDE DEF turns
  <2>2. QED
    BY <2>1 DEF Fits
<1>2. Noted(id, office, at, f) = news
  <2> HIDE DEF turns
  <2>1. QED
    BY SeatedPersons DEF Noted
<1>3. offices' = Open([Seated(id, office, at) EXCEPT ![office] = news])
  BY DEF Turn, Note, SeenAgain
<1>4. \A p \in Person : f[p].turn = open
  <2>1. \A p \in Person : turns(p).turn = open
    BY DEF Person, Rested
  <2> HIDE DEF turns
  <2>2. QED
    BY <2>1
<1> HIDE DEF f, news
<1>5. RosterStep /\ NotedAs(id, office, at, f)
  BY <1>1, <1>2, <1>3, NotedStep DEF Turn, Note
<1>6. QED
  BY <1>4, <1>5, NotedOthers

(* A change of life: one that ends leaves no turn running.                 *)
LEMMA LifecycleStep ==
  ASSUME RosterInv, NEW id \in Workers, NEW office \in Offices, NEW at \in Nat,
         NEW lifecycle \in Lifecycles \ {"Removed"}, Lifecycle(id, office, at, lifecycle)
  PROVE  /\ RosterStep /\ OthersStay(id)
         /\ lifecycle \in Ended => \A p \in Present' : p.id = id => p.turn = FALSE
         /\ lifecycle \notin Ended => TurnKept(id, office)
<1> DEFINE lives(p) == [p EXCEPT !.lifecycle = lifecycle]
           ends(p) == Rested([lives(p) EXCEPT !.turn = FALSE, !.wait = None])
           change(p) == IF lifecycle \in Ended THEN ends(p) ELSE lives(p)
           f == [p \in Person |-> change(p)]
           news == {IF p.id = id THEN change(SeenAgain(p, at)) ELSE p : p \in Seated(id, office, at)[office]}
<1>1. Fits(f)
  <2>1. ASSUME NEW p \in Person, Here(p)
        PROVE  Here(change(p)) /\ change(p).id = p.id /\ change(p).office = p.office /\ change(p).coverage = p.coverage
    <3> DEFINE on == [p EXCEPT !.lifecycle = lifecycle]
               off == [on EXCEPT !.turn = FALSE, !.wait = None]
    <3>1. /\ on \in Person /\ on.id = p.id /\ on.office = p.office /\ on.coverage = p.coverage
          /\ on.lifecycle = lifecycle /\ on.beats = p.beats /\ Newest(p.beats)
      BY <2>1 DEF Here, Sound, Person
    <3> HIDE DEF on
    <3>2. /\ off \in Person /\ off.id = p.id /\ off.office = p.office /\ off.coverage = p.coverage
          /\ off.lifecycle = lifecycle /\ off.beats = p.beats /\ off.turn = FALSE
      BY <3>1 DEF Person, Waits
    <3> HIDE DEF off
    <3>3. Here(off)
      BY <3>1, <3>2 DEF Here, Sound
    <3>4. lifecycle \notin Ended => Here(on)
      BY <3>1 DEF Here, Sound
    <3>5. change(p) = IF lifecycle \in Ended THEN Rested(off) ELSE on
      BY DEF on, off
    <3> HIDE DEF change
    <3>6. QED
      BY <3>1, <3>2, <3>3, <3>4, <3>5, RestedHere
  <2> HIDE DEF change
  <2>2. QED
    BY <2>1 DEF Fits
<1>2. Noted(id, office, at, f) = news
  <2> HIDE DEF change
  <2>1. QED
    BY SeatedPersons DEF Noted
<1>3. offices' = Open([Seated(id, office, at) EXCEPT ![office] = news])
  BY DEF Lifecycle, Note, SeenAgain
<1>4. lifecycle \in Ended => \A p \in Person : f[p].turn = FALSE
  <2>1. \A p \in Person : ends(p).turn = FALSE
    BY DEF Person, Rested
  <2> HIDE DEF ends
  <2>2. QED
    BY <2>1
<1>5. lifecycle \notin Ended => \A p \in Person : ~f[p].turn <=> ~p.turn
  <2>1. \A p \in Person : lives(p).turn = p.turn
    BY DEF Person
  <2> HIDE DEF ends, lives
  <2>2. QED
    BY <2>1
<1> HIDE DEF f, news
<1>6. RosterStep /\ NotedAs(id, office, at, f)
  BY <1>1, <1>2, <1>3, NotedStep DEF Lifecycle, Note
<1>7. RosterInv' /\ OthersStay(id)
  BY <1>6, NotedOthers DEF RosterStep
<1>8. lifecycle \in Ended => \A p \in Present' : p.id = id => p.turn = FALSE
  BY <1>4, <1>6, NotedOthers
<1>9. lifecycle \notin Ended => OthersStay(id) /\ TurnKept(id, office)
  BY <1>5, <1>6, <1>7, NotedTurn
<1>10. QED
  BY <1>6, <1>7, <1>8, <1>9

(* A wait, and its end.                                                    *)
LEMMA WaitStep ==
  ASSUME RosterInv, NEW id \in Workers, NEW office \in Offices, NEW at \in Nat,
         NEW reason \in Waits, Wait(id, office, at, reason)
  PROVE  RosterStep
<1> DEFINE waits(p) == [p EXCEPT !.wait = reason]
           change(p) == IF reason = None THEN Rested(waits(p)) ELSE waits(p)
           f == [p \in Person |-> change(p)]
           news == {IF p.id = id THEN change(SeenAgain(p, at)) ELSE p : p \in Seated(id, office, at)[office]}
<1>1. Fits(f)
  <2>1. ASSUME NEW p \in Person, Here(p)
        PROVE  Here(change(p)) /\ change(p).id = p.id /\ change(p).office = p.office /\ change(p).coverage = p.coverage
    <3> DEFINE on == [p EXCEPT !.wait = reason]
    <3>1. Here(on) /\ on.id = p.id /\ on.office = p.office /\ on.coverage = p.coverage
      BY <2>1 DEF Here, Sound, Person
    <3>2. change(p) = IF reason = None THEN Rested(on) ELSE on
      OBVIOUS
    <3> HIDE DEF on, change
    <3>3. QED
      BY <3>1, <3>2, RestedHere
  <2> HIDE DEF change
  <2>2. QED
    BY <2>1 DEF Fits
<1>2. Noted(id, office, at, f) = news
  <2> HIDE DEF change
  <2>1. QED
    BY SeatedPersons DEF Noted
<1>3. offices' = Open([Seated(id, office, at) EXCEPT ![office] = news])
  BY DEF Wait, Note, SeenAgain
<1> HIDE DEF f, news
<1>4. QED
  BY <1>1, <1>2, <1>3, NotedStep DEF Wait, Note

(* A beat of the past, of somebody here or gone.                           *)
LEMMA RecallStep ==
  ASSUME RosterInv, NEW id \in Workers, NEW at \in Nat, NEW activity \in Activities,
         HistoricalBeat(id, at, activity)
  PROVE  RosterStep
<1> DEFINE beat == [at |-> at, activity |-> activity]
           f == [p \in Person |-> [p EXCEPT !.beats = Remembered(@, beat)]]
<1>1. ASSUME NEW p \in Person
      PROVE  /\ f[p].id = p.id /\ f[p].office = p.office /\ f[p].coverage = p.coverage
             /\ f[p].lifecycle = p.lifecycle /\ f[p].turn = p.turn /\ f[p].wait = p.wait
             /\ f[p].beats = Remembered(p.beats, beat)
  BY DEF Person
<1>2. ASSUME NEW p \in Person, Sound(p) PROVE Sound(f[p])
  <2>1. p.beats \in Seq(Beat) /\ Newest(p.beats) /\ beat \in Beat
    BY <1>2, PersonFields DEF Sound, Beat
  <2> DEFINE beats == Remembered(p.beats, beat)
  <2>2. beats \in Seq(Beat) /\ Newest(beats)
    BY <2>1, RemembersNewest
  <2>3. f[p] = [p EXCEPT !.beats = beats]
    OBVIOUS
  <2> HIDE DEF beats, f
  <2>4. QED
    BY <1>2, <2>2, <2>3 DEF Sound, Person
<1>3. /\ desks' = desks
      /\ LET amended(people) == {IF p.id = id THEN [p EXCEPT !.beats = Remembered(@, beat)] ELSE p : p \in people}
         IN IF id \in DOMAIN desks
            THEN offices' = [offices EXCEPT ![desks[id]] = amended(@)] /\ UNCHANGED retired
            ELSE retired' = amended(retired) /\ UNCHANGED offices
  BY DEF HistoricalBeat, Amend
<1>4. /\ desks' = desks
      /\ LET amended(people) == {IF p.id = id THEN f[p] ELSE p : p \in people}
         IN IF id \in DOMAIN desks
            THEN offices' = [offices EXCEPT ![desks[id]] = amended(@)] /\ UNCHANGED retired
            ELSE retired' = amended(retired) /\ UNCHANGED offices
  <2>1. retired \in SUBSET Person
    BY RosterFacts
  <2>2. id \in DOMAIN desks => offices[desks[id]] \in SUBSET Person
    BY RosterFacts
  <2>3. QED
    BY <1>3, <2>1, <2>2
<1>5. DOMAIN f = Person
  OBVIOUS
<1> HIDE DEF f
<1>6. /\ RosterInv'
      /\ \A q \in Everyone' : q \in Everyone \/ \E p \in Everyone : p \in Person /\ q = f[p]
  BY <1>1, <1>2, <1>4, <1>5, AmendStep
<1>7. CoverageKept
  <2>1. \A q \in Everyone' : \E p \in Everyone : p.id = q.id /\ p.coverage = q.coverage
    BY <1>1, <1>6
  <2>2. QED
    BY <2>1, RosterFacts DEF CoverageKept
<1>8. QED
  BY <1>6, <1>7 DEF RosterStep

(* What is admitted of a worker's sources, before and after.               *)
AdmittedStill(old, new) ==
  /\ ToolLoss(old.tool) => ToolLoss(new.tool)
  /\ StreamLoss(old.stream) => StreamLoss(new.stream)
  /\ old.stream # None /\ Limited(old.stream) /\ new.stream.id # old.stream.id => new.stream.prior

(* What a tool correlation lost is still admitted when another is merged   *)
(* into it.                                                                *)
LEMMA ToolMerges ==
  ASSUME NEW new \in ToolCorrelation \cup {None}, NEW old \in ToolCorrelation \cup {None}
  PROVE  /\ MergedTool(new, old) \in ToolCorrelation \cup {None}
         /\ ToolLoss(old) => ToolLoss(MergedTool(new, old))
<1>1. CASE new = None \/ old = None
  BY <1>1 DEF MergedTool, ToolLoss
<1>2. CASE new # None /\ old # None
  <2>1. /\ new \in ToolCorrelation /\ new.lost \in Nat /\ new.prior \in BOOLEAN
        /\ old \in ToolCorrelation /\ old.lost \in Nat /\ old.prior \in BOOLEAN
    BY <1>2 DEF ToolCorrelation
  <2> DEFINE larger == IF new.lost > old.lost THEN new.lost ELSE old.lost
             same == [new EXCEPT !.lost = larger, !.prior = new.prior \/ old.prior]
             other == [new EXCEPT !.prior = new.prior \/ ToolLoss(old)]
  <2>2. larger \in Nat /\ larger >= old.lost
    BY <2>1
  <2> HIDE DEF larger
  <2>3. /\ same \in ToolCorrelation /\ same.lost = larger /\ same.prior = (new.prior \/ old.prior)
        /\ other \in ToolCorrelation /\ other.prior = (new.prior \/ ToolLoss(old))
    BY <2>1, <2>2 DEF ToolCorrelation, ToolLoss
  <2>4. same # None /\ other # None
    BY <2>3, WorldAssumption
  <2>5. MergedTool(new, old) = IF new.epoch = old.epoch THEN same ELSE other
    BY <1>2 DEF MergedTool, Larger, larger
  <2> HIDE DEF same, other
  <2>6. CASE new.epoch = old.epoch
    <3>1. ToolLoss(old) => ToolLoss(same)
      BY <2>1, <2>2, <2>3, <2>4 DEF ToolLoss
    <3>2. QED
      BY <2>3, <2>5, <2>6, <3>1
  <2>7. CASE new.epoch # old.epoch
    <3>1. ToolLoss(old) => ToolLoss(other)
      BY <2>3, <2>4 DEF ToolLoss
    <3>2. QED
      BY <2>3, <2>5, <2>7, <3>1
  <2>8. QED
    BY <2>6, <2>7
<1>3. QED
  BY <1>1, <1>2

(* So it is of a stream, and another stream inherits every limitation.     *)
LEMMA StreamMerges ==
  ASSUME NEW new \in StreamContinuity \cup {None}, NEW old \in StreamContinuity \cup {None}
  PROVE  LET merged == MergedStream(new, old)
         IN /\ merged \in StreamContinuity \cup {None}
            /\ StreamLoss(old) => StreamLoss(merged)
            /\ old # None /\ Limited(old) /\ merged.id # old.id => merged.prior
<1>1. CASE new = None \/ old = None
  BY <1>1 DEF MergedStream, StreamLoss
<1>2. CASE new # None /\ old # None
  <2>1. /\ new \in StreamContinuity /\ new.missing \in Nat /\ new.dropped \in Nat /\ new.prior \in BOOLEAN
        /\ old \in StreamContinuity /\ old.missing \in Nat /\ old.dropped \in Nat /\ old.prior \in BOOLEAN
    BY <1>2 DEF StreamContinuity
  <2> DEFINE gaps == IF new.missing > old.missing THEN new.missing ELSE old.missing
             drops == IF new.dropped > old.dropped THEN new.dropped ELSE old.dropped
             same == [new EXCEPT !.missing = gaps, !.dropped = drops, !.prior = new.prior \/ old.prior]
             other == [new EXCEPT !.prior = new.prior \/ Limited(old)]
  <2>2. gaps \in Nat /\ gaps >= old.missing /\ drops \in Nat /\ drops >= old.dropped
    BY <2>1
  <2> HIDE DEF gaps, drops
  <2>3. /\ same \in StreamContinuity /\ same.missing = gaps /\ same.dropped = drops
        /\ same.prior = (new.prior \/ old.prior) /\ same.id = new.id
    BY <2>1, <2>2 DEF StreamContinuity
  <2>4. Limited(old) \in BOOLEAN
    BY DEF Limited
  <2>5. other \in StreamContinuity /\ other.prior = (new.prior \/ Limited(old)) /\ other.id = new.id
    BY <2>1, <2>4 DEF StreamContinuity
  <2>6. same # None /\ other # None
    BY <2>3, <2>5, WorldAssumption
  <2>7. MergedStream(new, old) = IF new.id = old.id THEN same ELSE other
    BY <1>2 DEF MergedStream, Larger, gaps, drops
  <2> HIDE DEF same, other
  <2>8. CASE new.id = old.id
    <3>1. StreamLoss(old) => StreamLoss(same)
      BY <2>1, <2>2, <2>3, <2>6 DEF StreamLoss
    <3>2. QED
      BY <2>3, <2>7, <2>8, <3>1
  <2>9. CASE new.id # old.id
    <3>1. StreamLoss(old) => Limited(old)
      BY DEF Limited
    <3>2. Limited(old) => other.prior
      BY <2>5
    <3>3. StreamLoss(old) => StreamLoss(other)
      BY <2>6, <3>1, <3>2 DEF StreamLoss
    <3>4. QED
      BY <2>5, <2>7, <2>9, <3>2, <3>3
  <2>10. QED
    BY <2>8, <2>9
<1>3. QED
  BY <1>1, <1>2

(* What was admitted of everyone stays admitted.                           *)
AdmissionsKept ==
  \A p \in Everyone, q \in Everyone' : p.id = q.id => AdmittedStill(p.coverage, q.coverage)

(* Untouched coverage admits what it did.                                  *)
LEMMA KeptIsAdmitted ==
  ASSUME CoverageKept
  PROVE  AdmissionsKept
BY DEF CoverageKept, AdmissionsKept, AdmittedStill

(* An observation of a source.                                             *)
LEMMA ObservedStep ==
  ASSUME RosterInv, NEW id \in Workers, NEW report \in SourceCoverage, Coverage(id, report)
  PROVE  RosterInv' /\ AdmissionsKept
<1> DEFINE merged(c) == [stream |-> MergedStream(report.stream, c.stream),
                         tool |-> MergedTool(report.tool, c.tool)]
           f == [p \in Person |-> [p EXCEPT !.coverage = merged(@)]]
<1>1. ASSUME NEW c \in SourceCoverage
      PROVE  merged(c) \in SourceCoverage /\ AdmittedStill(c, merged(c))
  <2>1. /\ c.stream \in StreamContinuity \cup {None} /\ c.tool \in ToolCorrelation \cup {None}
        /\ report.stream \in StreamContinuity \cup {None} /\ report.tool \in ToolCorrelation \cup {None}
    BY DEF SourceCoverage
  <2> DEFINE stream == MergedStream(report.stream, c.stream)
             tool == MergedTool(report.tool, c.tool)
  <2>2. /\ stream \in StreamContinuity \cup {None} /\ (StreamLoss(c.stream) => StreamLoss(stream))
        /\ (c.stream # None /\ Limited(c.stream) /\ stream.id # c.stream.id => stream.prior)
    BY <2>1, StreamMerges
  <2>3. tool \in ToolCorrelation \cup {None} /\ (ToolLoss(c.tool) => ToolLoss(tool))
    BY <2>1, ToolMerges
  <2>4. merged(c) = [stream |-> stream, tool |-> tool]
    OBVIOUS
  <2> HIDE DEF stream, tool, merged
  <2>5. merged(c) \in SourceCoverage
    BY <2>2, <2>3, <2>4 DEF SourceCoverage
  <2>6. QED
    BY <2>2, <2>3, <2>4, <2>5 DEF AdmittedStill
<1>2. ASSUME NEW p \in Person
      PROVE  /\ f[p].id = p.id /\ f[p].office = p.office /\ f[p].beats = p.beats
             /\ f[p].lifecycle = p.lifecycle /\ f[p].turn = p.turn /\ f[p].wait = p.wait
             /\ f[p].coverage = merged(p.coverage) /\ f[p] \in Person
  <2>1. p.coverage \in SourceCoverage /\ merged(p.coverage) \in SourceCoverage
    BY <1>1, PersonFields
  <2> DEFINE c == merged(p.coverage)
  <2>2. f[p] = [p EXCEPT !.coverage = c]
    OBVIOUS
  <2>3. c \in SourceCoverage
    BY <2>1
  <2> HIDE DEF c, f, merged
  <2>4. QED
    BY <2>2, <2>3 DEF Person, c
<1>3. /\ desks' = desks
      /\ LET amended(people) == {IF p.id = id THEN [p EXCEPT !.coverage = merged(@)] ELSE p : p \in people}
         IN IF id \in DOMAIN desks
            THEN offices' = [offices EXCEPT ![desks[id]] = amended(@)] /\ UNCHANGED retired
            ELSE retired' = amended(retired) /\ UNCHANGED offices
  BY DEF Coverage, Amend
<1>4. /\ desks' = desks
      /\ LET amended(people) == {IF p.id = id THEN f[p] ELSE p : p \in people}
         IN IF id \in DOMAIN desks
            THEN offices' = [offices EXCEPT ![desks[id]] = amended(@)] /\ UNCHANGED retired
            ELSE retired' = amended(retired) /\ UNCHANGED offices
  <2>1. retired \in SUBSET Person
    BY RosterFacts
  <2>2. id \in DOMAIN desks => offices[desks[id]] \in SUBSET Person
    BY RosterFacts
  <2> HIDE DEF merged
  <2>3. QED
    BY <1>3, <2>1, <2>2
<1>5. DOMAIN f = Person
  OBVIOUS
<1> HIDE DEF f, merged
<1>6. \A p \in Person : Sound(p) => Sound(f[p])
  BY <1>2 DEF Sound
<1>7. /\ RosterInv'
      /\ \A q \in Everyone' : q \in Everyone \/ \E p \in Everyone : p \in Person /\ q = f[p]
  BY <1>2, <1>4, <1>5, <1>6, AmendStep
<1>8. AdmissionsKept
  <2>1. ASSUME NEW p \in Everyone, NEW q \in Everyone', p.id = q.id
        PROVE  AdmittedStill(p.coverage, q.coverage)
    <3>1. CASE q \in Everyone
      BY <2>1, <3>1, RosterFacts DEF AdmittedStill
    <3>2. CASE \E x \in Everyone : x \in Person /\ q = f[x]
      <4>1. PICK x \in Everyone : x \in Person /\ q = f[x]
        BY <3>2
      <4>2. x = p
        BY <1>2, <2>1, <4>1, RosterFacts
      <4>3. p.coverage \in SourceCoverage
        BY <4>1, <4>2, PersonFields
      <4>4. QED
        BY <1>1, <1>2, <4>1, <4>2, <4>3
    <3>3. QED
      BY <1>7, <3>1, <3>2
  <2>2. QED
    BY <2>1 DEF AdmissionsKept
<1>9. QED
  BY <1>7, <1>8

(* A worker that leaves.                                                   *)
LEMMA LeftStep ==
  ASSUME RosterInv, NEW id \in Workers, Left(id)
  PROVE  RosterStep /\ relationships' \subseteq relationships
<1> DEFINE f == [p \in Person |-> p]
<1>1. Fits(f)
  BY DEF Fits
<1>2. offices' = Open([o \in DOMAIN offices |-> {f[p] : p \in Without(offices[o], {id})}])
  <2>1. ASSUME NEW o \in DOMAIN offices
        PROVE  Without(offices[o], {id} \cap DOMAIN desks) = {f[p] : p \in Without(offices[o], {id})}
    <3>1. \A p \in offices[o] : p \in Person /\ p.id \in DOMAIN desks /\ f[p] = p
      BY RosterFacts
    <3> HIDE DEF f
    <3>2. Without(offices[o], {id} \cap DOMAIN desks) = Without(offices[o], {id})
      BY <3>1 DEF Without
    <3>3. \A p \in Without(offices[o], {id}) : f[p] = p
      BY <3>1 DEF Without
    <3>4. QED
      BY <3>2, <3>3
  <2> HIDE DEF f
  <2>2. [o \in DOMAIN offices |-> Without(offices[o], {id} \cap DOMAIN desks)]
          = [o \in DOMAIN offices |-> {f[p] : p \in Without(offices[o], {id})}]
    BY <2>1
  <2>3. QED
    BY <2>2 DEF Left
<1>3. Retire({id})
  BY DEF Left
<1> HIDE DEF f
<1>4. QED
  BY <1>1, <1>2, <1>3, RetireStep DEF Fits, RosterStep

(* Time passes: the silent leave and the busy calm down.                   *)
LEMMA TickStep ==
  ASSUME RosterInv, NEW time \in Nat, Tick(time)
  PROVE  RosterStep /\ relationships' \subseteq relationships
<1> DEFINE gone == {p.id : p \in {q \in Present : time > q.seen + OfflineAfter}}
           calmed(p) == IF time > p.seen + IdleAfter /\ p.activity = "Busy"
                        THEN [p EXCEPT !.activity = "Idle"] ELSE p
           f == [p \in Person |-> calmed(p)]
<1>1. Fits(f)
  <2>1. ASSUME NEW p \in Person, Here(p)
        PROVE  Here(calmed(p)) /\ calmed(p).id = p.id /\ calmed(p).office = p.office
               /\ calmed(p).coverage = p.coverage
    <3> DEFINE idle == [p EXCEPT !.activity = "Idle"]
    <3>1. Here(idle) /\ idle.id = p.id /\ idle.office = p.office /\ idle.coverage = p.coverage
      BY <2>1 DEF Here, Sound, Person, Activities
    <3>2. calmed(p) = idle \/ calmed(p) = p
      OBVIOUS
    <3> HIDE DEF calmed, idle
    <3>3. QED
      BY <2>1, <3>1, <3>2
  <2> HIDE DEF calmed
  <2>2. QED
    BY <2>1 DEF Fits
<1>2. offices' = Open([o \in DOMAIN offices |-> {f[p] : p \in Without(offices[o], gone)}])
  <2>1. offices' = Open([o \in DOMAIN offices |-> {calmed(p) : p \in Without(offices[o], gone)}])
    BY DEF Tick
  <2>2. ASSUME NEW o \in DOMAIN offices
        PROVE  {calmed(p) : p \in Without(offices[o], gone)} = {f[p] : p \in Without(offices[o], gone)}
    <3> HIDE DEF calmed, gone
    <3>1. \A p \in Without(offices[o], gone) : p \in Person
      BY RosterFacts DEF Without
    <3>2. QED
      BY <3>1
  <2> HIDE DEF f, gone, calmed
  <2>3. [o \in DOMAIN offices |-> {calmed(p) : p \in Without(offices[o], gone)}]
          = [o \in DOMAIN offices |-> {f[p] : p \in Without(offices[o], gone)}]
    BY <2>2
  <2>4. QED
    BY <2>1, <2>3
<1>3. Retire(gone)
  BY DEF Tick
<1> HIDE DEF f, gone
<1>4. QED
  BY <1>1, <1>2, <1>3, RetireStep DEF Fits, RosterStep

(* The records of the workers and of their relationships.                  *)
PeopleInv == RosterInv /\ KinInv

(* The empty world is in order.                                            *)
LEMMA PeopleInit == WorldInit => PeopleInv
<1> SUFFICES ASSUME WorldInit PROVE PeopleInv
  OBVIOUS
<1>1. Present = {} /\ retired = {} /\ relationships = {} /\ DOMAIN desks = {} /\ DOMAIN offices = {}
  BY DEF WorldInit, Present
<1>2. IsFiniteSet({}) /\ Cardinality({}) = 0
  BY FS_EmptySet
<1>3. RosterInv
  BY <1>1, <1>2, WorldAssumption DEF RosterInv, Seating, AtDesks, GoneFrom, OneEach
<1>4. KinInv
  BY <1>1, <1>2 DEF KinInv, Acyclic, Explicit
<1>5. QED
  BY <1>3, <1>4 DEF PeopleInv

(* Every event keeps the records and what they admit.                      *)
LEMMA PeopleStep ==
  ASSUME PeopleInv, [WorldNext]_worldVars
  PROVE  PeopleInv' /\ AdmissionsKept
<1>a. RosterInv /\ KinInv
  BY DEF PeopleInv
<1>b. \A at \in Moments : at \in Nat
  BY KinshipAssumption
<1>c. RosterStep /\ relationships' \subseteq relationships => PeopleInv' /\ AdmissionsKept
  BY <1>a, FewerStep, KeptIsAdmitted DEF RosterStep, PeopleInv
<1>d. RosterStep /\ UNCHANGED relationships => PeopleInv' /\ AdmissionsKept
  BY <1>c
<1>1. ASSUME NEW id \in Workers, NEW o \in Offices, NEW at \in Moments,
             Seen(id, o, at) \/ Tokens(id, o, at) \/ Identity(id, o, at)
      PROVE  PeopleInv' /\ AdmissionsKept
  <2>1. Note(id, o, at, Same) /\ UNCHANGED relationships
    BY <1>1 DEF Seen, Tokens, Identity, Note
  <2>2. QED
    BY <1>a, <1>b, <1>d, <2>1, SeenStep
<1>2. ASSUME NEW id \in Workers, NEW o \in Offices, NEW at \in Moments, NEW a \in Activities,
             Acted(id, o, at, a) \/ Did(id, o, at, a)
      PROVE  PeopleInv' /\ AdmissionsKept
  <2>1. UNCHANGED relationships
    BY <1>2 DEF Acted, Did, Note
  <2>2. QED
    BY <1>a, <1>b, <1>d, <1>2, <2>1, ActedStep, DidStep
<1>3. ASSUME NEW id \in Workers, NEW o \in Offices, NEW at \in Moments, NEW open \in BOOLEAN,
             Turn(id, o, at, open)
      PROVE  PeopleInv' /\ AdmissionsKept
  <2>1. UNCHANGED relationships
    BY <1>3 DEF Turn, Note
  <2>2. QED
    BY <1>a, <1>b, <1>d, <1>3, <2>1, TurnStep
<1>4. ASSUME NEW id \in Workers, NEW o \in Offices, NEW at \in Moments,
             NEW l \in Lifecycles \ {"Removed"}, Lifecycle(id, o, at, l)
      PROVE  PeopleInv' /\ AdmissionsKept
  <2>1. UNCHANGED relationships
    BY <1>4 DEF Lifecycle, Note
  <2>2. QED
    BY <1>a, <1>b, <1>d, <1>4, <2>1, LifecycleStep
<1>5. ASSUME NEW id \in Workers, NEW o \in Offices, NEW at \in Moments, NEW r \in Waits,
             Wait(id, o, at, r)
      PROVE  PeopleInv' /\ AdmissionsKept
  <2>1. UNCHANGED relationships
    BY <1>5 DEF Wait, Note
  <2>2. QED
    BY <1>a, <1>b, <1>d, <1>5, <2>1, WaitStep
<1>6. ASSUME NEW id \in Workers, Left(id)
      PROVE  PeopleInv' /\ AdmissionsKept
  BY <1>a, <1>c, <1>6, LeftStep
<1>7. ASSUME NEW id \in Workers, NEW at \in Moments, NEW a \in Activities, HistoricalBeat(id, at, a)
      PROVE  PeopleInv' /\ AdmissionsKept
  <2>1. UNCHANGED relationships
    BY <1>7 DEF HistoricalBeat
  <2>2. QED
    BY <1>a, <1>b, <1>d, <1>7, <2>1, RecallStep
<1>8. ASSUME NEW id \in Workers, NEW report \in Reports, Coverage(id, report)
      PROVE  PeopleInv' /\ AdmissionsKept
  <2>1. relationships' \subseteq relationships /\ report \in SourceCoverage
    BY <1>8, WorldAssumption DEF Coverage
  <2>2. QED
    BY <1>a, <1>8, <2>1, ObservedStep, FewerStep DEF PeopleInv
<1>9. ASSUME NEW time \in Moments, Tick(time)
      PROVE  PeopleInv' /\ AdmissionsKept
  BY <1>a, <1>b, <1>c, <1>9, TickStep
<1>10. ASSUME NEW r \in Relationship, Relation(r)
      PROVE  PeopleInv' /\ AdmissionsKept
  BY <1>a, <1>10, NobodyNew, RelateStep, KeptIsAdmitted DEF Relation, PeopleInv
<1>11. ASSUME UNCHANGED <<rosterVars, relationships>>
      PROVE  PeopleInv' /\ AdmissionsKept
  BY <1>a, <1>d, <1>11, NobodyNew DEF RosterStep
<1>12. CASE WorldNext
  BY <1>1, <1>2, <1>3, <1>4, <1>5, <1>6, <1>7, <1>8, <1>9, <1>10, <1>11, <1>12
     DEF WorldNext, Collaboration
<1>13. CASE UNCHANGED worldVars
  BY <1>11, <1>13 DEF worldVars
<1>14. QED
  BY <1>12, <1>13

(* The invariant: the records of workers and relationships are in order for*)
(* any workers, any events in any order and any limits.                    *)
THEOREM PeopleInvariance == WorldSpec => []PeopleInv
<1>1. PeopleInv /\ [WorldNext]_worldVars => PeopleInv'
  BY PeopleStep
<1>2. QED
  BY PeopleInit, <1>1, PTL DEF WorldSpec

(* RosterAgrees (apply, tick, retire, enforce_retired_limit): the index of *)
(* desks, the offices and the retired workers never disagree.              *)
THEOREM RosterAgreesCorrect == WorldSpec => []RosterAgrees
<1>1. PeopleInv => RosterAgrees
  BY RosterMeans DEF PeopleInv
<1>2. QED
  BY PeopleInvariance, <1>1, PTL

(* Acyclic (apply, RelationshipObserved): nobody ever becomes an explicit  *)
(* ancestor of themselves, though records are replaced, trimmed and dropped.*)
THEOREM AcyclicCorrect == WorldSpec => []Acyclic
<1>1. PeopleInv => Acyclic
  BY DEF PeopleInv, KinInv
<1>2. QED
  BY PeopleInvariance, <1>1, PTL

(* KinshipSound (apply, RelationshipObserved; tree): besides, the tree of  *)
(* any root shows everyone below it exactly once, each one step below a row*)
(* that stands above, and draws nobody who descends by explicit records as *)
(* a mere member of the session.                                           *)
THEOREM KinshipSoundCorrect == WorldSpec => []KinshipSound
<1>1. ASSUME PeopleInv PROVE KinshipSound
  <2>1. KinInv
    BY <1>1 DEF PeopleInv
  <2>2. Acyclic
    BY <2>1 DEF KinInv
  <2>3. QED
    BY <2>1, <2>2, TreeSound DEF KinshipSound
<1>2. QED
  BY PeopleInvariance, <1>1, PTL

(* LossNeverForgotten (merge_observation): what a source admitted to have  *)
(* lost of a worker stays admitted while the world knows the worker.       *)
THEOREM LossNeverForgottenCorrect == WorldSpec => LossNeverForgotten
<1>1. PeopleInv /\ [WorldNext]_worldVars
        => [\A p \in Everyone, q \in Everyone' : p.id = q.id =>
              /\ ToolLoss(p.coverage.tool) => ToolLoss(q.coverage.tool)
              /\ StreamLoss(p.coverage.stream) => StreamLoss(q.coverage.stream)
              /\ p.coverage.stream # None /\ Limited(p.coverage.stream)
                   /\ q.coverage.stream.id # p.coverage.stream.id => q.coverage.stream.prior]_worldVars
  BY PeopleStep DEF AdmissionsKept, AdmittedStill
<1>2. QED
  BY PeopleInvariance, <1>1, PTL DEF WorldSpec, LossNeverForgotten

(* The world's events reach the history by Insert alone, so that what is   *)
(* proved of the history above holds of every world.                       *)
THEOREM WorldKeepsHistory == WorldSpec => HistorySpec
<1>1. WorldInit => HistoryInit
  BY DEF WorldInit
<1>2. ASSUME [WorldNext]_worldVars PROVE [HistoryNext]_historyVars
  <2>1. CASE UNCHANGED historyVars
    BY <2>1
  <2>2. CASE \E o \in Offices, k \in Keys, t \in Times, b \in Bodies : Collaboration(o, k, t, b)
    BY <2>2 DEF Collaboration, HistoryNext
  <2>3. ASSUME NEW id, NEW o, NEW at,
               \/ Seen(id, o, at) \/ Tokens(id, o, at) \/ Identity(id, o, at)
               \/ \E a \in Activities : Acted(id, o, at, a) \/ Did(id, o, at, a)
               \/ \E open \in BOOLEAN : Turn(id, o, at, open)
               \/ \E l \in Lifecycles \ {"Removed"} : Lifecycle(id, o, at, l)
               \/ \E r \in Waits : Wait(id, o, at, r)
        PROVE  UNCHANGED historyVars
    BY <2>3 DEF Seen, Tokens, Identity, Acted, Did, Turn, Lifecycle, Wait, Note
  <2>4. ASSUME NEW id, \/ Left(id) \/ \E at \in Moments, a \in Activities : HistoricalBeat(id, at, a)
                       \/ \E report \in Reports : Coverage(id, report)
        PROVE  UNCHANGED historyVars
    BY <2>4 DEF Left, HistoricalBeat, Coverage
  <2>5. ASSUME \/ \E time \in Moments : Tick(time)
               \/ \E r \in Relationship : Relation(r)
               \/ UNCHANGED worldVars
        PROVE  UNCHANGED historyVars
    BY <2>5 DEF Tick, Relation, worldVars
  <2>6. QED
    BY <1>2, <2>1, <2>2, <2>3, <2>4, <2>5 DEF WorldNext
<1>3. QED
  BY <1>1, <1>2, PTL DEF WorldSpec, HistorySpec

-----------------------------------------------------------------------------
(* The batch of a poll.                                                    *)
Messages ==
  [kind : {"Left", "Seen", "Asked", "Did", "Turn", "Life"}, worker : Threads, office : Projects,
   at : Nat, open : BOOLEAN]

(* Told says what it is given to say, and nothing else.                    *)
LEMMA ToldIn ==
  ASSUME NEW T, NEW message, DOMAIN message \in SUBSET Nat, IsFiniteSet(DOMAIN message),
         \A w \in DOMAIN message : message[w] \in T
  PROVE  /\ Told(message) \in Seq(T)
         /\ \A m \in In(Told(message)) : \E w \in DOMAIN message : m = message[w]
         /\ \A w \in DOMAIN message : message[w] \in In(Told(message))
<1> DEFINE W == DOMAIN message
           n == Cardinality(W)
           at(i) == CHOOSE w \in W : Cardinality(Upto(W, w)) = i
           told == [i \in 1..n |-> message[at(i)]]
<1>1. Told(message) = told
  BY DEF Told, Upto
<1>2. /\ n \in Nat /\ \A w \in W : Cardinality(Upto(W, w)) \in 1..n
      /\ \A x, y \in W : Cardinality(Upto(W, x)) = Cardinality(Upto(W, y)) => x = y
      /\ \A i \in 1..n : \E x \in W : Cardinality(Upto(W, x)) = i
  <2> HIDE DEF W
  <2>1. W \in SUBSET Nat /\ IsFiniteSet(W)
    BY DEF W
  <2>2. QED
    BY <2>1, PlacesDiffer
<1> HIDE DEF W, n
<1>3. \A i \in 1..n : at(i) \in W /\ Cardinality(Upto(W, at(i))) = i
  BY <1>2
<1>4. \A w \in W : at(Cardinality(Upto(W, w))) = w
  BY <1>2, <1>3
<1> HIDE DEF at
<1>5. told \in Seq(T) /\ DOMAIN told = 1..n
  BY <1>2, <1>3 DEF W
<1>6. \A i \in 1..n : told[i] = message[at(i)]
  OBVIOUS
<1> HIDE DEF told
<1>7. ASSUME NEW w \in W PROVE message[w] \in In(told)
  <2>1. Cardinality(Upto(W, w)) \in 1..n
    BY <1>2
  <2>2. told[Cardinality(Upto(W, w))] = message[w]
    BY <1>4, <1>6, <2>1
  <2>3. QED
    BY <1>5, <2>1, <2>2 DEF In
<1>8. \A m \in In(told) : \E w \in W : m = message[w]
  BY <1>3, <1>5, <1>6 DEF In
<1>9. QED
  BY <1>1, <1>5, <1>7, <1>8 DEF W

(* In the order of time, and what is of one time as it was.                *)
Sorted(all, s) ==
  \A i, k \in DOMAIN s : i < k =>
    \E a, b \in DOMAIN all :
      /\ s[i] = all[a] /\ s[k] = all[b]
      /\ all[a].at < all[b].at \/ (all[a].at = all[b].at /\ a < b)

(* Sorting by time loses and invents nothing, and sorts.                   *)
LEMMA ByTimeIn ==
  ASSUME NEW T, NEW all \in Seq(T), \A m \in T : m.at \in Nat
  PROVE  ByTime(all) \in Seq(T) /\ In(ByTime(all)) = In(all) /\ Sorted(all, ByTime(all))
<1> DEFINE S == DOMAIN all
           n == Len(all)
           upto == [i \in S |-> {j \in S : all[j].at < all[i].at
                                           \/ (all[j].at = all[i].at /\ j <= i)}]
           place(i) == Cardinality({j \in S : all[j].at < all[i].at
                                              \/ (all[j].at = all[i].at /\ j <= i)})
           from(k) == CHOOSE i \in S : place(i) = k
           sorted == [k \in S |-> all[from(k)]]
           before(x, y) == all[x].at < all[y].at \/ (all[x].at = all[y].at /\ x < y)
<1>a. ByTime(all) = sorted
  BY DEF ByTime
<1>1. \A i \in S : place(i) = Cardinality(upto[i])
  OBVIOUS
<1> HIDE DEF place
<1>2. n \in Nat /\ S = 1..n /\ \A i \in S : i \in Nat /\ all[i] \in T
  OBVIOUS
<1>3. \A i \in S : all[i].at \in Nat
  BY <1>2
<1>4. IsFiniteSet(S) /\ Cardinality(S) = n
  BY <1>2, FS_Interval
<1>b. ASSUME NEW x \in S PROVE x \in upto[x] /\ upto[x] \in SUBSET S
  BY <1>2, <1>3
<1>c. ASSUME NEW x \in S, NEW y \in S, before(x, y)
      PROVE  upto[x] \in SUBSET upto[y] /\ y \notin upto[x]
  <2>1. ASSUME NEW j \in upto[x] PROVE j \in upto[y]
    <3>1. j \in S /\ (all[j].at < all[x].at \/ (all[j].at = all[x].at /\ j <= x))
      BY <2>1
    <3>2. /\ all[j].at \in Nat /\ all[x].at \in Nat /\ all[y].at \in Nat
          /\ j \in Nat /\ x \in Nat /\ y \in Nat
      BY <1>2, <1>3, <3>1
    <3>3. all[j].at < all[y].at \/ (all[j].at = all[y].at /\ j <= y)
      BY <1>c, <3>1, <3>2
    <3>4. QED
      BY <3>1, <3>3
  <2>2. ~(all[y].at < all[x].at \/ (all[y].at = all[x].at /\ y <= x))
    BY <1>2, <1>3, <1>c
  <2>3. QED
    BY <2>1, <2>2
<1>d. \A x, y \in S : x = y \/ before(x, y) \/ before(y, x)
  BY <1>2, <1>3
<1>e. DOMAIN upto = S
  OBVIOUS
<1> HIDE DEF upto, S, before
<1>5. Ordered(S, upto)
  BY <1>4, <1>b, <1>c, <1>d, <1>e DEF Ordered
<1>f. ASSUME NEW x \in S, NEW y \in S, Cardinality(upto[x]) < Cardinality(upto[y])
      PROVE  before(x, y)
  <2>1. /\ IsFiniteSet(upto[x]) /\ IsFiniteSet(upto[y])
        /\ Cardinality(upto[x]) \in Nat /\ Cardinality(upto[y]) \in Nat
    BY <1>4, <1>b, FS_Subset, FS_CardinalityType
  <2>2. ASSUME before(y, x) PROVE FALSE
    <3>1. upto[y] \in SUBSET upto[x]
      BY <1>c, <2>2
    <3>2. Cardinality(upto[y]) <= Cardinality(upto[x])
      BY <2>1, <3>1, FS_Subset
    <3>3. QED
      BY <1>f, <2>1, <3>2
  <2>3. x # y
    BY <1>f, <2>1
  <2>4. QED
    BY <1>d, <2>2, <2>3
<1> HIDE DEF n
<1>6. /\ \A x \in S : Cardinality(upto[x]) \in 1..n
      /\ \A x, y \in S : Cardinality(upto[x]) = Cardinality(upto[y]) => x = y
      /\ \A i \in 1..n : \E x \in S : Cardinality(upto[x]) = i
  BY <1>4, <1>5, PlacesFilled
<1>7. \A k \in 1..n : from(k) \in S /\ place(from(k)) = k
  BY <1>1, <1>6
<1>8. \A i \in S : place(i) \in 1..n /\ from(place(i)) = i
  BY <1>1, <1>6, <1>7
<1> HIDE DEF from
<1>9. \A k \in S : sorted[k] = all[from(k)]
  OBVIOUS
<1>10. DOMAIN sorted = S /\ sorted \in Seq(T)
  <2>1. sorted \in [1..n -> T]
    BY <1>2, <1>7
  <2>2. QED
    BY <1>2, <2>1
<1> HIDE DEF sorted
<1>11. \A k \in S : \E i \in S : sorted[k] = all[i]
  BY <1>2, <1>7, <1>9
<1>12. ASSUME NEW i \in S PROVE \E k \in S : sorted[k] = all[i]
  <2>1. place(i) \in S
    BY <1>2, <1>8
  <2>2. sorted[place(i)] = all[i]
    BY <1>8, <1>9, <2>1
  <2>3. QED
    BY <2>1, <2>2
<1>13. In(sorted) = In(all)
  BY <1>10, <1>11, <1>12 DEF In, S
<1>14. Sorted(all, sorted)
  <2>1. ASSUME NEW i \in S, NEW k \in S, i < k
        PROVE  before(from(i), from(k))
    <3>1. /\ from(i) \in S /\ from(k) \in S
          /\ Cardinality(upto[from(i)]) = i /\ Cardinality(upto[from(k)]) = k
      BY <1>1, <1>2, <1>7
    <3>2. QED
      BY <1>f, <2>1, <3>1
  <2>2. \A k \in S : from(k) \in S
    BY <1>2, <1>7
  <2>3. S = DOMAIN all
    BY DEF S
  <2>4. QED
    BY <1>9, <1>10, <2>1, <2>2, <2>3 DEF Sorted, before
<1>15. QED
  BY <1>a, <1>10, <1>13, <1>14

(* What comes from the first of three sequences, and what does not.        *)
LEMMA Apart ==
  ASSUME NEW M, NEW p \in Seq(M), NEW q \in Seq(M), NEW s \in Seq(M)
  PROVE  \A i \in DOMAIN ((p \o q) \o s) :
           /\ i <= Len(p) => ((p \o q) \o s)[i] \in In(p)
           /\ i > Len(p) => ((p \o q) \o s)[i] \in In(q) \cup In(s)
<1> DEFINE b == p \o q
           c == b \o s
<1>1. b \in Seq(M) /\ IsBoth(p, q, b)
  BY InBoth
<1> HIDE DEF b
<1>2. c \in Seq(M) /\ IsBoth(b, s, c)
  BY <1>1, InBoth
<1> HIDE DEF c
<1>3. /\ Len(p) \in Nat /\ Len(q) \in Nat /\ Len(s) \in Nat /\ Len(b) \in Nat /\ Len(c) \in Nat
      /\ DOMAIN p = 1..Len(p) /\ DOMAIN b = 1..Len(b) /\ DOMAIN c = 1..Len(c)
      /\ DOMAIN q = 1..Len(q) /\ DOMAIN s = 1..Len(s)
  BY <1>1, <1>2
<1>4. Len(b) = Len(p) + Len(q) /\ Len(c) = Len(b) + Len(s)
  BY <1>1, <1>2 DEF IsBoth
<1>5. ASSUME NEW i \in DOMAIN c, i <= Len(p) PROVE c[i] \in In(p)
  <2>1. i \in DOMAIN p /\ i \in DOMAIN b
    BY <1>3, <1>4, <1>5
  <2>2. c[i] = b[i] /\ b[i] = p[i]
    BY <1>1, <1>2, <2>1 DEF IsBoth
  <2>3. QED
    BY <2>1, <2>2 DEF In
<1>6. ASSUME NEW i \in DOMAIN c, i > Len(p) PROVE c[i] \in In(q) \cup In(s)
  <2>1. CASE i \in DOMAIN b
    <3>1. c[i] = b[i]
      BY <1>2, <2>1 DEF IsBoth
    <3>2. i \notin DOMAIN p
      BY <1>3, <1>6
    <3>3. i - Len(p) \in DOMAIN q /\ b[i] = q[i - Len(p)]
      BY <1>1, <2>1, <3>2 DEF IsBoth
    <3>4. QED
      BY <3>1, <3>3 DEF In
  <2>2. CASE i \notin DOMAIN b
    <3>1. i - Len(b) \in DOMAIN s /\ c[i] = s[i - Len(b)]
      BY <1>2, <1>6, <2>2 DEF IsBoth
    <3>2. QED
      BY <3>1 DEF In
  <2>3. QED
    BY <2>1, <2>2
<1>7. QED
  BY <1>5, <1>6 DEF b, c

(* What the stores and the collector hold.                                 *)
Listing(f) ==
  /\ DOMAIN f \in SUBSET Threads /\ IsFiniteSet(DOMAIN f)
  /\ \A w \in DOMAIN f : f[w].office \in Projects /\ f[w].updated \in Nat

TurnsOf(f) == \A w \in DOMAIN f : f[w].at \in Nat /\ f[w].open \in BOOLEAN

StoresTyped ==
  /\ now \in Nat /\ Listing(rows) /\ TurnsOf(latest)
  /\ \A x \in items : x.at \in Nat /\ x.at <= now

(* Of some times that have come, one is the last.                          *)
LEMMA LastOf ==
  ASSUME NEW limit \in Nat, NEW T \in SUBSET (0..limit), T # {}
  PROVE  \E t \in T : \A u \in T : u <= t
<1> DEFINE D == {d \in Nat : limit - d \in T}
<1>1. \A t \in T : limit - t \in D
  <2>1. ASSUME NEW t \in T PROVE limit - t \in Nat /\ limit - (limit - t) = t
    OBVIOUS
  <2>2. QED
    BY <2>1
<1>2. D \in SUBSET Nat /\ D # {}
  BY <1>1
<1>3. \A d \in D : d \in Nat /\ limit - d \in T
  OBVIOUS
<1> HIDE DEF D
<1>4. PICK d \in D : \A e \in D : d <= e
  BY <1>2, LeastOf
<1>5. ASSUME NEW u \in T PROVE u <= limit - d
  <2>1. d <= limit - u /\ u \in Nat /\ d \in Nat
    BY <1>1, <1>3, <1>4
  <2>2. QED
    BY <2>1
<1>6. QED
  BY <1>3, <1>4, <1>5

(* The store holds nothing from the future.                                *)
LEMMA CreatedNat ==
  ASSUME StoresTyped, NEW current, NEW w, NEW ids
  PROVE  Created(current, w, ids) \in SUBSET (0..now) /\ \A t \in Created(current, w, ids) : t \in Nat
<1>1. now \in Nat /\ \A x \in items : x.at \in Nat /\ x.at <= now
  BY DEF StoresTyped
<1>2. \A x \in Read(current) : x \in items
  BY DEF Read
<1>3. \A x \in Read(current) : x.at \in 0..now /\ x.at \in Nat
  BY <1>1, <1>2
<1>4. QED
  BY <1>3 DEF Created

(* The last of the fresh items of a thread.                                *)
LEMMA LastCreated ==
  ASSUME StoresTyped, NEW current, NEW w, NEW ids, Created(current, w, ids) # {}
  PROVE  /\ LastTime(Created(current, w, ids)) \in Created(current, w, ids)
         /\ LastTime(Created(current, w, ids)) \in Nat
         /\ \A u \in Created(current, w, ids) : u <= LastTime(Created(current, w, ids))
<1> DEFINE T == Created(current, w, ids)
<1>1. T \in SUBSET (0..now) /\ now \in Nat
  BY CreatedNat DEF StoresTyped
<1> HIDE DEF T
<1>2. \E t \in T : \A u \in T : u <= t
  BY <1>1, LastOf DEF T
<1>3. LastTime(T) \in T /\ \A u \in T : u <= LastTime(T)
  BY <1>2 DEF LastTime
<1>4. QED
  BY <1>1, <1>3 DEF T

(* The messages of a batch: departures; arrivals, deeds and turns of the   *)
(* listed, with their projects, as the turns and the items were read.      *)
Tells(current, m) ==
  \/ m.kind = "Left" /\ m.worker \in Departures(current)
  \/ /\ m.kind # "Left" /\ m.worker \in DOMAIN current /\ m.office = current[m.worker].office
     /\ m.kind \in {"Turn", "Life"} =>
          /\ m.worker \in Turned(current)
          /\ m.open = turnRows[m.worker].open /\ m.at = turnRows[m.worker].at
     /\ m.kind = "Asked" =>
          /\ m.open = TRUE /\ m.at \in Created(current, m.worker, UserItems)
          /\ \A u \in Created(current, m.worker, UserItems) : u <= m.at

(* By time, and of one time a user message before a turn.                  *)
Arranged(b) ==
  \A i, k \in DOMAIN b : i < k =>
    /\ b[i].at <= b[k].at
    /\ b[i].kind = "Turn" /\ b[k].kind = "Asked" => b[i].at < b[k].at

LEMMA BatchTells ==
  ASSUME StoresTyped, Listing(threads), TurnsOf(turnRows), began \in Nat,
         NEW current, Listing(current)
  PROVE  /\ Batch(current) \in Seq(Messages) /\ Arranged(Batch(current))
         /\ \A m \in In(Batch(current)) : Tells(current, m)
         /\ \A w \in Departures(current) :
              \E m \in In(Batch(current)) : m.worker = w /\ m.kind = "Left"
         /\ \A w \in Arrivals(current) : \E m \in In(Batch(current)) : m.worker = w
         /\ \A w \in Turned(current) :
              \E m \in In(Batch(current)) : m.worker = w /\ m.kind = "Turn"
         /\ \A w \in DOMAIN current : Created(current, w, UserItems) # {} =>
              \E m \in In(Batch(current)) : m.worker = w /\ m.kind = "Asked"
<1> DEFINE office(w) == current[w].office
           told(kind, w, at, open) == Message(kind, w, office(w), at, open)
           busy(ids) == {w \in DOMAIN current : Created(current, w, ids) # {}}
           last(w, ids) == LastTime(Created(current, w, ids))
           left == [w \in Departures(current) |-> Message("Left", w, threads[w].office, began, FALSE)]
           seen == [w \in Arrivals(current) |-> told("Seen", w, current[w].updated, FALSE)]
           user == [w \in busy(UserItems) |-> told("Asked", w, last(w, UserItems), TRUE)]
           did == [w \in busy(Items) |-> told("Did", w, last(w, Items), FALSE)]
           turn == [w \in Turned(current) |-> told("Turn", w, turnRows[w].at, turnRows[w].open)]
           life == [w \in Turned(current) |-> told("Life", w, turnRows[w].at, turnRows[w].open)]
           all == Told(left) \o Told(seen) \o Told(user) \o Told(did) \o Told(turn) \o Told(life)
<1>1. Batch(current) = ByTime(all)
  BY DEF Batch
<1>2. Threads \in SUBSET Nat
  BY KinshipAssumption, CodexAssumption
<1>3. /\ DOMAIN current \in SUBSET Threads /\ IsFiniteSet(DOMAIN current)
      /\ DOMAIN threads \in SUBSET Threads /\ IsFiniteSet(DOMAIN threads)
      /\ \A w \in DOMAIN current : office(w) \in Projects /\ current[w].updated \in Nat
      /\ \A w \in DOMAIN threads : threads[w].office \in Projects
  BY DEF Listing
<1>4. /\ Departures(current) \in SUBSET DOMAIN threads
      /\ Arrivals(current) \in SUBSET DOMAIN current
      /\ Turned(current) \in SUBSET DOMAIN current
      /\ \A w \in Turned(current) : turnRows[w].at \in Nat /\ turnRows[w].open \in BOOLEAN
      /\ \A ids : busy(ids) \in SUBSET DOMAIN current
  BY DEF Departures, Arrivals, Turned, TurnsOf
<1>5. ASSUME NEW ids, NEW w \in busy(ids)
      PROVE  /\ last(w, ids) \in Nat /\ last(w, ids) \in Created(current, w, ids)
             /\ \A u \in Created(current, w, ids) : u <= last(w, ids)
  BY LastCreated
<1>u. \A w \in DOMAIN current : Created(current, w, UserItems) # {} => w \in busy(UserItems)
  OBVIOUS
<1> HIDE DEF busy, last
<1>6. /\ \A w \in DOMAIN left : left[w] \in Messages /\ Tells(current, left[w])
                                /\ left[w].worker = w /\ left[w].kind = "Left"
      /\ DOMAIN left = Departures(current)
  BY <1>3, <1>4 DEF Messages, Message, Tells
<1>7. /\ \A w \in DOMAIN seen : seen[w] \in Messages /\ Tells(current, seen[w])
                                /\ seen[w].worker = w /\ seen[w].kind = "Seen"
      /\ DOMAIN seen = Arrivals(current)
  BY <1>3, <1>4 DEF Messages, Message, Tells
<1>8. /\ \A w \in DOMAIN user : user[w] \in Messages /\ Tells(current, user[w])
                                /\ user[w].worker = w /\ user[w].kind = "Asked"
      /\ DOMAIN user = busy(UserItems)
  <2>1. ASSUME NEW w \in busy(UserItems)
        PROVE  /\ user[w] \in Messages /\ Tells(current, user[w])
               /\ user[w].worker = w /\ user[w].kind = "Asked"
    <3>1. w \in DOMAIN current /\ w \in Threads /\ office(w) \in Projects
      BY <1>3, <1>4
    <3>2. user[w] = [kind |-> "Asked", worker |-> w, office |-> office(w), at |-> last(w, UserItems), open |-> TRUE]
      BY DEF Message
    <3> HIDE DEF user
    <3>3. user[w] \in Messages
      BY <1>5, <3>1, <3>2 DEF Messages
    <3>4. Tells(current, user[w])
      BY <1>5, <3>1, <3>2 DEF Tells
    <3>5. QED
      BY <3>2, <3>3, <3>4
  <2>2. QED
    BY <2>1
<1>9. /\ \A w \in DOMAIN did : did[w] \in Messages /\ Tells(current, did[w])
                               /\ did[w].worker = w /\ did[w].kind = "Did"
      /\ DOMAIN did = busy(Items)
  BY <1>3, <1>4, <1>5 DEF Messages, Message, Tells
<1>10. /\ \A w \in DOMAIN turn : turn[w] \in Messages /\ Tells(current, turn[w])
                                 /\ turn[w].worker = w /\ turn[w].kind = "Turn"
       /\ DOMAIN turn = Turned(current)
  BY <1>3, <1>4 DEF Messages, Message, Tells
<1>11. /\ \A w \in DOMAIN life : life[w] \in Messages /\ Tells(current, life[w])
                                 /\ life[w].worker = w /\ life[w].kind = "Life"
       /\ DOMAIN life = Turned(current)
  BY <1>3, <1>4 DEF Messages, Message, Tells
<1> HIDE DEF left, seen, user, did, turn, life
<1>12. /\ \A f \in {left, seen, user, did, turn, life} : DOMAIN f \in SUBSET Nat /\ IsFiniteSet(DOMAIN f)
  <2>1. \A S \in SUBSET DOMAIN current : S \in SUBSET Nat /\ IsFiniteSet(S)
    BY <1>2, <1>3, FS_Subset
  <2>2. \A S \in SUBSET DOMAIN threads : S \in SUBSET Nat /\ IsFiniteSet(S)
    BY <1>2, <1>3, FS_Subset
  <2>3. /\ DOMAIN left \in SUBSET DOMAIN threads /\ DOMAIN seen \in SUBSET DOMAIN current
        /\ DOMAIN user \in SUBSET DOMAIN current /\ DOMAIN did \in SUBSET DOMAIN current
        /\ DOMAIN turn \in SUBSET DOMAIN current /\ DOMAIN life \in SUBSET DOMAIN current
    BY <1>4, <1>6, <1>7, <1>8, <1>9, <1>10, <1>11
  <2>4. QED
    BY <2>1, <2>2, <2>3
<1>13. ASSUME NEW f \in {left, seen, user, did, turn, life}
       PROVE  /\ Told(f) \in Seq(Messages)
              /\ \A m \in In(Told(f)) : \E w \in DOMAIN f : m = f[w]
              /\ \A w \in DOMAIN f : f[w] \in In(Told(f))
  <2>1. \A w \in DOMAIN f : f[w] \in Messages
    BY <1>6, <1>7, <1>8, <1>9, <1>10, <1>11
  <2>2. QED
    BY <1>12, <2>1, ToldIn
<1> DEFINE q == Told(left) \o Told(seen)
           r == q \o Told(user)
           h == r \o Told(did)
           g == h \o Told(turn)
<1>14. /\ Told(left) \in Seq(Messages) /\ Told(seen) \in Seq(Messages)
       /\ Told(user) \in Seq(Messages) /\ Told(did) \in Seq(Messages)
       /\ Told(turn) \in Seq(Messages) /\ Told(life) \in Seq(Messages)
  BY <1>13
<1>15. q \in Seq(Messages) /\ In(q) = In(Told(left)) \cup In(Told(seen))
  BY <1>14, InBoth DEF IsBoth
<1> HIDE DEF q
<1>16. r \in Seq(Messages) /\ In(r) = In(q) \cup In(Told(user))
  BY <1>14, <1>15, InBoth DEF IsBoth
<1> HIDE DEF r
<1>17. h \in Seq(Messages) /\ In(h) = In(r) \cup In(Told(did))
  BY <1>14, <1>16, InBoth DEF IsBoth
<1> HIDE DEF h
<1>18. g \in Seq(Messages) /\ In(g) = In(h) \cup In(Told(turn))
  BY <1>14, <1>17, InBoth DEF IsBoth
<1> HIDE DEF g
<1>19. g \o Told(life) \in Seq(Messages) /\ In(g \o Told(life)) = In(g) \cup In(Told(life))
  BY <1>14, <1>18, InBoth DEF IsBoth
<1>20. all = (h \o Told(turn)) \o Told(life)
  BY DEF g, h, r, q
<1>21. all \in Seq(Messages) /\ In(all) = In(g) \cup In(Told(life))
  BY <1>19, <1>20 DEF g
<1>22. ASSUME NEW i \in DOMAIN all
       PROVE  /\ i <= Len(h) => all[i] \in In(h)
              /\ i > Len(h) => all[i] \in In(Told(turn)) \cup In(Told(life))
  BY <1>14, <1>17, <1>20, Apart
<1> HIDE DEF all
<1>23. /\ Batch(current) \in Seq(Messages) /\ In(Batch(current)) = In(all)
       /\ Sorted(all, Batch(current))
  <2>1. \A m \in Messages : m.at \in Nat
    BY DEF Messages
  <2>2. QED
    BY <1>1, <1>21, <2>1, ByTimeIn
<1>24. In(all) = In(Told(left)) \cup In(Told(seen)) \cup In(Told(user)) \cup In(Told(did))
                 \cup In(Told(turn)) \cup In(Told(life))
  BY <1>15, <1>16, <1>17, <1>18, <1>21
<1>25. /\ \A m \in In(h) : m.kind # "Turn"
       /\ \A m \in In(Told(turn)) \cup In(Told(life)) : m.kind # "Asked"
  BY <1>6, <1>7, <1>8, <1>9, <1>10, <1>11, <1>13, <1>15, <1>16, <1>17
<1>26. \A a, b \in DOMAIN all : all[a].kind = "Turn" /\ all[b].kind = "Asked" => b < a
  <2>1. ASSUME NEW a \in DOMAIN all, NEW b \in DOMAIN all, all[a].kind = "Turn", all[b].kind = "Asked"
        PROVE  b < a
    <3>1. a \in Nat /\ b \in Nat /\ Len(h) \in Nat
      BY <1>17, <1>21
    <3>2. ~(a <= Len(h)) /\ ~(b > Len(h))
      BY <1>22, <1>25, <2>1
    <3>3. QED
      BY <3>1, <3>2
  <2>2. QED
    BY <2>1
<1>27. Arranged(Batch(current))
  <2>1. ASSUME NEW i \in DOMAIN Batch(current), NEW k \in DOMAIN Batch(current), i < k
        PROVE  /\ Batch(current)[i].at <= Batch(current)[k].at
               /\ Batch(current)[i].kind = "Turn" /\ Batch(current)[k].kind = "Asked"
                    => Batch(current)[i].at < Batch(current)[k].at
    <3>1. PICK a \in DOMAIN all, b \in DOMAIN all :
            /\ Batch(current)[i] = all[a] /\ Batch(current)[k] = all[b]
            /\ all[a].at < all[b].at \/ (all[a].at = all[b].at /\ a < b)
      BY <1>23, <2>1 DEF Sorted
    <3>2. a \in Nat /\ b \in Nat /\ all[a] \in Messages /\ all[b] \in Messages
      BY <1>21
    <3>3. all[a].at \in Nat /\ all[b].at \in Nat
      BY <3>2 DEF Messages
    <3>4. all[a].at <= all[b].at
      BY <3>1, <3>3
    <3>5. all[a].kind = "Turn" /\ all[b].kind = "Asked" => all[a].at < all[b].at
      <4>1. SUFFICES ASSUME all[a].kind = "Turn", all[b].kind = "Asked" PROVE ~(a < b)
        BY <3>1
      <4>2. b < a
        BY <1>26, <4>1
      <4>3. QED
        BY <3>2, <4>2
    <3>6. QED
      BY <3>1, <3>4, <3>5
  <2>2. QED
    BY <2>1 DEF Arranged
<1>28. \A m \in In(all) : Tells(current, m)
  BY <1>6, <1>7, <1>8, <1>9, <1>10, <1>11, <1>13, <1>24
<1>29. \A w \in Departures(current) : \E m \in In(all) : m.worker = w /\ m.kind = "Left"
  BY <1>6, <1>13, <1>24
<1>30. \A w \in Arrivals(current) : \E m \in In(all) : m.worker = w
  BY <1>7, <1>13, <1>24
<1>31. \A w \in Turned(current) : \E m \in In(all) : m.worker = w /\ m.kind = "Turn"
  BY <1>10, <1>13, <1>24
<1>32. \A w \in busy(UserItems) : \E m \in In(all) : m.worker = w /\ m.kind = "Asked"
  BY <1>8, <1>13, <1>24
<1>33. QED
  BY <1>23, <1>27, <1>28, <1>29, <1>30, <1>31, <1>32, <1>u

-----------------------------------------------------------------------------
(* What is on its way to the world: of threads that are listed, or their   *)
(* departure; and of those that never moved, for their project.            *)
Steady == DOMAIN threads \ moved

Says(m) ==
  /\ m.kind = "Left" \/ m.worker \in DOMAIN threads
  /\ m.worker \in Steady => m.kind # "Left" /\ m.office = threads[m.worker].office

(* A thread is at its desk, with its turn, or a message will see to it and *)
(* none after that undoes it; whoever is there without being listed is     *)
(* about to leave.                                                         *)
AtHome(w) == w \in DOMAIN desks /\ desks[w] = threads[w].office

AtWork(w) == turnStates[w].open \/ w \in asked

TurnShown(w) == \A p \in Present : p.id = w => (p.turn <=> AtWork(w))

Bears(w, m) == m.worker = w /\ m.kind \in {"Asked", "Turn", "Life"}

Confirms(w, m) == Bears(w, m) => (m.open <=> AtWork(w))

(* The message sets the turn, and it stays so.                             *)
Settles(w, i) ==
  /\ queue[i].worker = w /\ queue[i].kind \in {"Asked", "Turn"}
  /\ \A k \in DOMAIN queue : k >= i => Confirms(w, queue[k])

Followed(w) == AtHome(w) \/ \E m \in In(queue) : m.worker = w

Resting(w) == AtHome(w) /\ TurnShown(w) /\ \A m \in In(queue) : Confirms(w, m)

TurnFollowed(w) ==
  w \in DOMAIN turnStates => Resting(w) \/ \E i \in DOMAIN queue : Settles(w, i)

Dismissed(w) ==
  w \in DOMAIN desks =>
    \/ w \in DOMAIN threads \cup unsure
    \/ \E m \in In(queue) : m.worker = w /\ m.kind = "Left"

PollTyped ==
  /\ Listing(threads) /\ DOMAIN turnStates \in SUBSET DOMAIN threads
  /\ began \in Nat
  /\ roster # None => Listing(roster) /\ queue = <<>>
  /\ turnRows # None => TurnsOf(turnRows)
  /\ queue \in Seq(Messages) /\ \A m \in In(queue) : Says(m)
  /\ prints \in SUBSET delivered

CodexInv ==
  /\ RosterInv /\ StoresTyped /\ PollTyped
  /\ \A w \in Steady : Followed(w) /\ TurnFollowed(w)
  /\ \A w \in Threads : Dismissed(w)

LEMMA EmptyQueue == In(<<>>) = {} /\ DOMAIN <<>> = {} /\ \A T : <<>> \in Seq(T)
<1>1. \A T : <<>> \in Seq(T)
  OBVIOUS
<1>2. DOMAIN <<>> = {}
  OBVIOUS
<1>3. QED
  BY <1>1, <1>2 DEF In

(* The invariant says what is promised.                                    *)
LEMMA CodexMeans == CodexInv => StoreFollowed
<1> SUFFICES ASSUME CodexInv, queue = <<>> PROVE
       /\ \A w \in DOMAIN threads \ moved :
            /\ w \in DOMAIN desks /\ desks[w] = threads[w].office
            /\ \A p \in Present : p.id = w /\ w \in DOMAIN turnStates =>
                 (p.turn <=> turnStates[w].open \/ w \in asked)
       /\ DOMAIN desks \cap Threads \subseteq DOMAIN threads \cup unsure
       /\ prints \subseteq delivered
  BY DEF StoreFollowed, Settled
<1>1. In(queue) = {} /\ DOMAIN queue = {}
  BY EmptyQueue
<1>2. ASSUME NEW w \in DOMAIN threads \ moved
      PROVE  /\ w \in DOMAIN desks /\ desks[w] = threads[w].office
             /\ \A p \in Present : p.id = w /\ w \in DOMAIN turnStates =>
                  (p.turn <=> turnStates[w].open \/ w \in asked)
  <2>1. Followed(w) /\ TurnFollowed(w)
    BY <1>2 DEF CodexInv, Steady
  <2>2. AtHome(w) /\ (w \in DOMAIN turnStates => TurnShown(w))
    BY <1>1, <2>1 DEF Followed, TurnFollowed, Resting
  <2>3. QED
    BY <2>2 DEF AtHome, TurnShown, AtWork
<1>3. DOMAIN desks \cap Threads \subseteq DOMAIN threads \cup unsure
  BY <1>1 DEF CodexInv, Dismissed
<1>4. prints \subseteq delivered
  BY DEF CodexInv, PollTyped
<1>5. QED
  BY <1>2, <1>3, <1>4

(* Nothing is known, and nobody is there.                                  *)
LEMMA CodexStarts == CodexInit => CodexInv
<1> SUFFICES ASSUME CodexInit PROVE CodexInv
  OBVIOUS
<1>1. DOMAIN Empty = {} /\ IsFiniteSet({})
  BY FS_EmptySet DEF Empty
<1>2. RosterInv /\ DOMAIN desks = {}
  BY PeopleInit DEF CodexInit, PeopleInv, WorldInit
<1>3. Listing(Empty)
  BY <1>1 DEF Listing
<1>4. StoresTyped
  BY <1>1, <1>3 DEF CodexInit, StoresTyped, TurnsOf
<1>5. PollTyped
  BY <1>1, <1>3, EmptyQueue DEF CodexInit, PollTyped
<1>6. Steady = {}
  BY <1>1 DEF CodexInit, Steady
<1>7. \A w \in Threads : Dismissed(w)
  BY <1>2 DEF Dismissed
<1>8. QED
  BY <1>2, <1>4, <1>5, <1>6, <1>7 DEF CodexInv

(* What nobody touches stays.                                              *)
LEMMA WorldRests ==
  ASSUME UNCHANGED worldVars
  PROVE  (RosterInv => RosterInv') /\ Present' = Present /\ desks' = desks
BY DEF worldVars, rosterVars, RosterInv, Present

LEMMA PromisesRest ==
  ASSUME Present' = Present, desks' = desks, UNCHANGED <<threads, turnStates, queue, moved, unsure, asked>>,
         \A w \in Steady : Followed(w) /\ TurnFollowed(w), \A w \in Threads : Dismissed(w)
  PROVE  /\ \A w \in Steady' : Followed(w)' /\ TurnFollowed(w)'
         /\ \A w \in Threads : Dismissed(w)'
<1>1. Steady' = Steady
  BY DEF Steady
<1>2. ASSUME NEW w PROVE (AtHome(w)' <=> AtHome(w)) /\ (TurnShown(w)' <=> TurnShown(w))
  BY DEF AtHome, TurnShown, AtWork
<1>3. ASSUME NEW w, NEW m PROVE Confirms(w, m)' <=> Confirms(w, m)
  BY DEF Confirms, AtWork
<1>4. ASSUME NEW w, TurnFollowed(w) PROVE TurnFollowed(w)'
  <2>1. \A m \in In(queue) : Confirms(w, m)' <=> Confirms(w, m)
    BY <1>3
  <2>2. Resting(w) => Resting(w)'
    BY <1>2, <2>1 DEF Resting
  <2>3. \A i \in DOMAIN queue : Settles(w, i) => Settles(w, i)'
    BY <2>1 DEF Settles, In
  <2>4. QED
    BY <1>4, <2>2, <2>3 DEF TurnFollowed
<1>5. QED
  BY <1>1, <1>2, <1>4 DEF Followed, Dismissed

(* Codex writes to its stores.                                             *)
LEMMA StoreStep ==
  ASSUME CodexInv, Store
  PROVE  CodexInv'
<1>1. RosterInv' /\ Present' = Present /\ desks' = desks
  BY WorldRests DEF Store, CodexInv
<1>2. /\ threads' = threads /\ turnStates' = turnStates /\ roster' = roster /\ queue' = queue
      /\ prints' = prints /\ delivered' = delivered /\ moved' = moved /\ unsure' = unsure
      /\ began' = began /\ turnRows' = turnRows /\ asked' = asked
  BY DEF Store, sourceVars, heldVars
<1>3. now \in Nat /\ now' = now + 1 /\ now' \in Nat
  BY DEF Store, CodexInv, StoresTyped
<1>4. Listing(rows)'
  <2>1. Listing(rows)
    BY DEF CodexInv, StoresTyped
  <2>2. ASSUME NEW w \in Threads, NEW o \in Projects,
               rows' = [x \in DOMAIN rows \cup {w} |->
                          IF x = w THEN [office |-> o, updated |-> now] ELSE rows[x]]
        PROVE  Listing(rows)'
    <3>1. DOMAIN rows' = DOMAIN rows \cup {w}
      BY <2>2
    <3>2. IsFiniteSet(DOMAIN rows')
      BY <2>1, <3>1, FS_AddElement DEF Listing
    <3>3. \A x \in DOMAIN rows' : rows'[x] = IF x = w THEN [office |-> o, updated |-> now] ELSE rows[x]
      BY <2>2
    <3>4. QED
      BY <1>3, <2>1, <3>1, <3>2, <3>3 DEF Listing
  <2>3. ASSUME NEW w \in DOMAIN rows, rows' = Dropped(rows, DOMAIN rows \ {w})
        PROVE  Listing(rows)'
    <3>1. DOMAIN rows' \in SUBSET DOMAIN rows /\ \A x \in DOMAIN rows' : rows'[x] = rows[x]
      BY <2>3 DEF Dropped
    <3>2. IsFiniteSet(DOMAIN rows')
      BY <2>1, <3>1, FS_Subset DEF Listing
    <3>3. QED
      BY <2>1, <3>1, <3>2 DEF Listing
  <2>4. CASE rows' = rows
    BY <2>1, <2>4 DEF Listing
  <2>5. QED
    BY <2>2, <2>3, <2>4 DEF Store
<1>5. \A x \in items' : x.at \in Nat /\ x.at <= now'
  <2>1. \A x \in items : x.at \in Nat /\ x.at <= now
    BY DEF CodexInv, StoresTyped
  <2>2. ASSUME NEW w \in DOMAIN rows, NEW i \in Items, NEW p \in Payloads,
               LET old == {x \in items : x.thread = w /\ x.id = i}
                   at == IF old = {} THEN now ELSE (CHOOSE x \in old : TRUE).at
               IN items' = (items \ old) \cup {[thread |-> w, id |-> i, at |-> at, payload |-> p]}
        PROVE  \A x \in items' : x.at \in Nat /\ x.at <= now'
    <3> DEFINE old == {x \in items : x.thread = w /\ x.id = i}
               at == IF old = {} THEN now ELSE (CHOOSE x \in old : TRUE).at
    <3>1. old \in SUBSET items
      OBVIOUS
    <3>2. items' = (items \ old) \cup {[thread |-> w, id |-> i, at |-> at, payload |-> p]}
      BY <2>2
    <3> HIDE DEF old
    <3>3. at \in Nat /\ at <= now
      BY <1>3, <2>1, <3>1
    <3> HIDE DEF at
    <3>4. QED
      BY <1>3, <2>1, <3>2, <3>3
  <2>3. CASE items' = items
    BY <1>3, <2>1, <2>3
  <2>4. QED
    BY <2>2, <2>3 DEF Store
<1>6. TurnsOf(latest')
  <2>1. TurnsOf(latest)
    BY DEF CodexInv, StoresTyped
  <2>2. ASSUME NEW w \in DOMAIN rows, NEW t \in Turns, NEW open \in BOOLEAN, NEW at \in 1..now,
               latest' = [x \in DOMAIN latest \cup {w} |->
                            IF x = w THEN [id |-> t, open |-> open, at |-> at] ELSE latest[x]]
        PROVE  TurnsOf(latest')
    <3>1. at \in Nat
      BY <1>3
    <3>2. QED
      BY <2>1, <2>2, <3>1 DEF TurnsOf
  <2>3. CASE latest' = latest
    BY <2>1, <2>3
  <2>4. QED
    BY <2>2, <2>3 DEF Store
<1>7. StoresTyped'
  BY <1>3, <1>4, <1>5, <1>6 DEF StoresTyped, TurnsOf
<1>8. PollTyped'
  BY <1>2 DEF CodexInv, PollTyped, Listing, Says, Steady, TurnsOf
<1>9. /\ \A w \in Steady' : Followed(w)' /\ TurnFollowed(w)'
      /\ \A w \in Threads : Dismissed(w)'
  <2>1. /\ \A w \in Steady : Followed(w) /\ TurnFollowed(w)
        /\ \A w \in Threads : Dismissed(w)
    BY DEF CodexInv
  <2>2. QED
    BY <1>1, <1>2, <2>1, PromisesRest
<1>10. QED
  BY <1>1, <1>7, <1>8, <1>9 DEF CodexInv

(* The stores cannot be read: what was known is unsure.                    *)
LEMMA UnavailableStep ==
  ASSUME CodexInv, Unavailable, UNCHANGED <<storeVars, worldVars>>, queue = <<>>
  PROVE  CodexInv'
<1>1. RosterInv' /\ Present' = Present /\ desks' = desks
  BY WorldRests DEF CodexInv
<1>2. StoresTyped'
  BY DEF CodexInv, StoresTyped, storeVars, Listing, TurnsOf
<1>3. DOMAIN Empty = {} /\ IsFiniteSet({})
  BY FS_EmptySet DEF Empty
<1>4. /\ threads' = Empty /\ turnStates' = Empty /\ roster' = None /\ prints' = {}
      /\ queue' = <<>> /\ unsure' = unsure \cup DOMAIN threads
      /\ began' = 0 /\ turnRows' = None
  BY DEF Unavailable, Idle
<1>5. PollTyped'
  BY <1>3, <1>4, EmptyQueue DEF PollTyped, Listing
<1>6. Steady' = {}
  BY <1>3, <1>4 DEF Steady
<1>7. \A w \in Threads : Dismissed(w)'
  BY <1>1, <1>4, EmptyQueue DEF CodexInv, Dismissed
<1>8. QED
  BY <1>1, <1>2, <1>5, <1>6, <1>7 DEF CodexInv

(* A poll begins.                                                          *)
LEMMA ReadRosterStep ==
  ASSUME CodexInv, ReadRoster
  PROVE  CodexInv'
<1>1. CASE /\ began' = now /\ roster' = rows
           /\ UNCHANGED <<heldVars, turnRows, queue, delivered, moved, unsure, asked>>
  <2>0. UNCHANGED <<threads, prints, turnStates, turnRows, queue, delivered, moved, unsure, asked>>
    BY <1>1 DEF heldVars
  <2>1. RosterInv' /\ Present' = Present /\ desks' = desks
    BY WorldRests DEF ReadRoster, CodexInv
  <2>2. StoresTyped'
    BY DEF ReadRoster, CodexInv, StoresTyped, storeVars, Listing, TurnsOf
  <2>3. Listing(rows) /\ now \in Nat /\ queue = <<>>
    BY DEF ReadRoster, CodexInv, StoresTyped
  <2>4. PollTyped'
    BY <1>1, <2>0, <2>3 DEF CodexInv, PollTyped, Listing, Says, Steady, TurnsOf
  <2>5. /\ \A w \in Steady' : Followed(w)' /\ TurnFollowed(w)'
        /\ \A w \in Threads : Dismissed(w)'
    BY <2>0, <2>1, PromisesRest DEF CodexInv
  <2>6. QED
    BY <2>1, <2>2, <2>4, <2>5 DEF CodexInv
<1>2. CASE Unavailable
  BY <1>2, UnavailableStep DEF ReadRoster
<1>3. QED
  BY <1>1, <1>2 DEF ReadRoster

(* The turns are read.                                                     *)
LEMMA ReadTurnsStep ==
  ASSUME CodexInv, ReadTurns
  PROVE  CodexInv'
<1>1. CASE /\ turnRows' = latest
           /\ UNCHANGED <<heldVars, began, roster, queue, delivered, moved, unsure, asked>>
  <2>1. UNCHANGED <<threads, prints, turnStates, began, roster, queue, delivered, moved, unsure, asked>>
    BY <1>1 DEF heldVars
  <2>2. RosterInv' /\ Present' = Present /\ desks' = desks
    BY WorldRests DEF ReadTurns, CodexInv
  <2>3. StoresTyped'
    BY DEF ReadTurns, CodexInv, StoresTyped, storeVars, Listing, TurnsOf
  <2>4. TurnsOf(latest)
    BY DEF CodexInv, StoresTyped
  <2>5. PollTyped'
    BY <1>1, <2>1, <2>4 DEF CodexInv, PollTyped, Listing, Says, Steady, TurnsOf
  <2>6. /\ \A w \in Steady' : Followed(w)' /\ TurnFollowed(w)'
        /\ \A w \in Threads : Dismissed(w)'
    BY <2>1, <2>2, PromisesRest DEF CodexInv
  <2>7. QED
    BY <2>2, <2>3, <2>5, <2>6 DEF CodexInv
<1>2. CASE Unavailable
  <2>1. queue = <<>>
    BY DEF ReadTurns, CodexInv, PollTyped
  <2>2. QED
    BY <1>2, <2>1, UnavailableStep DEF ReadTurns
<1>3. QED
  BY <1>1, <1>2 DEF ReadTurns

(* A poll is finished: for whatever the world does not show yet there is a *)
(* message in the batch.                                                   *)
LEMMA ReadItemsStep ==
  ASSUME CodexInv, ReadItems
  PROVE  CodexInv'
<1>1. roster # None /\ turnRows # None /\ UNCHANGED <<storeVars, worldVars>>
  BY DEF ReadItems
<1>2. /\ Listing(roster) /\ queue = <<>> /\ In(queue) = {} /\ DOMAIN queue = {}
      /\ TurnsOf(turnRows) /\ began \in Nat
  BY <1>1, EmptyQueue DEF CodexInv, PollTyped
<1>3. CASE Unavailable
  BY <1>1, <1>2, <1>3, UnavailableStep
<1>4. CASE ~Unavailable
  <2> DEFINE current == roster
             read == Read(current)
             batch == Batch(current)
  <2>1. /\ threads' = current /\ queue' = queue \o batch /\ roster' = None
        /\ turnRows' = None /\ began' = 0
        /\ prints' = Capped({f \in prints :
                              /\ f.thread \in DOMAIN current
                              /\ \A x \in read : <<x.thread, x.id>> # <<f.thread, f.id>>}
                            \cup read)
        /\ delivered' = delivered \cup {x \in read : Fresh(x)}
        /\ turnStates' = [w \in DOMAIN current \cap (DOMAIN turnStates \cup DOMAIN turnRows) |->
             IF w \in DOMAIN turnRows THEN [id |-> turnRows[w].id, open |-> turnRows[w].open]
             ELSE turnStates[w]]
        /\ asked' = Reopened(current) \cup ((asked \cap DOMAIN current) \ Turned(current))
        /\ moved' = (moved \cup (DOMAIN threads \cap Arrivals(current))) \cap DOMAIN current
        /\ unsure' = unsure \ DOMAIN current
    BY <1>4 DEF ReadItems, Idle
  <2>2. RosterInv' /\ Present' = Present /\ desks' = desks
    BY <1>1, WorldRests DEF CodexInv
  <2>3. StoresTyped'
    BY <1>1 DEF CodexInv, StoresTyped, storeVars, Listing, TurnsOf
  <2>4. StoresTyped /\ Listing(threads) /\ DOMAIN turnStates \in SUBSET DOMAIN threads
        /\ prints \in SUBSET delivered
    BY DEF CodexInv, PollTyped
  <2> HIDE DEF batch, read, current
  <2>5. /\ batch \in Seq(Messages) /\ Arranged(batch)
        /\ \A m \in In(batch) : Tells(current, m)
        /\ \A w \in Departures(current) : \E m \in In(batch) : m.worker = w /\ m.kind = "Left"
        /\ \A w \in Arrivals(current) : \E m \in In(batch) : m.worker = w
        /\ \A w \in Turned(current) : \E m \in In(batch) : m.worker = w /\ m.kind = "Turn"
        /\ \A w \in DOMAIN current : Created(current, w, UserItems) # {} =>
             \E m \in In(batch) : m.worker = w /\ m.kind = "Asked"
    BY <1>2, <2>4, BatchTells DEF batch, current
  <2>6. queue' = batch
    BY <1>2, <2>1, <2>5
  <2>7. /\ DOMAIN turnStates' = DOMAIN current \cap (DOMAIN turnStates \cup DOMAIN turnRows)
        /\ \A w \in DOMAIN turnStates' :
             turnStates'[w].open = IF w \in DOMAIN turnRows THEN turnRows[w].open ELSE turnStates[w].open
    BY <2>1
  <2>8. ASSUME NEW w \in Steady'
        PROVE  /\ w \in DOMAIN current /\ w \notin Departures(current)
               /\ w \notin Arrivals(current) =>
                    w \in Steady /\ current[w].office = threads[w].office
    <3>1. w \in DOMAIN current /\ w \notin moved /\ ~(w \in DOMAIN threads /\ w \in Arrivals(current))
      BY <2>1, <2>8 DEF Steady
    <3>2. w \in DOMAIN threads => threads[w].office = current[w].office
      BY <3>1 DEF Arrivals
    <3>3. w \notin Departures(current)
      BY <3>1, <3>2 DEF Departures
    <3>4. w \notin Arrivals(current) => w \in DOMAIN threads
      BY <3>1 DEF Arrivals
    <3>5. QED
      BY <3>1, <3>2, <3>3, <3>4 DEF Steady
  <2>9. ASSUME NEW m \in In(batch) PROVE Says(m)'
    <3>1. Tells(current, m)
      BY <2>5
    <3>2. CASE m.kind = "Left" /\ m.worker \in Departures(current)
      BY <2>8, <3>2 DEF Says
    <3>3. CASE /\ m.kind # "Left" /\ m.worker \in DOMAIN current
               /\ m.office = current[m.worker].office
      BY <2>1, <3>3 DEF Says
    <3>4. QED
      BY <3>1, <3>2, <3>3 DEF Tells
  <2>10. prints' \in SUBSET delivered'
    <3>1. prints' \in SUBSET (prints \cup read)
      BY <2>1 DEF Capped
    <3>2. \A x \in read : x \in prints \/ Fresh(x)
      BY DEF Fresh
    <3>3. QED
      BY <2>1, <2>4, <3>1, <3>2
  <2>11. PollTyped'
    <3>1. Listing(threads)'
      BY <1>2, <2>1 DEF Listing, current
    <3>2. QED
      BY <2>1, <2>5, <2>6, <2>7, <2>9, <2>10, <3>1 DEF PollTyped
  <2>12. ASSUME NEW w \in Steady' PROVE Followed(w)' /\ TurnFollowed(w)'
    <3>1. w \notin Arrivals(current) =>
            w \in Steady /\ current[w].office = threads[w].office
      BY <2>8
    <3>2. Followed(w)'
      <4>1. CASE w \in Arrivals(current)
        BY <2>5, <2>6, <4>1 DEF Followed
      <4>2. CASE w \notin Arrivals(current)
        <5>1. AtHome(w)
          BY <1>2, <3>1, <4>2 DEF CodexInv, Followed
        <5>2. AtHome(w)'
          BY <2>1, <2>2, <3>1, <4>2, <5>1 DEF AtHome
        <5>3. QED
          BY <5>2 DEF Followed
      <4>3. QED
        BY <4>1, <4>2
    <3>3. TurnFollowed(w)'
      <4> DEFINE fresh == Created(current, w, UserItems)
      <4>1. SUFFICES ASSUME w \in DOMAIN turnStates'
                     PROVE  Resting(w)' \/ \E i \in DOMAIN queue' : Settles(w, i)'
        BY DEF TurnFollowed
      <4>2. w \in DOMAIN current
        BY <2>8
      <4>3. w \in Reopened(current) <=> \E t \in fresh : w \in Turned(current) => t > turnRows[w].at
        BY <4>2 DEF Reopened
      <4>4. AtWork(w)' <=> \/ turnStates'[w].open \/ w \in Reopened(current)
                           \/ w \in asked /\ w \notin Turned(current)
        BY <2>1, <4>2 DEF AtWork
      <4>5. ASSUME NEW k \in DOMAIN batch, batch[k].worker = w
            PROVE  /\ batch[k] \in Messages
                   /\ batch[k].kind \in {"Turn", "Life"} =>
                        /\ w \in Turned(current) /\ batch[k].at = turnRows[w].at
                        /\ batch[k].open = turnRows[w].open
                   /\ batch[k].kind = "Asked" =>
                        batch[k].open = TRUE /\ batch[k].at \in fresh /\ \A u \in fresh : u <= batch[k].at
        <5>1. batch[k] \in Messages /\ batch[k] \in In(batch)
          BY <2>5, <4>5 DEF In
        <5>2. Tells(current, batch[k])
          BY <2>5, <5>1
        <5>3. QED
          BY <4>5, <5>1, <5>2 DEF Tells
      <4>6. \A t \in fresh : t \in Nat
        BY <2>4, CreatedNat
      <4>7. w \in Turned(current) => turnRows[w].at \in Nat /\ turnStates'[w].open = turnRows[w].open
        BY <1>2, <2>7, <4>1 DEF Turned, TurnsOf
      <4>8. \A i, k \in DOMAIN batch : i \in Nat /\ k \in Nat
        BY <2>5
      <4> HIDE DEF fresh
      <4>9. CASE w \in Reopened(current)
        <5>1. AtWork(w)'
          BY <4>4, <4>9
        <5>2. PICK t \in fresh : w \in Turned(current) => t > turnRows[w].at
          BY <4>3, <4>9
        <5>3. PICK i \in DOMAIN batch : batch[i].worker = w /\ batch[i].kind = "Asked"
          BY <2>5, <4>2, <5>2 DEF In, fresh
        <5>4. ASSUME NEW k \in DOMAIN batch, k >= i, batch[k].worker = w,
                     batch[k].kind \in {"Asked", "Turn", "Life"}
              PROVE  batch[k].kind = "Asked" /\ batch[k].open = TRUE
          <6>1. CASE batch[k].kind \in {"Turn", "Life"}
            <7>1. w \in Turned(current) /\ batch[k].at = turnRows[w].at /\ turnRows[w].at \in Nat
              BY <4>5, <4>7, <5>4, <6>1
            <7>2. t <= batch[i].at /\ batch[i].at \in Nat /\ t \in Nat
              BY <4>5, <4>6, <5>3
            <7>3. k # i
              BY <5>3, <6>1
            <7>4. batch[i].at <= batch[k].at
              BY <2>5, <4>8, <5>4, <7>3 DEF Arranged
            <7>5. QED
              BY <5>2, <7>1, <7>2, <7>4
          <6>2. QED
            BY <4>5, <5>4, <6>1
        <5>5. \A k \in DOMAIN batch : k >= i /\ Bears(w, batch[k]) => (batch[k].open <=> AtWork(w)')
          BY <5>1, <5>4 DEF Bears
        <5>6. Settles(w, i)'
          BY <2>6, <5>3, <5>5 DEF Settles, Confirms
        <5>7. QED
          BY <2>6, <5>6
      <4>10. CASE w \notin Reopened(current) /\ w \in Turned(current)
        <5>1. AtWork(w)' <=> turnRows[w].open
          BY <4>4, <4>7, <4>10
        <5>2. \A t \in fresh : ~(t > turnRows[w].at)
          BY <4>3, <4>10
        <5>3. PICK i \in DOMAIN batch : batch[i].worker = w /\ batch[i].kind = "Turn"
          BY <2>5, <4>10 DEF In
        <5>4. ASSUME NEW k \in DOMAIN batch, k >= i, batch[k].worker = w,
                     batch[k].kind \in {"Asked", "Turn", "Life"}
              PROVE  batch[k].open = turnRows[w].open
          <6>1. CASE batch[k].kind = "Asked"
            <7>1. batch[k].at \in fresh /\ batch[i].at = turnRows[w].at
              BY <4>5, <5>3, <5>4, <6>1
            <7>2. k # i
              BY <5>3, <6>1
            <7>3. batch[i].at < batch[k].at
              BY <2>5, <4>8, <5>3, <5>4, <6>1, <7>2 DEF Arranged
            <7>4. batch[k].at \in Nat /\ turnRows[w].at \in Nat
              BY <4>6, <4>7, <4>10, <7>1
            <7>5. QED
              BY <5>2, <7>1, <7>3, <7>4
          <6>2. QED
            BY <4>5, <5>4, <6>1
        <5>5. \A k \in DOMAIN batch : k >= i /\ Bears(w, batch[k]) => (batch[k].open <=> AtWork(w)')
          BY <5>1, <5>4 DEF Bears
        <5>6. Settles(w, i)'
          BY <2>6, <5>3, <5>5 DEF Settles, Confirms
        <5>7. QED
          BY <2>6, <5>6
      <4>11. CASE w \notin Reopened(current) /\ w \notin Turned(current)
        <5>1. fresh = {}
          BY <4>3, <4>11
        <5>2. w \in DOMAIN turnStates /\ turnStates'[w].open = turnStates[w].open
          BY <2>7, <4>1, <4>11 DEF Turned
        <5>3. AtWork(w)' <=> AtWork(w)
          BY <4>4, <4>11, <5>2 DEF AtWork
        <5>4. w \in DOMAIN threads
          BY <2>4, <5>2
        <5>5. w \notin Arrivals(current)
          BY <2>1, <2>12, <5>4 DEF Steady
        <5>6. Resting(w)
          BY <1>2, <3>1, <5>2, <5>5 DEF CodexInv, TurnFollowed
        <5>7. AtHome(w)'
          BY <2>1, <2>2, <3>1, <5>5, <5>6 DEF AtHome, Resting
        <5>8. TurnShown(w)'
          BY <2>2, <5>3, <5>6 DEF TurnShown, Resting
        <5>9. \A m \in In(batch) : Confirms(w, m)'
          BY <4>5, <4>11, <5>1 DEF Confirms, Bears, In
        <5>10. QED
          BY <2>6, <5>7, <5>8, <5>9 DEF Resting
      <4>12. QED
        BY <4>9, <4>10, <4>11
    <3>4. QED
      BY <3>2, <3>3
  <2>13. ASSUME NEW w \in Threads PROVE Dismissed(w)'
    <3>1. SUFFICES ASSUME w \in DOMAIN desks, w \notin DOMAIN current, w \notin unsure
                   PROVE  w \in Departures(current)
      BY <2>1, <2>2, <2>5, <2>6 DEF Dismissed
    <3>2. w \in DOMAIN threads
      BY <1>2, <3>1 DEF CodexInv, Dismissed
    <3>3. QED
      BY <3>1, <3>2 DEF Departures
  <2>14. QED
    BY <2>2, <2>3, <2>11, <2>12, <2>13 DEF CodexInv
<1>5. QED
  BY <1>3, <1>4

(* What a message does to the office: it takes one desk, or fills it.      *)
Leaves(m) ==
  /\ m.kind = "Left" /\ RosterInv' /\ Present' \in SUBSET Present
  /\ DOMAIN desks' = DOMAIN desks \ {m.worker}
  /\ \A w \in DOMAIN desks' : desks'[w] = desks[w]

Comes(m) ==
  /\ m.kind # "Left" /\ RosterInv' /\ OthersStay(m.worker)
  /\ DOMAIN desks' = DOMAIN desks \cup {m.worker}
  /\ \A w \in DOMAIN desks' : desks'[w] = IF w = m.worker THEN m.office ELSE desks[w]
  /\ m.kind \in {"Seen", "Did"} => TurnKept(m.worker, m.office)
  /\ m.kind \in {"Asked", "Turn"} => \A p \in Present' : p.id = m.worker => p.turn = m.open
  /\ m.kind = "Life" =>
       \/ m.open = TRUE /\ TurnKept(m.worker, m.office)
       \/ m.open = FALSE /\ \A p \in Present' : p.id = m.worker => p.turn = FALSE

Applied(m) ==
  \/ m.kind = "Left" /\ Left(m.worker)
  \/ m.kind = "Seen" /\ Seen(m.worker, m.office, m.at)
  \/ m.kind = "Did" /\ Acted(m.worker, m.office, m.at, "Busy")
  \/ m.kind \in {"Asked", "Turn"} /\ Turn(m.worker, m.office, m.at, m.open)
  \/ /\ m.kind = "Life"
     /\ Lifecycle(m.worker, m.office, m.at, IF m.open THEN "Active" ELSE "Completed")

LEMMA MessageApplied ==
  ASSUME RosterInv, NEW m \in Messages, Applied(m)
  PROVE  Leaves(m) \/ Comes(m)
<1>1. m.worker \in Workers /\ m.office \in Offices /\ m.at \in Nat /\ m.open \in BOOLEAN
  BY CodexAssumption DEF Messages
<1>2. CASE m.kind = "Left" /\ Left(m.worker)
  <2>1. RosterInv'
    BY <1>1, <1>2, LeftStep DEF RosterStep
  <2>2. desks' = Unseated({m.worker})
    BY <1>2 DEF Left, Retire
  <2>3. Present' \in SUBSET Present
    <3> DEFINE rooms == [o \in DOMAIN offices |-> Without(offices[o], {m.worker} \cap DOMAIN desks)]
    <3>1. offices' = Open(rooms)
      BY <1>2 DEF Left
    <3>2. DOMAIN rooms = DOMAIN offices /\ \A o \in DOMAIN rooms : rooms[o] \in SUBSET offices[o]
      BY DEF Without
    <3> HIDE DEF rooms
    <3>3. DOMAIN offices' \in SUBSET DOMAIN offices
          /\ \A o \in DOMAIN offices' : offices'[o] \in SUBSET offices[o]
      BY <3>1, <3>2 DEF Open
    <3>4. QED
      BY <3>3 DEF Present
  <2>4. QED
    BY <1>2, <2>1, <2>2, <2>3 DEF Leaves, Unseated
<1>3. ASSUME NEW id, NEW office, desks' = [w \in DOMAIN desks \cup {id} |-> IF w = id THEN office ELSE desks[w]]
      PROVE  /\ DOMAIN desks' = DOMAIN desks \cup {id}
             /\ \A w \in DOMAIN desks' : desks'[w] = IF w = id THEN office ELSE desks[w]
  BY <1>3
<1>4. CASE m.kind = "Seen" /\ Seen(m.worker, m.office, m.at)
  <2>1. Note(m.worker, m.office, m.at, Same)
    BY <1>4 DEF Seen
  <2>2. RosterInv' /\ OthersStay(m.worker) /\ TurnKept(m.worker, m.office)
    BY <1>1, <2>1, SeenStep DEF RosterStep
  <2>3. QED
    BY <1>3, <1>4, <2>1, <2>2 DEF Comes, Note
<1>5. CASE m.kind = "Did" /\ Acted(m.worker, m.office, m.at, "Busy")
  <2>1. RosterInv' /\ OthersStay(m.worker) /\ TurnKept(m.worker, m.office)
    BY <1>1, <1>5, ActedStep DEF RosterStep, Activities
  <2>2. QED
    BY <1>3, <1>5, <2>1 DEF Comes, Acted, Note
<1>6. CASE m.kind \in {"Asked", "Turn"} /\ Turn(m.worker, m.office, m.at, m.open)
  <2>1. RosterInv' /\ OthersStay(m.worker) /\ \A p \in Present' : p.id = m.worker => p.turn = m.open
    BY <1>1, <1>6, TurnStep DEF RosterStep
  <2>2. QED
    BY <1>3, <1>6, <2>1 DEF Comes, Turn, Note
<1>7. CASE /\ m.kind = "Life"
           /\ Lifecycle(m.worker, m.office, m.at, IF m.open THEN "Active" ELSE "Completed")
  <2> DEFINE life == IF m.open THEN "Active" ELSE "Completed"
  <2>1. life \in Lifecycles \ {"Removed"}
    BY DEF Lifecycles, Ended
  <2>2. (m.open = TRUE /\ life \notin Ended) \/ (m.open = FALSE /\ life \in Ended)
    BY <1>1 DEF Ended
  <2>3. Lifecycle(m.worker, m.office, m.at, life)
    BY <1>7
  <2> HIDE DEF life
  <2>4. /\ RosterStep /\ OthersStay(m.worker)
        /\ life \in Ended => \A p \in Present' : p.id = m.worker => p.turn = FALSE
        /\ life \notin Ended => TurnKept(m.worker, m.office)
    BY <1>1, <2>1, <2>3, LifecycleStep
  <2>5. desks' = [w \in DOMAIN desks \cup {m.worker} |-> IF w = m.worker THEN m.office ELSE desks[w]]
    BY <2>3 DEF Lifecycle, Note
  <2>6. QED
    BY <1>3, <1>7, <2>2, <2>4, <2>5 DEF Comes, RosterStep
<1>8. QED
  BY <1>2, <1>4, <1>5, <1>6, <1>7 DEF Applied

(* A message is applied: what it was to see to is done, and what others are*)
(* to see to is left as it was.                                            *)
LEMMA ApplyStep ==
  ASSUME CodexInv, Apply
  PROVE  CodexInv'
<1> DEFINE m == Head(queue)
<1>1. queue # <<>> /\ queue' = Tail(queue) /\ UNCHANGED <<storeVars, sourceVars>>
  BY DEF Apply
<1>2. /\ m \in Messages /\ queue' \in Seq(Messages) /\ In(queue) = In(queue') \cup {m}
  BY <1>1, InTail DEF CodexInv, PollTyped
<1>i. /\ 1 \in DOMAIN queue /\ queue[1] = m
      /\ \A i \in DOMAIN queue' : i \in Nat /\ i + 1 >= 1 /\ i + 1 \in DOMAIN queue /\ queue'[i] = queue[i + 1]
      /\ \A i \in DOMAIN queue : i \in Nat /\ (i # 1 => i - 1 \in DOMAIN queue' /\ queue'[i - 1] = queue[i])
  <2>1. /\ queue \in Seq(Messages) /\ queue' \in Seq(Messages) /\ Len(queue') = Len(queue) - 1 /\ Len(queue) >= 1
        /\ \A i \in DOMAIN queue' : i + 1 \in DOMAIN queue /\ queue'[i] = queue[i + 1]
        /\ 1 \in DOMAIN queue /\ queue[1] = m
    BY <1>1, InTail DEF CodexInv, PollTyped
  <2>2. /\ DOMAIN queue = 1..Len(queue) /\ DOMAIN queue' = 1..Len(queue')
        /\ Len(queue) \in Nat /\ Len(queue') \in Nat
    BY <2>1
  <2>3. ASSUME NEW i \in DOMAIN queue, i # 1 PROVE i - 1 \in DOMAIN queue' /\ (i - 1) + 1 = i
    BY <2>1, <2>2, <2>3
  <2>4. \A i \in DOMAIN queue : i \in Nat
    BY <2>2
  <2>5. \A i \in DOMAIN queue' : i \in Nat /\ i + 1 >= 1
    BY <2>2
  <2>6. QED
    BY <2>1, <2>3, <2>4, <2>5
<1>3. /\ threads' = threads /\ turnStates' = turnStates /\ roster' = roster
      /\ prints' = prints /\ delivered' = delivered /\ moved' = moved /\ unsure' = unsure
      /\ began' = began /\ turnRows' = turnRows /\ asked' = asked
  BY <1>1 DEF sourceVars, heldVars
<1>4. Leaves(m) \/ Comes(m)
  <2>1. Applied(m)
    BY DEF Apply, Applied
  <2> HIDE DEF m
  <2>2. QED
    BY <1>2, <2>1, MessageApplied DEF CodexInv
<1>5. Says(m)
  BY <1>2 DEF CodexInv, PollTyped
<1> HIDE DEF m
<1>6. RosterInv'
  BY <1>4 DEF Leaves, Comes
<1>7. StoresTyped'
  BY <1>1 DEF CodexInv, StoresTyped, storeVars, Listing, TurnsOf
<1>8. PollTyped'
  <2>1. roster = None
    BY <1>1 DEF CodexInv, PollTyped
  <2>2. Listing(threads)'
    BY <1>3 DEF CodexInv, PollTyped, Listing
  <2>3. \A n \in In(queue') : Says(n)'
    BY <1>2, <1>3 DEF CodexInv, PollTyped, Says, Steady
  <2>4. QED
    BY <1>2, <1>3, <2>1, <2>2, <2>3 DEF CodexInv, PollTyped, TurnsOf
<1>9. ASSUME NEW w \in Steady' PROVE Followed(w)' /\ TurnFollowed(w)'
  <2>1. w \in Steady /\ Followed(w) /\ TurnFollowed(w)
    BY <1>3, <1>9 DEF CodexInv, Steady
  <2>2. AtWork(w)' <=> AtWork(w)
    BY <1>3 DEF AtWork
  <2>3. \A n : Confirms(w, n) => Confirms(w, n)'
    BY <2>2 DEF Confirms
  <2>4. m.worker = w => m.kind # "Left" /\ m.office = threads[w].office /\ Comes(m)
    BY <1>4, <1>5, <2>1 DEF Says, Leaves
  <2>5. AtHome(w) \/ m.worker = w => AtHome(w)'
    <3>1. CASE m.worker = w
      BY <1>3, <2>4, <3>1 DEF AtHome, Comes
    <3>2. CASE m.worker # w
      BY <1>3, <1>4, <3>2 DEF AtHome, Leaves, Comes
    <3>3. QED
      BY <3>1, <3>2
  <2>6. Followed(w)'
    <3>1. \A n \in In(queue) : n.worker = w => n \in In(queue') \/ m.worker = w
      BY <1>2
    <3>2. QED
      BY <2>1, <2>5, <3>1 DEF Followed
  <2>7. m.worker # w /\ TurnShown(w) => TurnShown(w)'
    <3>1. m.worker # w => \A p \in Present' : p.id = w => p \in Present
      BY <1>4 DEF Leaves, Comes, OthersStay
    <3>2. QED
      BY <2>2, <3>1 DEF TurnShown
  <2>8. m.worker = w /\ AtHome(w) /\ TurnShown(w) /\ Confirms(w, m) => TurnShown(w)'
    <3>1. SUFFICES ASSUME m.worker = w, AtHome(w), TurnShown(w), Confirms(w, m),
                          NEW p \in Present', p.id = w
                   PROVE  p.turn <=> AtWork(w)
      BY <2>2 DEF TurnShown
    <3>2. CASE TurnKept(m.worker, m.office)
      <4>1. PICK q \in Present : q.id = w
        BY <3>1, RosterFacts DEF AtHome, CodexInv
      <4>2. q.office = m.office
        BY <2>4, <3>1, <4>1, RosterFacts DEF AtHome, CodexInv
      <4>3. p.turn = q.turn
        BY <3>1, <3>2, <4>1, <4>2 DEF TurnKept
      <4>4. QED
        BY <3>1, <4>1, <4>3 DEF TurnShown
    <3>3. CASE m.kind \in {"Asked", "Turn"}
      <4>1. p.turn = m.open
        BY <2>4, <3>1, <3>3 DEF Comes
      <4>2. QED
        BY <3>1, <3>3, <4>1 DEF Confirms, Bears
    <3>4. CASE m.kind = "Life" /\ m.open = FALSE /\ p.turn = FALSE
      BY <3>1, <3>4 DEF Confirms, Bears
    <3>5. m.kind \in {"Left", "Seen", "Asked", "Did", "Turn", "Life"}
      BY <1>2 DEF Messages
    <3>6. QED
      BY <2>4, <3>1, <3>2, <3>3, <3>4, <3>5 DEF Comes
  <2>9. TurnFollowed(w)'
    <3>1. SUFFICES ASSUME w \in DOMAIN turnStates
                   PROVE  Resting(w)' \/ \E i \in DOMAIN queue' : Settles(w, i)'
      BY <1>3 DEF TurnFollowed
    <3>2. CASE Resting(w)
      <4>1. Confirms(w, m) /\ \A n \in In(queue') : Confirms(w, n)'
        BY <1>2, <2>3, <3>2 DEF Resting
      <4>2. AtHome(w)' /\ TurnShown(w)'
        BY <2>5, <2>7, <2>8, <3>2, <4>1 DEF Resting
      <4>3. QED
        BY <4>1, <4>2 DEF Resting
    <3>3. ASSUME NEW i \in DOMAIN queue, Settles(w, i), i = 1 PROVE Resting(w)'
      <4>1. m.worker = w /\ m.kind \in {"Asked", "Turn"} /\ Confirms(w, m)
        <5>1. queue[1] = m /\ 1 >= 1
          BY <1>i
        <5>2. QED
          BY <3>3, <5>1 DEF Settles
      <4>2. \A p \in Present' : p.id = w => (p.turn <=> AtWork(w))
        BY <2>4, <4>1 DEF Comes, Confirms, Bears
      <4>3. TurnShown(w)'
        BY <2>2, <4>2 DEF TurnShown
      <4>4. \A n \in In(queue') : Confirms(w, n)'
        <5>1. ASSUME NEW k \in DOMAIN queue'
              PROVE  Bears(w, queue'[k]) => (queue'[k].open <=> AtWork(w)')
          <6>1. k + 1 \in DOMAIN queue /\ queue'[k] = queue[k + 1] /\ k + 1 >= 1
            BY <1>i
          <6>2. Confirms(w, queue[k + 1])
            BY <3>3, <6>1 DEF Settles
          <6>3. QED
            BY <2>2, <6>1, <6>2 DEF Confirms
        <5>2. QED
          BY <5>1 DEF In, Confirms
      <4>5. QED
        BY <2>5, <4>1, <4>3, <4>4 DEF Resting
    <3>4. ASSUME NEW i \in DOMAIN queue, Settles(w, i), i # 1
          PROVE  \E j \in DOMAIN queue' : Settles(w, j)'
      <4>1. i - 1 \in DOMAIN queue' /\ queue'[i - 1] = queue[i]
        BY <1>i, <3>4
      <4>2. ASSUME NEW k \in DOMAIN queue', k >= i - 1
            PROVE  Bears(w, queue'[k]) => (queue'[k].open <=> AtWork(w)')
        <5>1. k + 1 \in DOMAIN queue /\ queue'[k] = queue[k + 1] /\ k + 1 >= i
          <6>1. k \in Nat /\ i \in Nat /\ k + 1 \in DOMAIN queue /\ queue'[k] = queue[k + 1]
            BY <1>i, <3>4
          <6>2. QED
            BY <4>2, <6>1
        <5>2. Confirms(w, queue[k + 1])
          BY <3>4, <5>1 DEF Settles
        <5>3. QED
          BY <2>2, <5>1, <5>2 DEF Confirms
      <4>3. queue'[i - 1].worker = w /\ queue'[i - 1].kind \in {"Asked", "Turn"}
        BY <3>4, <4>1 DEF Settles
      <4>4. Settles(w, i - 1)'
        BY <4>2, <4>3 DEF Settles, Confirms
      <4>5. QED
        BY <4>1, <4>4
    <3>5. QED
      BY <2>1, <3>1, <3>2, <3>3, <3>4 DEF TurnFollowed
  <2>10. QED
    BY <2>6, <2>9
<1>10. ASSUME NEW w \in Threads PROVE Dismissed(w)'
  <2>1. Dismissed(w)
    BY DEF CodexInv
  <2>2. CASE m.worker # w
    <3>1. w \in DOMAIN desks' => w \in DOMAIN desks
      BY <1>4, <2>2 DEF Leaves, Comes
    <3>2. \A n \in In(queue) : n.worker = w => n \in In(queue')
      BY <1>2, <2>2
    <3>3. QED
      BY <1>3, <2>1, <3>1, <3>2 DEF Dismissed
  <2>3. CASE m.worker = w /\ m.kind = "Left"
    BY <1>4, <2>3 DEF Dismissed, Leaves, Comes
  <2>4. CASE m.worker = w /\ m.kind # "Left"
    BY <1>3, <1>5, <2>4 DEF Dismissed, Says
  <2>5. QED
    BY <2>2, <2>3, <2>4
<1>11. QED
  BY <1>6, <1>7, <1>8, <1>9, <1>10 DEF CodexInv

(* The invariant: of the office and of the messages on their way to it.    *)
THEOREM CodexInvariance == CodexSpec => []CodexInv
<1>1. ASSUME CodexInv, [CodexNext]_codexVars PROVE CodexInv'
  <2>1. CASE Store
    BY <1>1, <2>1, StoreStep
  <2>2. CASE ReadRoster
    BY <1>1, <2>2, ReadRosterStep
  <2>3. CASE ReadTurns
    BY <1>1, <2>3, ReadTurnsStep
  <2>4. CASE ReadItems
    BY <1>1, <2>4, ReadItemsStep
  <2>5. CASE Apply
    BY <1>1, <2>5, ApplyStep
  <2>6. CASE UNCHANGED codexVars
    <3>1. RosterInv' /\ Present' = Present /\ desks' = desks
      BY <1>1, <2>6, WorldRests DEF codexVars, CodexInv
    <3>2. StoresTyped'
      BY <1>1, <2>6 DEF codexVars, storeVars, CodexInv, StoresTyped, Listing, TurnsOf
    <3>3. UNCHANGED <<threads, turnStates, prints, began, roster, turnRows, queue, delivered,
                      moved, unsure, asked>>
      BY <2>6 DEF codexVars, sourceVars, heldVars
    <3>4. PollTyped'
      BY <1>1, <3>3 DEF CodexInv, PollTyped, Listing, Says, Steady, TurnsOf
    <3>5. /\ \A w \in Steady' : Followed(w)' /\ TurnFollowed(w)'
          /\ \A w \in Threads : Dismissed(w)'
      BY <1>1, <3>1, <3>3, PromisesRest DEF CodexInv
    <3>6. QED
      BY <3>1, <3>2, <3>4, <3>5 DEF CodexInv
  <2>7. QED
    BY <1>1, <2>1, <2>2, <2>3, <2>4, <2>5, <2>6 DEF CodexNext
<1>2. QED
  BY CodexStarts, <1>1, PTL DEF CodexSpec

(* StoreFollowed (codex_source.rs, poll): for any threads, projects, items,*)
(* turns and limits, and stores that change between any two queries, the   *)
(* office shows what the collector holds once a batch is applied.          *)
THEOREM StoreFollowedCorrect == CodexSpec => []StoreFollowed
<1>1. CodexInv => StoreFollowed
  BY CodexMeans
<1>2. QED
  BY CodexInvariance, <1>1, PTL

=============================================================================
