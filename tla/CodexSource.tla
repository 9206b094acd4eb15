----------------------------- MODULE CodexSource -----------------------------
(***************************************************************************)
(* The Codex collector (theywork-collect, codex_source.rs) polling the     *)
(* thread roster, the turns and the items of its SQLite stores, and the    *)
(* world that applies its batches one event at a time.  The stores change  *)
(* between any two queries and are sometimes unreadable.  A poll reads the *)
(* roster, then turns, then items; no transaction spans them.              *)
(***************************************************************************)
EXTENDS World, Integers

CONSTANTS
  Threads,   \* threads of the store, by their workers
  Projects,  \* their projects, among the offices
  Items,     \* item IDs
  UserItems, \* of them those of userMessage items
  Payloads,  \* what an item says; it can be completed in place
  Turns,     \* turn IDs of a thread, in the order they start
  TailLimit, \* INITIAL_ITEMS_PER_THREAD (64)
  MaxClock   \* bound: polls and changes of the stores

ASSUME CodexAssumption ==
  /\ Threads \subseteq Workers /\ Projects \subseteq Offices /\ UserItems \subseteq Items
  /\ TailLimit \in Nat \ {0} /\ MaxClock \in Nat /\ Turns \subseteq Nat

VARIABLES
  now,       \* wall clock
  rows,      \* store: project and update time of the threads that are listed
  items,     \* store: items of threads
  latest,    \* store: the latest turn of each thread
  threads,   \* the collector's roster
  watermark, \* last_item_watermark; -1 before the first items are read
  prints,    \* item_fingerprints
  turnStates,\* turn_states
  began,     \* when the current poll began, or 0
  roster,    \* the roster it read, or None
  turnRows,  \* the turns it read, or None
  queue,     \* events on their way to the world
  delivered, \* ghost: item payloads that were ever queued
  moved,     \* ghost: listed threads that changed project while listed
  unsure,    \* ghost: threads held when the stores could not be read
  asked      \* ghost: threads with a user message that is newer than the turn
             \* read with it, or was read when the turn had not changed

storeVars == <<now, rows, items, latest>>
heldVars == <<threads, watermark, prints, turnStates>>
sourceVars == <<heldVars, began, roster, turnRows, delivered, moved, unsure, asked>>
codexVars == <<storeVars, sourceVars, queue, worldVars>>

Empty == [w \in {} |-> None]
Dropped(f, keys) == [w \in DOMAIN f \cap keys |-> f[w]]

CodexInit ==
  /\ WorldInit
  /\ now = 1 /\ rows = Empty /\ items = {} /\ latest = Empty
  /\ threads = Empty /\ watermark = -1 /\ prints = {} /\ turnStates = Empty
  /\ began = 0 /\ roster = None /\ turnRows = None /\ queue = <<>>
  /\ delivered = {} /\ moved = {} /\ unsure = {} /\ asked = {}

-----------------------------------------------------------------------------
(* The stores, written by Codex.  A turn that completes is dated by its    *)
(* end, in whole seconds; one that fails or is interrupted, by its start.  *)
Store ==
  /\ now < MaxClock /\ now' = now + 1
  /\ \/ /\ \E w \in Threads, o \in Projects :  \* created or changed
             rows' = [x \in DOMAIN rows \cup {w} |->
                        IF x = w THEN [office |-> o, updated |-> now] ELSE rows[x]]
        /\ UNCHANGED <<items, latest>>
     \/ /\ \E w \in DOMAIN rows : rows' = Dropped(rows, DOMAIN rows \ {w})  \* archived or old
        /\ UNCHANGED <<items, latest>>
     \/ /\ \E w \in DOMAIN rows, i \in Items, p \in Payloads :
             LET old == {x \in items : x.thread = w /\ x.id = i}
                 at == IF old = {} THEN now ELSE (CHOOSE x \in old : TRUE).at
             IN items' = (items \ old) \cup {[thread |-> w, id |-> i, at |-> at, payload |-> p]}
        /\ UNCHANGED <<rows, latest>>
     \/ /\ \E w \in DOMAIN rows, t \in Turns, open \in BOOLEAN, at \in 1..now :
             /\ \/ at = now /\ (w \in DOMAIN latest => t > latest[w].id)
                \/ /\ w \in DOMAIN latest /\ at \in {latest[w].at, now}
                   /\ t = latest[w].id /\ latest[w].open /\ ~open
             /\ latest' = [x \in DOMAIN latest \cup {w} |->
                             IF x = w THEN [id |-> t, open |-> open, at |-> at] ELSE latest[x]]
        /\ UNCHANGED <<rows, items>>
     \/ UNCHANGED <<rows, items, latest>>  \* only time passes
  /\ UNCHANGED <<sourceVars, queue, worldVars>>

-----------------------------------------------------------------------------
Idle == began' = 0 /\ roster' = None /\ turnRows' = None

(* unavailable_poll: nothing that was known is kept.                       *)
Unavailable ==
  /\ threads' = Empty /\ prints' = {} /\ turnStates' = Empty /\ watermark' = -1
  /\ Idle /\ unsure' = unsure \cup DOMAIN threads
  /\ moved' = {} /\ asked' = {} /\ UNCHANGED <<queue, delivered>>

(* poll, as far as the roster query.  The collector never looks at the     *)
(* world, so it may as well wait for it.                                   *)
ReadRoster ==
  /\ roster = None /\ queue = <<>>
  /\ \/ /\ began' = now /\ roster' = rows
        /\ UNCHANGED <<heldVars, turnRows, queue, delivered, moved, unsure, asked>>
     \/ Unavailable
  /\ UNCHANGED <<storeVars, worldVars>>

(* The next query, of the latest turn of each thread.                      *)
ReadTurns ==
  /\ roster # None /\ turnRows = None
  /\ \/ /\ turnRows' = latest
        /\ UNCHANGED <<heldVars, began, roster, queue, delivered, moved, unsure, asked>>
     \/ Unavailable
  /\ UNCHANGED <<storeVars, worldVars>>

(* Threads whose Left is sent: gone, or listed under another project.      *)
Departures(current) ==
  {w \in DOMAIN threads : w \in DOMAIN current => threads[w].office # current[w].office}

(* Threads whose Seen is sent.                                             *)
Arrivals(current) ==
  {w \in DOMAIN current : w \in DOMAIN threads => threads[w].office # current[w].office}

(* read_items: the tail of each thread, and all from the watermark on.     *)
Read(current) ==
  LET newer(x) == {y \in items : y.thread = x.thread /\ y.at > x.at}
  IN {x \in items : x.thread \in DOMAIN current
                    /\ (Cardinality(newer(x)) < TailLimit
                        \/ (watermark >= 0 /\ x.at >= watermark))}

(* Wrong: an item is known by its ID alone.                                *)
FreshById(x) == ~\E f \in prints : f.thread = x.thread /\ f.id = x.id

(* The fingerprint of an item is missing or says something else.           *)
Fresh(x) == x \notin prints

(* At most 2 * TailLimit fingerprints for a thread, the oldest items first *)
(* to go.                                                                  *)
Capped(all) ==
  LET newer(x) == {y \in all : y.thread = x.thread
                               /\ (y.at > x.at \/ (y.at = x.at /\ y.id > x.id))}
  IN {x \in all : Cardinality(newer(x)) < 2 * TailLimit}

(* Threads whose latest turn is another one, or opened or closed.          *)
Turned(current) ==
  {w \in DOMAIN current \cap DOMAIN turnRows :
     w \in DOMAIN turnStates =>
       turnStates[w].id # turnRows[w].id \/ turnStates[w].open # turnRows[w].open}

(* When the fresh ones among these items of a thread were created, and the *)
(* last of some times.                                                     *)
Created(current, w, ids) ==
  {x.at : x \in {y \in Read(current) : y.thread = w /\ y.id \in ids /\ Fresh(y)}}

LastTime(times) == CHOOSE t \in times : \A u \in times : u <= t

Message(kind, w, office, at, open) ==
  [kind |-> kind, worker |-> w, office |-> office, at |-> at, open |-> open]

(* The messages of a query, in the order of their workers.                 *)
Told(message) ==
  LET W == DOMAIN message
  IN [n \in 1..Cardinality(W) |->
        message[CHOOSE w \in W : Cardinality({v \in W : v <= w}) = n]]

(* Stably sorted by time.                                                  *)
ByTime(all) ==
  LET place(i) == Cardinality({j \in DOMAIN all : all[j].at < all[i].at
                                                  \/ (all[j].at = all[i].at /\ j <= i)})
  IN [n \in DOMAIN all |-> all[CHOOSE i \in DOMAIN all : place(i) = n]]

(* The batch of one poll: in the order it is collected, then sorted.  A    *)
(* user message begins a turn; a turn is followed by what it says of the   *)
(* life of its thread.  Of several events of a thread and a kind the last  *)
(* stands for all.  Names, tokens, coverage, relationships, collaboration, *)
(* errors and waits are left out: they neither move anybody nor change a   *)
(* turn.                                                                   *)
Batch(current) ==
  LET office(w) == current[w].office
      told(kind, w, at, open) == Message(kind, w, office(w), at, open)
      busy(ids) == {w \in DOMAIN current : Created(current, w, ids) # {}}
      last(w, ids) == LastTime(Created(current, w, ids))
      left == [w \in Departures(current) |-> Message("Left", w, threads[w].office, began, FALSE)]
      seen == [w \in Arrivals(current) |-> told("Seen", w, current[w].updated, FALSE)]
      user == [w \in busy(UserItems) |-> told("Asked", w, last(w, UserItems), TRUE)]
      did == [w \in busy(Items) |-> told("Did", w, last(w, Items), FALSE)]
      turn == [w \in Turned(current) |-> told("Turn", w, turnRows[w].at, turnRows[w].open)]
      life == [w \in Turned(current) |-> told("Life", w, turnRows[w].at, turnRows[w].open)]
  IN ByTime(Told(left) \o Told(seen) \o Told(user) \o Told(did) \o Told(turn) \o Told(life))

(* Threads whose turn a user message of this poll opens after all.         *)
Reopened(current) ==
  {w \in DOMAIN current :
     \E t \in Created(current, w, UserItems) : w \in Turned(current) => t > turnRows[w].at}

(* The rest of poll; of a failing query nothing is sent.                   *)
ReadItems ==
  /\ roster # None /\ turnRows # None
  /\ \/ LET current == roster
            read == Read(current)
        IN /\ threads' = current
           /\ queue' = queue \o Batch(current)
           /\ prints' = Capped({f \in prints :
                                 /\ f.thread \in DOMAIN current
                                 /\ \A x \in read : <<x.thread, x.id>> # <<f.thread, f.id>>}
                               \cup read)
           /\ delivered' = delivered \cup {x \in read : Fresh(x)}
           /\ watermark' = LastTime({x.at : x \in read} \cup {watermark, 0})
           /\ turnStates' = [w \in DOMAIN current \cap (DOMAIN turnStates \cup DOMAIN turnRows) |->
                IF w \in DOMAIN turnRows THEN [id |-> turnRows[w].id, open |-> turnRows[w].open]
                ELSE turnStates[w]]
           /\ Idle
           /\ moved' = (moved \cup (DOMAIN threads \cap Arrivals(current))) \cap DOMAIN current
           /\ unsure' = unsure \ DOMAIN current
           /\ asked' = Reopened(current) \cup ((asked \cap DOMAIN current) \ Turned(current))
     \/ Unavailable
  /\ UNCHANGED <<storeVars, worldVars>>

(* The world applies the next event of the batch.                          *)
Apply ==
  /\ queue # <<>> /\ queue' = Tail(queue)
  /\ LET m == Head(queue)
     IN \/ m.kind = "Left" /\ Left(m.worker)
        \/ m.kind = "Seen" /\ Seen(m.worker, m.office, m.at)
        \/ m.kind = "Did" /\ Acted(m.worker, m.office, m.at, "Busy")
        \/ m.kind \in {"Asked", "Turn"} /\ Turn(m.worker, m.office, m.at, m.open)
        \/ /\ m.kind = "Life"
           /\ Lifecycle(m.worker, m.office, m.at, IF m.open THEN "Active" ELSE "Completed")
  /\ UNCHANGED <<storeVars, sourceVars>>

CodexNext == Store \/ ReadRoster \/ ReadTurns \/ ReadItems \/ Apply

CodexSpec == CodexInit /\ [][CodexNext]_codexVars

-----------------------------------------------------------------------------
Settled == queue = <<>> /\ roster = None

(* Once a batch is applied the office shows what the collector holds: each *)
(* listed thread sits in its project, working if and only if the turn that *)
(* was read last is open or a user message was read that is newer than the *)
(* turn or came to light after it; nobody else of a readable store sits    *)
(* anywhere; everything in the tail of a thread was delivered as it now    *)
(* reads.  (So a turn that failed, dated by its start, leaves its thread   *)
(* at work when the message that began it is read with it.)  Threads that  *)
(* change project while listed, and threads that go while the store is     *)
(* unreadable, are not promised: LeftMeansEnded shows why.                 *)
StoreFollowed ==
  Settled =>
    /\ \A w \in DOMAIN threads \ moved :
         /\ w \in DOMAIN desks /\ desks[w] = threads[w].office
         /\ \A p \in Present : p.id = w /\ w \in DOMAIN turnStates =>
              (p.turn <=> turnStates[w].open \/ w \in asked)
    /\ DOMAIN desks \cap Threads \subseteq DOMAIN threads \cup unsure
    /\ prints \subseteq delivered

(* The docs (theywork-core, lib.rs: collectors "emit `Left` when a session *)
(* really ends") promise that a thread which is still listed is not sent   *)
(* away: its office shows it when the batch is applied.                    *)
LeftMeansEnded ==
  Settled => DOMAIN threads \subseteq DOMAIN desks

=============================================================================
