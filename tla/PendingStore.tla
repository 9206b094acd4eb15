----------------------------- MODULE PendingStore -----------------------------
(***************************************************************************)
(* The bounded store that joins tool calls with their results in Claude    *)
(* transcripts (theywork-collect, claude_pending.rs): the entries of each  *)
(* transcript's cursor, an index of all entries by age, accounts of bytes, *)
(* and for each cursor what the store had to give up.                      *)
(***************************************************************************)
EXTENDS Naturals, FiniteSets, FiniteSetsExt

CONSTANTS
  Cursors,       \* transcripts that are followed
  CallIds,       \* native IDs of tool calls
  IdBytes,       \* how many bytes each ID has
  Calls,         \* what a call says: [body, bytes]
  Ambiguous,     \* the tool of an entry with a conflicting ID
  CursorEntries, CursorBytes,  \* limits for one cursor (256, 256 KiB)
  SourceEntries, SourceBytes,  \* limits for the store (8192, 8 MiB)
  LastOrdinal,   \* u64::MAX
  MaxLoss,       \* bound: loss counters stay there
  MaxEpoch       \* bound: NEXT_CURSOR

ASSUME PendingAssumption ==
  /\ CursorEntries \in Nat \ {0} /\ CursorBytes \in Nat
  /\ SourceEntries \in Nat \ {0} /\ SourceBytes \in Nat
  /\ LastOrdinal \in Nat /\ LastOrdinal > SourceEntries
  /\ MaxLoss \in Nat \ {0} /\ MaxEpoch \in Nat
  /\ \A id \in CallIds : IdBytes[id] \in Nat
  /\ \A call \in Calls : call.bytes \in Nat /\ Ambiguous # call

VARIABLES
  entries,  \* of all cursors: [cursor, id, ordinal, tool, bytes]
  coverage, \* ToolCorrelationCoverage of each registered cursor
  owned,    \* owned_bytes of each registered cursor
  order,    \* ordinal -> cursor
  next,     \* next_ordinal
  total,    \* owned_bytes of the store
  epochs,   \* NEXT_CURSOR
  awaited   \* ghost: <<id, call>> with no result yet, of epochs without loss

pendingVars == <<entries, coverage, owned, order, next, total, epochs, awaited>>

Registered == DOMAIN coverage
Held(cursor) == {e \in entries : e.cursor = cursor}
Named(cursor, id) == {e \in Held(cursor) : e.id = id}
BytesOf(some) == LET bytes(e) == e.bytes IN MapThenSumSet(bytes, some)
Put(f, key, value) == [k \in DOMAIN f \cup {key} |-> IF k = key THEN value ELSE f[k]]
Drop(f, keys) == [k \in DOMAIN f \ keys |-> f[k]]
OwnedBytes(id, call) == IdBytes[id] + call.bytes
Counted(n) == IF n < MaxLoss THEN n + 1 ELSE n

(* The coverage counts evicted, oversized and ambiguous entries apart;     *)
(* here one count stands for their sum.                                    *)
Lossless(epoch) == [epoch |-> epoch, lost |-> 0]
HasLoss(c) == c.lost > 0

PendingInit ==
  /\ entries = {} /\ coverage = [c \in {} |-> 0] /\ owned = [c \in {} |-> 0]
  /\ order = [n \in {} |-> 0] /\ next = 0 /\ total = 0 /\ epochs = 1
  /\ awaited = [c \in {} |-> {}]

-----------------------------------------------------------------------------
(* A cursor and its entries are in a new epoch, or gone when it has none.  *)
Restarted(cursor, epoch) ==
  /\ entries' = entries \ Held(cursor)
  /\ order' = Drop(order, {e.ordinal : e \in Held(cursor)})
  /\ total' = total - (IF cursor \in Registered THEN owned[cursor] ELSE 0)
  /\ coverage' = IF epoch = 0 THEN Drop(coverage, {cursor})
                 ELSE Put(coverage, cursor, Lossless(epoch))
  /\ owned' = IF epoch = 0 THEN Drop(owned, {cursor}) ELSE Put(owned, cursor, 0)
  /\ awaited' = IF epoch = 0 THEN Drop(awaited, {cursor}) ELSE Put(awaited, cursor, {})
  /\ UNCHANGED next

Register(cursor) ==
  /\ cursor \notin Registered /\ epochs < MaxEpoch
  /\ Restarted(cursor, epochs) /\ epochs' = epochs + 1

(* Wrong: the entries of a closed transcript stay.                         *)
UnregisterLeaving(cursor) ==
  /\ cursor \in Registered
  /\ coverage' = Drop(coverage, {cursor}) /\ owned' = Drop(owned, {cursor})
  /\ awaited' = Drop(awaited, {cursor})
  /\ UNCHANGED <<entries, order, next, total, epochs>>

Unregister(cursor) ==
  /\ cursor \in Registered
  /\ Restarted(cursor, 0) /\ UNCHANGED epochs

(* restart, of a transcript that is read anew; reset_coverage has told the *)
(* collector how much goes, in a count that goes with the old epoch.       *)
Restart(cursor) ==
  /\ cursor \in Registered /\ epochs < MaxEpoch
  /\ Restarted(cursor, epochs) /\ epochs' = epochs + 1

-----------------------------------------------------------------------------
(* evict: the entry goes, with its bytes, and the loss is counted.         *)
EntryEvicted(s, ordinal) ==
  LET gone == CHOOSE e \in s.entries : e.ordinal = ordinal
  IN [s EXCEPT !.entries = @ \ {gone}, !.order = Drop(@, {ordinal}),
               !.owned[gone.cursor] = @ - gone.bytes, !.total = @ - gone.bytes,
               !.coverage[gone.cursor].lost = Counted(@)]

Size(s) == Cardinality(s.entries)

(* The oldest entries of the cursor go while it has no room for so much.   *)
CursorRoom(s, cursor, bytes) ==
  LET full(t) == \/ Cardinality({e \in t.entries : e.cursor = cursor}) >= CursorEntries
                 \/ t.owned[cursor] + bytes > CursorBytes
      after[n \in 0..Size(s)] ==
        IF n = 0 THEN s
        ELSE LET t == after[n - 1]
             IN IF full(t)
                THEN EntryEvicted(t, Min({e.ordinal : e \in {f \in t.entries : f.cursor = cursor}}))
                ELSE t
  IN after[Size(s)]

(* Then the oldest of all while the store has none.                        *)
SourceRoom(s, bytes) ==
  LET full(t) == Cardinality(DOMAIN t.order) >= SourceEntries \/ t.total + bytes > SourceBytes
      after[n \in 0..Size(s)] ==
        IF n = 0 THEN s
        ELSE LET t == after[n - 1]
             IN IF full(t) THEN EntryEvicted(t, Min(DOMAIN t.order)) ELSE t
  IN after[Size(s)]

(* rebase_ordinals, when they are used up: their order stays.              *)
Rebased(s) ==
  LET rank(n) == Cardinality({m \in DOMAIN s.order : m < n})
  IN IF s.next < LastOrdinal THEN s
     ELSE [s EXCEPT !.entries = {[e EXCEPT !.ordinal = rank(@)] : e \in @},
                    !.order = [n \in {rank(m) : m \in DOMAIN s.order} |->
                                 s.order[CHOOSE m \in DOMAIN s.order : rank(m) = n]],
                    !.next = Cardinality(DOMAIN s.order)]

Insertion(cursor, id, call) ==
  LET s == [entries |-> entries, order |-> order, owned |-> owned, total |-> total,
            coverage |-> coverage, next |-> next]
      bytes == OwnedBytes(id, call)
      t == Rebased(SourceRoom(CursorRoom(s, cursor, bytes), bytes))
      entry == [cursor |-> cursor, id |-> id, ordinal |-> t.next, tool |-> call,
                bytes |-> bytes]
  IN /\ entries' = t.entries \cup {entry}
     /\ order' = Put(t.order, t.next, cursor)
     /\ owned' = [t.owned EXCEPT ![cursor] = @ + bytes]
     /\ total' = t.total + bytes
     /\ coverage' = t.coverage
     /\ next' = t.next + 1

(* Wrong: a conflicting call replaces the first one.                       *)
ConflictReplacing(cursor, entry, call) ==
  /\ entries' = (entries \ {entry}) \cup {[entry EXCEPT !.tool = call]}
  /\ UNCHANGED <<owned, order, next, total, coverage>>

(* A conflicting call: neither is believed any more; the bytes of the      *)
(* first one's activity are released, those of the ID stay.                *)
Conflict(cursor, entry, call) ==
  /\ entries' = (entries \ {entry})
                \cup {[entry EXCEPT !.tool = Ambiguous, !.bytes = IdBytes[entry.id]]}
  /\ owned' = [owned EXCEPT ![cursor] = @ - (entry.bytes - IdBytes[entry.id])]
  /\ total' = total - (entry.bytes - IdBytes[entry.id])
  /\ coverage' = [coverage EXCEPT ![cursor].lost = Counted(@)]
  /\ UNCHANGED <<order, next>>

Oversized(id, call) ==
  OwnedBytes(id, call) > CursorBytes \/ OwnedBytes(id, call) > SourceBytes

(* insert, of a call seen in a transcript.  A replay is not news.          *)
InsertCall(cursor, id, call) ==
  /\ cursor \in Registered
  /\ \/ \E entry \in Named(cursor, id) :
          \/ entry.tool \notin {Ambiguous, call} /\ Conflict(cursor, entry, call)
          \/ /\ entry.tool \in {Ambiguous, call}
             /\ UNCHANGED <<entries, owned, order, next, total, coverage>>
     \/ /\ Named(cursor, id) = {} /\ Oversized(id, call)
        /\ coverage' = [coverage EXCEPT ![cursor].lost = Counted(@)]
        /\ UNCHANGED <<entries, owned, order, next, total>>
     \/ /\ Named(cursor, id) = {} /\ ~Oversized(id, call)
        /\ Insertion(cursor, id, call)
  /\ awaited' = [c \in Registered |->
       IF HasLoss(coverage'[c]) THEN {}
       ELSE awaited[c] \cup (IF c = cursor THEN {<<id, call>>} ELSE {})]
  /\ UNCHANGED epochs

(* remove, of the result of a call: the entry goes.                        *)
Result(cursor, id) ==
  /\ \E entry \in Named(cursor, id) :
       /\ entries' = entries \ {entry}
       /\ order' = Drop(order, {entry.ordinal})
       /\ owned' = [owned EXCEPT ![cursor] = @ - entry.bytes]
       /\ total' = total - entry.bytes
  /\ awaited' = [awaited EXCEPT ![cursor] = {a \in @ : a[1] # id}]
  /\ UNCHANGED <<coverage, next, epochs>>

PendingNext ==
  \E c \in Cursors :
    \/ Register(c) \/ Unregister(c) \/ Restart(c)
    \/ \E id \in CallIds : Result(c, id) \/ \E call \in Calls : InsertCall(c, id, call)

PendingSpec == PendingInit /\ [][PendingNext]_pendingVars

-----------------------------------------------------------------------------
(* The accounts are exact, so that no subtraction underflows, no lookup of *)
(* the index fails and the limits hold, whatever is evicted, rebased, made *)
(* ambiguous or closed: each entry is in the index under its own ordinal,  *)
(* below the next one; the bytes are those of the entries.                 *)
AccountsExact ==
  /\ \A e, f \in entries : (e.ordinal = f.ordinal \/ (e.cursor = f.cursor /\ e.id = f.id)) => e = f
  /\ DOMAIN order = {e.ordinal : e \in entries}
  /\ \A e \in entries : order[e.ordinal] = e.cursor /\ e.ordinal < next /\ next <= LastOrdinal
  /\ DOMAIN owned = Registered /\ \A c \in Registered : owned[c] = BytesOf(Held(c))
  /\ total = BytesOf(entries) /\ total <= SourceBytes
  /\ Cardinality(entries) <= SourceEntries
  /\ \A c \in Registered : Cardinality(Held(c)) <= CursorEntries /\ owned[c] <= CursorBytes

(* No call is lost or confused in silence: a call that waits for its result *)
(* is still held as it was said, or the coverage of its transcript admits a *)
(* loss; and no two transcripts are ever in the same epoch.                 *)
LossAdmitted ==
  \A c \in Registered :
    /\ \A a \in awaited[c] :
         (\E e \in Named(c, a[1]) : e.tool = a[2]) \/ HasLoss(coverage[c])
    /\ \A d \in Registered : c # d => coverage[c].epoch # coverage[d].epoch

=============================================================================
