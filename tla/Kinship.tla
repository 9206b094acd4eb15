------------------------------- MODULE Kinship -------------------------------
(***************************************************************************)
(* The recorded relationships between workers (theywork-core, world.rs and *)
(* collaboration.rs): who delegated to whom, who was forked from whom, who *)
(* belongs to whose session, and the tree that is drawn from them.  An end *)
(* of a relationship need not be a worker that anybody has seen.  Workers  *)
(* are numbers: their order is the order of their names.                   *)
(***************************************************************************)
EXTENDS Naturals, FiniteSets, Sequences

CONSTANTS
  Workers,       \* identities of workers
  Moments,       \* source times
  RelationLimit  \* 4 * COLLABORATION_HISTORY_LEN

ASSUME KinshipAssumption ==
  Workers \subseteq Nat /\ Moments \subseteq Nat /\ RelationLimit \in Nat \ {0}

VARIABLE relationships

(* RelationshipKind, in its derived order.                                 *)
Kinds == <<"Delegation", "SessionMembership", "Fork">>
KindIndex == DOMAIN Kinds
Membership == 2

Relationship == [parent : Workers, child : Workers, kind : KindIndex, at : Moments]

SameKey(r, s) == r.parent = s.parent /\ r.child = s.child /\ r.kind = s.kind

(* r comes before s in the map.                                            *)
KeyBefore(r, s) ==
  \/ r.parent < s.parent
  \/ r.parent = s.parent /\ (r.child < s.child
                             \/ (r.child = s.child /\ r.kind < s.kind))

-----------------------------------------------------------------------------
(* ancestors: explicit parents, their explicit parents and so on.  A walk  *)
(* over links reaches the least set that has its start and is closed.      *)
Explicit == {r \in relationships : r.kind # Membership}

Reached(links, start) ==
  {w \in Workers : \A known \in SUBSET Workers :
     start \in known /\ (\A l \in links : l[1] \in known => l[2] \in known) => w \in known}

Ancestors(id) == Reached({<<r.child, r.parent>> : r \in Explicit}, id) \ {id}

(* Wrong: only the parent itself is looked at.                             *)
ClosesParents(r) == \E s \in Explicit : s.child = r.parent /\ s.parent = r.child

(* r would make its child an ancestor of itself.                           *)
Closes(r) == r.child \in Ancestors(r.parent)

(* The record that goes when there are too many.                           *)
Trimmed(held) ==
  IF Cardinality(held) <= RelationLimit THEN held
  ELSE held \ {CHOOSE r \in held : \A s \in held \ {r} :
                 r.at < s.at \/ (r.at = s.at /\ KeyBefore(r, s))}

(* apply, of a relationship.                                               *)
Relate(r) ==
  /\ r.parent # r.child
  /\ r.kind = Membership \/ ~Closes(r)
  /\ LET old == {s \in relationships : SameKey(r, s)}
     IN IF \E s \in old : s.at > r.at THEN relationships' = Trimmed(relationships)
        ELSE relationships' = Trimmed((relationships \ old) \cup {r})

(* What goes with a worker whose retired record is dropped.                *)
Unrelated(gone) ==
  {r \in relationships : r.parent \notin gone /\ r.child \notin gone}

-----------------------------------------------------------------------------
(* The records under which tree(root) draws the children of id.            *)
Drawn(root, id) ==
  {r \in relationships :
     r.parent = id /\ ~(r.kind = Membership /\ root \in Ancestors(r.child))}

(* The entries pushed for id, the first child on top.                      *)
Entries(root, id, depth) ==
  LET drawn == Drawn(root, id)
      children == {r.child : r \in drawn}
      via(c) == CHOOSE k \in KindIndex :
                  /\ \E r \in drawn : r.child = c /\ r.kind = k
                  /\ \A r \in drawn : r.child = c => k <= r.kind
      rank(c) == Cardinality({d \in children : d <= c})
  IN [i \in 1..Cardinality(children) |->
        LET c == CHOOSE d \in children : rank(d) = i
        IN [worker |-> c, depth |-> depth, via |-> via(c)]]

(* tree: a walk with a stack, the next entry first.                        *)
Tree(root) ==
  LET start == [stack |-> <<[worker |-> root, depth |-> 0, via |-> 0]>>, out |-> <<>>]
      step(s) ==
        IF s.stack = <<>> THEN s
        ELSE LET e == Head(s.stack)
             IN IF \E i \in DOMAIN s.out : s.out[i].worker = e.worker
                THEN [s EXCEPT !.stack = Tail(@)]
                ELSE [stack |-> Entries(root, e.worker, e.depth + 1) \o Tail(s.stack),
                      out |-> Append(s.out, e)]
      walk[n \in 0..(Cardinality(relationships) + 1)] ==
        IF n = 0 THEN start ELSE step(walk[n - 1])
  IN walk[Cardinality(relationships) + 1].out

(* family: the connected component, with every kind of record.             *)
Family(id) ==
  Reached({<<r.parent, r.child>> : r \in relationships}
          \cup {<<r.child, r.parent>> : r \in relationships}, id)

-----------------------------------------------------------------------------
Descendants(root) == Reached({<<r.parent, r.child>> : r \in relationships}, root)

(* Nobody is their own explicit ancestor.                                  *)
Acyclic == \A r \in Explicit : r.child \notin Ancestors(r.parent) \cup {r.parent}

Row(tree, id) == tree[CHOOSE i \in DOMAIN tree : tree[i].worker = id]

(* Kinship is a forest one can walk, whatever order the records come in,   *)
(* are replaced, trimmed or dropped with a worker: nobody is an explicit   *)
(* ancestor of themselves; a tree shows everyone below its root exactly    *)
(* once, each one step below a row that stands above it; and whoever       *)
(* descends from the root by explicit records is drawn under an explicit   *)
(* parent, never as a mere member of the session.                          *)
KinshipSound ==
  /\ Acyclic
  /\ \A root \in Workers :
       LET tree == Tree(root)
           below == Descendants(root)
       IN /\ {tree[i].worker : i \in DOMAIN tree} = below
          /\ \A i, j \in DOMAIN tree : tree[i].worker = tree[j].worker => i = j
          /\ \A i \in DOMAIN tree \ {1} : \E j \in 1..(i - 1), r \in relationships :
               /\ tree[j].depth + 1 = tree[i].depth
               /\ r.parent = tree[j].worker /\ r.child = tree[i].worker
               /\ r.kind = tree[i].via
               /\ \A k \in (j + 1)..i : tree[k].depth > tree[j].depth
          /\ \A id \in below \ {root} :
               root \in Ancestors(id) => Row(tree, id).via # Membership

=============================================================================
