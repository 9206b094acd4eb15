------------------------------ MODULE MCSnapshots ------------------------------
(***************************************************************************)
(* What the control host keeps and publishes, as three small instances in  *)
(* one run.  Over a window of two events, "lineage" begins close to the    *)
(* last number and goes through restarts and exhausted numbers, and "gaps" *)
(* numbers the events of one thread long enough for two gaps; "storage"    *)
(* saves five snapshots, while others touch the file twice.                *)
(***************************************************************************)
EXTENDS Bridge, StateStorage, TLC

CONSTANTS t1, t2

VARIABLE part
mcVars == <<vars, storageVars, part>>

MCLegacy == {<<>>, <<0>>, <<2, 2>>, <<5>>}
Symmetry == Permutations(Threads)

(* The conversations that a snapshot tells of.                             *)
Named(snapshot) ==
  {snapshot.events[i].thread : i \in DOMAIN snapshot.events} \cup snapshot.known

MCInit ==
  /\ Init /\ StorageInit /\ part \in {"lineage", "gaps", "storage"}
  /\ part = "storage" => saved.events = <<>>

MCNext ==
  /\ UNCHANGED part
  /\ IF part = "storage" THEN StorageNext /\ UNCHANGED vars
     ELSE Next /\ UNCHANGED storageVars
  /\ part = "lineage" => received' <= 3
  /\ part = "gaps" =>
       /\ streams' <= 2
       /\ Cardinality(Named(live) \cup Named(live')) <= 1 /\ NoThread \notin Named(live')

MCSpec == MCInit /\ [][MCNext]_mcVars

=============================================================================
