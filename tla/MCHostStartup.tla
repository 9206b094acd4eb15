----------------------------- MODULE MCHostStartup -----------------------------
(***************************************************************************)
(* HostStartup with three of four callers: whichever two they are, two     *)
(* callers share a lock, a home or the ports.                              *)
(***************************************************************************)
EXTENDS HostStartup, TLC

CONSTANTS a, b, c, d, d1, d2, h1, h2, q1, q2

VARIABLE absent  \* the caller that never starts
mcVars == <<vars, absent>>

(* a and b share directory and home; c wants the same directory for        *)
(* another home; d is at home in the other directory.                      *)
MCDirOf == [call \in Calls |-> IF call = d THEN d2 ELSE d1]
MCHomeOf == [call \in Calls |-> IF call = c THEN h2 ELSE h1]

MCInit == Init /\ absent \in {b, d}

(* Ports differ only in name: with one directory, a's host takes the first. *)
MCNext ==
  /\ Next /\ pc'[absent] = "idle" /\ UNCHANGED absent
  /\ absent = d => port'[a] \in {q1, None}

MCSpec == MCInit /\ [][MCNext]_mcVars /\ Fairness

=============================================================================
