------------------------------- MODULE MCOffice -------------------------------
(***************************************************************************)
(* OfficeLoop, as three small instances in one run: "events" follows       *)
(* events through restarts and replaced sources, with commands that carry  *)
(* no draft; "drafts" follows texts, without events or answers; "answers"  *)
(* follows requests, without texts.  In the last two the control host      *)
(* publishes right before the loop looks, which reads that nowhere else,   *)
(* and nobody quits.                                                       *)
(***************************************************************************)
EXTENDS OfficeLoop

CONSTANTS a, b

VARIABLE part
mcVars == <<loopVars, part>>

MCWorkerOf == [r \in Requests |-> IF r = "b1" THEN b ELSE a]
MCStatuses ==
  {[requests |-> r, able |-> {a, b}] :
     r \in {<<>>, <<"a1">>, <<"b1">>, <<"b1", "a1">>, <<"a1", "q">>}}

MCInit == LoopInit /\ part \in {"events", "drafts", "answers"}

AtTheTime ==
  /\ pc' # "ended" /\ made' = 0 /\ read' = 0
  /\ latest' # latest => pc \in {"latest", "input", "outcomes"}
  /\ unseen' # unseen => pc = "latest"

MCNext ==
  /\ UNCHANGED part
  /\ LoopNext
  /\ part = "events" =>
       /\ UNCHANGED <<open, view, wanted, draftVars, drawVars>>
       /\ latest'.status.requests = <<>>
  /\ part = "drafts" =>
       /\ AtTheTime /\ UNCHANGED <<answered, hits, shown>> /\ usable' \in {usable, TRUE}
       /\ view' # "connections" /\ (unseen' => latest'.status.requests = <<"b1">>)
       /\ message' # None => message'.text = 1 \/ message'.for = a
  /\ part = "answers" =>
       /\ AtTheTime /\ UNCHANGED <<message, wanted>>
       /\ latest'.status.requests # <<"b1">>

MCSpec == MCInit /\ [][MCNext]_mcVars /\ WF_mcVars(Loop /\ MCNext) /\ WF_mcVars(Execute /\ MCNext)

=============================================================================
