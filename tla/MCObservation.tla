------------------------------ MODULE MCObservation ------------------------------
(***************************************************************************)
(* What is observed, on its way from transcripts and stores to the office  *)
(* and onto the screen, in small instances of one part each, the others at *)
(* rest: so that their states add up instead of multiplying.               *)
(***************************************************************************)
EXTENDS CodexSource, PendingStore, TranscriptTail, Presenter, ClaudeRoster, Navigation

VARIABLES
  part,
  presses, changes  \* since the last frame: what the user and the world did
observedVars == <<codexVars, pendingVars, tailVars, presenterVars, claudeVars>>
mcVars == <<observedVars, navVars, part, presses, changes>>

Ways == {"keys", "finder", "phone", "marks", "visits"}
Parts == {"history", "kin", "roster", "coverage", "beats", "codex", "pending", "tail", "screen", "claude"}

Streams == {None} \cup
  [id : {1, 2}, lineage : {TRUE}, prior : {FALSE}, missing : {0, 1}, dropped : {0},
   deferred : {0, 1}]
Tools == {None} \cup [epoch : {1, 2}, lost : {0, 1}, prior : {FALSE}]
MCReports == [stream : Streams, tool : Tools]

(* Worker 1 lives through everything; the others come and go.              *)
Life(at) ==
  \E o \in {1, 2} :
    \/ Tokens(1, o, at) \/ Identity(1, o, at)
    \/ \E a \in Activities : Acted(1, o, at, a)
    \/ \E open \in BOOLEAN : Turn(1, o, at, open)
    \/ \E l \in {"Active", "Completed"} : Lifecycle(1, o, at, l)
    \/ \E r \in Waits : Wait(1, o, at, r)

Roster ==
  \/ \E at \in {0, 2} : Life(at) \/ \E id \in {1, 2} : Seen(id, 1, at)
  \/ \E id \in {1, 2} : Left(id)
  \/ \E t \in {1, 2} : Tick(t)
  \/ Relation([parent |-> 1, child |-> 2, kind |-> 1, at |-> 0])

Reported ==
  \/ \E report \in Reports : Coverage(1, report)
  \/ \E id \in {1, 2}, o \in {1, 2} : Seen(id, o, 0)
  \/ \E id \in {1, 2} : Left(id)

Beats ==
  \/ \E at \in {0, 1, 2}, a \in {"Busy", "Error"} : Did(1, 1, at, a) \/ HistoricalBeat(1, at, a)
  \/ \E o \in {1, 2} : Seen(1, o, 0)
  \/ Left(1)

MCIdBytes == <<1, 1>>
MCCalls == [body : {1}, bytes : {0}] \cup [body : {2}, bytes : {1}] \cup [body : {3}, bytes : {3}]

MCContents == {<<>>, <<"x", "n", "x">>}

MCLines ==
  [agent : {FALSE}, call : {1, 2}, link : {NoOne}]
  \cup [agent : {TRUE}, call : {NoOne}, link : Correlations]
  \cup [agent : {TRUE}, call : {2}, link : {1}]

WrittenLines == {<<f, i>> \in Files \X (1..MaxTranscript) : i <= Len(transcripts[f])}

MCAreas == {{2}, {1, 2}}

MCNotes ==
  {[id |-> 1, floor |-> 1, by |-> 13, at |-> 1, result |-> TRUE],
   [id |-> 2, floor |-> 1, by |-> 11, at |-> 2, result |-> FALSE],
   [id |-> 3, floor |-> 2, by |-> 12, at |-> 2, result |-> FALSE]}

(* Where a part has many initial states, they are only its own.            *)
MCInit ==
  /\ CodexInit /\ PendingInit /\ TailInit /\ PresenterInit
  /\ ClaudeInit /\ NavInit /\ part \in Parts \cup Ways /\ presses = 0 /\ changes = 0
  /\ part # "screen" => width = 2 /\ presenter.surface = "off"
  /\ part # "tail" => file.bytes = <<>>
  /\ staff = <<<<11>>, <<12>>>> /\ view = IF part = "visits" THEN "Office" ELSE "Cameras"
  /\ moment = IF part \in {"marks", "visits"} THEN 1 ELSE 0

WorldPart ==
  \/ /\ part = "history"
     /\ \E o \in Offices, k \in Keys, t \in Times, b \in Bodies : Collaboration(o, k, t, b)
  \/ part = "kin" /\ \E r \in Relationship : {r.parent, r.child} \subseteq 1..3 /\ Relation(r)
  \/ part = "roster" /\ Roster
  \/ part = "coverage" /\ Reported
  \/ part = "beats" /\ Beats

(* Between two frames the world changes once and the user does one thing,  *)
(* or goes on after a find, or clicks on an old row.  In "keys" one person *)
(* comes, goes and asks, in the others the other one comes and goes; a     *)
(* third is only known from its records.                                   *)
Busy ==
  \/ Beyond /\ changes = 0 /\ changes' = 1 /\ UNCHANGED presses
  \/ /\ \/ Press /\ (presses = 0 \/ (pending.find # Nobody /\ presses < 3))
        \/ Click /\ (presses = 0 \/ (part = "marks" /\ notebook.open /\ presses < 2))
     /\ presses' = presses + 1 /\ UNCHANGED changes
  \/ Draw /\ presses' = 0 /\ changes' = 0

Visiting ==
  /\ part \in Ways /\ Busy
  /\ 11 \notin ToSet(staff'[2]) /\ asking' \subseteq {12} /\ 13 \notin InTower'
  /\ part # "finder" => ~finder'.open
  /\ part # "phone" => ~phone'.open
  /\ part # "keys" => ~controls'.open /\ ~modal' /\ staff'[2] = <<12>>
  /\ part \in {"finder", "visits"} => UNCHANGED asking
  /\ IF part \in {"marks", "visits"} THEN UNCHANGED pending
     ELSE UNCHANGED <<notes, moment, markers>> /\ ~notebook'.open
  /\ part = "marks" =>
       /\ UNCHANGED <<staff, moment, phone>> /\ view' = "Cameras" /\ changes' + presses' < 3
       /\ UNCHANGED asking \/ (notebook.open /\ notebook.channel = "Attention")
  /\ part = "visits" =>
       /\ UNCHANGED <<staff, markers>> /\ view' # "Desk" /\ ~Click /\ changes' + presses' < 2
       /\ notebook'.open => notebook'.channel = "Changes" \/ (notebook'.channel = "Team" /\ notebook'.index = 1)

(* Projects, payloads and first turns differ only in name.                 *)
FirstThings ==
  /\ rows = Empty => \A w \in DOMAIN rows' : rows'[w].office = 1
  /\ items = {} => \A x \in items' : x.payload = 1
  /\ latest = Empty => \A w \in DOMAIN latest' : latest'[w].id = 1

Observing ==
  /\ UNCHANGED <<navVars, presses, changes>>
  /\ \/ /\ WorldPart
        /\ UNCHANGED <<storeVars, sourceVars, queue, pendingVars, tailVars, presenterVars,
                       claudeVars>>
     \/ /\ part = "codex" /\ CodexNext /\ FirstThings
        /\ UNCHANGED <<pendingVars, tailVars, presenterVars, claudeVars>>
     \/ /\ part = "pending" /\ PendingNext
        /\ UNCHANGED <<codexVars, tailVars, presenterVars, claudeVars>>
     \/ /\ part = "tail" /\ TailNext
        /\ UNCHANGED <<codexVars, pendingVars, presenterVars, claudeVars>>
     \/ /\ part = "screen" /\ PresenterNext
        /\ (drawn' # Nothing /\ drawn'.area = {1, 2}) => drawn'.actions = 1
        /\ UNCHANGED <<codexVars, pendingVars, tailVars, claudeVars>>
     \/ /\ part = "claude" /\ ClaudeNext /\ Cardinality(WrittenLines') <= 3
        /\ UNCHANGED <<codexVars, pendingVars, tailVars, presenterVars>>

MCNext ==
  /\ UNCHANGED part
  /\ Observing \/ (Visiting /\ UNCHANGED observedVars)

MCSpec == MCInit /\ [][MCNext]_mcVars

=============================================================================
