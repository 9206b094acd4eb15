---------------------------- MODULE ClaudeRoster ----------------------------
(***************************************************************************)
(* Who is at work, as the Claude collector tells it (claude.rs: discover,  *)
(* poll, roster_events, resolve_collaboration): transcripts of a session   *)
(* and of its agents become recent, grow and grow old in any order between *)
(* two polls; an agent may be known by its file's name before a line says  *)
(* its ID; which conversation started which agent is known only when the   *)
(* call of one transcript and the link of another have both been read.     *)
(*                                                                         *)
(* A poll reads of each file what is there when it comes to it: any prefix *)
(* of the lines not read yet.  TranscriptTail has the reading of one file. *)
(***************************************************************************)
EXTENDS Integers, Sequences, FiniteSets, FiniteSetsExt

CONSTANTS
  Files,           \* files of one session, as numbers: the session's own is the least
  Correlations,    \* IDs of the calls that start agents
  DelegationLimit, \* remembered calls (4096)
  Lines,           \* what a line may say: the ID of its agent, a call for one, a link to a call
  MaxTranscript,   \* bounds the lines of a transcript
  NoOne

ASSUME ClaudeAssumption ==
  /\ Lines \subseteq [agent : BOOLEAN, call : Correlations \cup {NoOne},
                      link : Correlations \cup {NoOne}]
  /\ Files \subseteq Nat /\ NoOne \notin Correlations \cup [file : Files, named : BOOLEAN]
  /\ NoOne \notin Nat /\ DelegationLimit \in Nat /\ MaxTranscript \in Nat

VARIABLES
  transcripts, \* the lines of each transcript
  recent,      \* transcripts modified within active_within
  reading,     \* files: the last line that was read, 0 before the first
  memberships, \* agents -> the call their transcript links to
  delegations, \* calls -> who made them (delegations and delegation_events)
  seated,      \* the office: workers seen and not left
  joined,      \* the office: delegations between workers
  strays,      \* ghost: workers seated when the source became unavailable
  forgotten    \* ghost: calls dropped at DelegationLimit

claudeVars == <<transcripts, recent, reading, memberships, delegations, seated, joined, strays,
                forgotten>>

Main == CHOOSE f \in Files : \A g \in Files : f <= g

(* The ID of an agent is in its lines or, until one has it, the file name. *)
Names == [file : Files, named : BOOLEAN]

CalledBy(c) == {f \in Files : \E i \in DOMAIN transcripts[f] : transcripts[f][i].call = c}

ClaudeInit ==
  /\ transcripts = [f \in Files |-> <<>>] /\ recent = {}
  /\ reading = [f \in Files |-> NoOne]
  /\ memberships = [w \in Names |-> NoOne]
  /\ delegations = [c \in Correlations |-> NoOne]
  /\ seated = {} /\ joined = {}
  /\ strays = {} /\ forgotten = {}

-----------------------------------------------------------------------------
(* Claude.  A call has an ID of its own; an agent is linked to a call of a *)
(* conversation that is older than it.                                     *)
WriteLine(f, line) ==
  /\ Len(transcripts[f]) < MaxTranscript
  /\ line.call # NoOne => CalledBy(line.call) = {}
  /\ line.link # NoOne => \E g \in CalledBy(line.link) : g < f
  /\ f = Main => ~line.agent
  /\ transcripts' = [transcripts EXCEPT ![f] = Append(@, line)]
  /\ recent' = recent \cup {f}
  /\ UNCHANGED <<reading, memberships, delegations, seated, joined, strays, forgotten>>

(* A transcript grows older than active_within, or is deleted.             *)
GrowOld(f) ==
  /\ f \in recent /\ recent' = recent \ {f}
  /\ UNCHANGED <<transcripts, reading, memberships, delegations, seated, joined, strays,
                 forgotten>>

-----------------------------------------------------------------------------
(* What the lines up to i say.                                             *)
NameAt(f, i) == [file |-> f, named |-> \E j \in 1..i : transcripts[f][j].agent]

LinkAt(f, i) ==
  LET linked == {j \in 1..i : transcripts[f][j].link # NoOne}
  IN IF linked = {} THEN NoOne ELSE transcripts[f][Max(linked)].link

NameOf(files, f) == NameAt(f, files[f])

Followed(files) == {f \in Files : files[f] # NoOne}

(* roster_events: the workers of the files that have said something.       *)
Rostered(files) == {NameOf(files, f) : f \in {g \in Followed(files) : files[g] > 0}}

(* Wrong: who was there before is asked after the files that are gone are. *)
PreviousTooLate(files) == Rostered([f \in Files |-> IF f \in recent THEN files[f] ELSE NoOne])

Previous(files) == Rostered(files)

(* discover: files that grew old are dropped; one that is new, or back, is *)
(* read from its beginning (FileCursor::new).                              *)
Discovered ==
  [f \in Files |->
     IF f \notin recent THEN NoOne
     ELSE IF reading[f] # NoOne THEN reading[f]
     ELSE 0]

(* Each file is read up to some line.                                      *)
Readings(files) ==
  {[f \in Files |->
      IF files[f] = NoOne THEN NoOne ELSE upto[f]] :
   upto \in {u \in [Files -> 0..MaxTranscript] : \A f \in Files :
                u[f] \in IF files[f] = NoOne THEN {0} ELSE files[f]..Len(transcripts[f])}}

(* A worker leaves when its transcript begins to go by another ID; the one *)
(* of the last line is seen.                                               *)
Renamed(old, new) ==
  UNION {{NameAt(f, i) : i \in 1..new[f]}
         \ {NameOf(new, f)} : f \in {g \in Followed(new) : new[g] > old[g]}}

Heard(old, new) ==
  {NameOf(new, f) : f \in {g \in Followed(new) : new[g] > old[g]}}

-----------------------------------------------------------------------------
(* resolve_collaboration.  Each line repeats the link of its transcript.   *)
Linked(old, new) ==
  [w \in Names |->
     LET f == w.file
         said == IF new[f] = NoOne THEN {}
                 ELSE {i \in (old[f] + 1)..new[f] : NameAt(f, i) = w}
     IN IF said = {} THEN memberships[w] ELSE LinkAt(f, Max(said))]

Called(old, new) ==
  [c \in Correlations |->
     LET said(f) == {i \in (old[f] + 1)..new[f] : transcripts[f][i].call = c}
         callers == {f \in Followed(new) : said(f) # {}}
     IN IF callers = {} THEN delegations[c]
        ELSE LET caller == CHOOSE f \in callers : TRUE
             IN NameAt(caller, CHOOSE i \in said(caller) : TRUE)]

TooMany(called, live) ==
  LET kept == {c \in Correlations : called[c] \in live}
  IN IF Cardinality(kept) > DelegationLimit THEN kept ELSE {}

(* Wrong: a call is remembered for one poll.                               *)
RememberedOnce(called, live) == [c \in Correlations |-> NoOne]

(* Calls are remembered while who made them is there, and all of them are  *)
(* forgotten when there are too many.                                      *)
CallsKept(called, live) ==
  LET kept == [c \in Correlations |-> IF called[c] \in live THEN called[c] ELSE NoOne]
  IN IF TooMany(called, live) = {} THEN kept ELSE [c \in Correlations |-> NoOne]

(* poll, with the projects readable.                                       *)
PollClaude ==
  LET old == Discovered
  IN \E new \in Readings(old) :
       LET linked == Linked(old, new)
           called == Called(old, new)
           live == {NameOf(new, f) : f \in Followed(new)}
           children(c) == {w \in Names : linked[w] = c}
           here == Heard(old, new)
       IN /\ reading' = new
          /\ seated' = ((seated \ Renamed(old, new)) \cup here)
                       \ (Previous(reading) \ Rostered(new))
          /\ joined' = joined \cup
               UNION {{[parent |-> called[c], child |-> w] : w \in children(c) \ {called[c]}} :
                      c \in {d \in Correlations : called[d] # NoOne}}
          /\ memberships' = [w \in Names |-> IF w \in live THEN linked[w] ELSE NoOne]
          /\ delegations' = CallsKept(called, live)
          /\ forgotten' = forgotten \cup TooMany(called, live)
          /\ strays' = (strays \cap seated') \ here
          /\ UNCHANGED <<transcripts, recent>>

(* poll, with the projects gone or unreadable: all is forgotten, and whom  *)
(* the office has seen stays.                                              *)
PollUnavailable ==
  /\ reading' = [f \in Files |-> NoOne]
  /\ memberships' = [w \in Names |-> NoOne]
  /\ delegations' = [c \in Correlations |-> NoOne]
  /\ strays' = seated
  /\ UNCHANGED <<transcripts, recent, seated, joined, forgotten>>

ClaudeNext ==
  \/ \E f \in Files, line \in Lines : WriteLine(f, line)
  \/ \E f \in Files : GrowOld(f)
  \/ PollClaude \/ PollUnavailable

ClaudeSpec == ClaudeInit /\ [][ClaudeNext]_claudeVars

-----------------------------------------------------------------------------
(* "Collectors own the roster": whoever the collector follows sits in the  *)
(* office, under one name, and nobody else does, but those it lost from    *)
(* sight when the projects could not be read (no later poll lets them go). *)
SessionsFollowed ==
  /\ Rostered(reading) \subseteq seated
  /\ seated \subseteq Rostered(reading) \cup strays
  /\ \A v, w \in seated \ strays : v.file = w.file => v = w

CallsOf(f) ==
  {transcripts[f][i].call : i \in {j \in 1..reading[f] :
                               NameAt(f, j) = NameOf(reading, f)}}

(* Whichever of two transcripts is read first, in whichever polls: when    *)
(* one is linked to a call of the other, the office knows who delegated to *)
(* whom (resolve_collaboration joins what earlier polls have read).        *)
DelegationsJoined ==
  \A f, g \in Followed(reading) :
    LET c == LinkAt(f, reading[f])
    IN f # g /\ c # NoOne /\ c \in CallsOf(g) \ forgotten =>
         [parent |-> NameOf(reading, g), child |-> NameOf(reading, f)] \in joined

=============================================================================
