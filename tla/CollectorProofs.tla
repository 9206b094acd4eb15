--------------------------- MODULE CollectorProofs ---------------------------
(***************************************************************************)
(* The Claude collector, for any transcripts, any tail, any number of      *)
(* correlations and any limits: the office seats who is followed           *)
(* (SessionsFollowed), and knows who delegated to whom as far as the       *)
(* collector remembers (DelegationsJoined); the accounts of the pending    *)
(* store are exact (AccountsExact), and it loses no call in silence        *)
(* (LossAdmitted); the lines of a transcript are read exactly, however it  *)
(* is written (TailExact).                                                 *)
(*                                                                         *)
(* The argument for the roster.  Reading only goes on from where it was    *)
(* (Goes) and transcripts only grow, so what was read keeps saying the     *)
(* same (Unaltered), and a transcript without a new line keeps the name it *)
(* had.  A call is made once (CallsOnce); so what is remembered of links   *)
(* and calls is what the lines that were read say (LinksKnown, CallsKnown), *)
(* and a poll that reads the second half of a pair finds the first one.    *)
(*                                                                         *)
(* The argument for the store.  Bytes add up in whatever order they are    *)
(* added (BytesAddUp), so what goes from the entries goes from the         *)
(* accounts.  An eviction keeps them exact and admits the loss             *)
(* (EvictKeepsAccounts); it leaves fewer entries, so the loops that make   *)
(* room end with room (CursorRoomMade, SourceRoomMade).  Ordinals that are *)
(* ranked anew stay distinct and below the next one                        *)
(* (RebasedKeepsAccounts).  PendingInv says this of the store together     *)
(* with the limits, the epochs and the calls that wait.                    *)
(*                                                                         *)
(* The argument for the lines.  One more byte ends one more line or none   *)
(* (LinesGrow); so a reader that holds what follows the last newline goes  *)
(* on to hold it (ByteConsumed), a chunk at a time too (ChunkConsumed).    *)
(* What was read agrees with the file on the tail before the offset: when  *)
(* it is opened because the checkpoint says so (OpenFileKeeps), and as     *)
(* long as it is only appended to (AgreesStill).  A checkpoint that says   *)
(* something else belongs to a file that is known to be gone (Waiting).    *)
(***************************************************************************)
EXTENDS ClaudeRoster, PendingStore, TranscriptTail, TLAPS, SequenceTheorems,
        FiniteSetTheorems, WellFoundedInduction

(* Numbers have a least one.                                               *)
LEMMA LeastOf ==
  ASSUME NEW T \in SUBSET Nat, T # {}
  PROVE  \E n \in T : \A m \in T : n <= m
<1>1. PICK n \in T : \A m \in T : ~ (<<m, n>> \in OpToRel(<, Nat))
  BY WFMin, NatLessThanWellFounded
<1>2. ASSUME NEW m \in T PROVE n <= m
  <2>1. <<m, n>> \in Nat \X Nat /\ ~(<<m, n>> \in OpToRel(<, Nat))
    BY <1>1
  <2>2. ~(m < n)
    BY <2>1 DEF OpToRel
  <2>3. QED
    BY <2>2
<1>3. QED
  BY <1>2

(* A set of numbers between two bounds has a greatest one.                 *)
LEMMA GreatestOf ==
  ASSUME NEW S, S # {}, NEW b \in Nat, \A x \in S : x \in Nat /\ x <= b
  PROVE  Max(S) \in S /\ \A x \in S : x <= Max(S)
<1> DEFINE below == {b - x : x \in S}
<1>1. below \in SUBSET Nat /\ below # {}
  OBVIOUS
<1>2. PICK n \in below : \A m \in below : n <= m
  BY <1>1, LeastOf
<1>3. PICK x \in S : n = b - x
  BY <1>2
<1>4. \A y \in S : y <= x
  BY <1>2, <1>3
<1>5. \E y \in S : \A z \in S : y >= z
  BY <1>4
<1>6. QED
  BY <1>5 DEF Max

(* Transcripts, and what was read of them.                                 *)
ReadsOK ==
  /\ transcripts \in [Files -> Seq(Lines)]
  /\ reading \in [Files -> Nat \cup {NoOne}]
  /\ \A f \in Files : /\ Len(transcripts[f]) <= MaxTranscript
                      /\ reading[f] # NoOne => reading[f] <= Len(transcripts[f])

(* A poll goes on from where it was, or begins at the beginning.           *)
Goes(old, new) ==
  /\ new \in [Files -> Nat \cup {NoOne}]
  /\ \A f \in Files :
       /\ new[f] # NoOne => old[f] # NoOne
       /\ old[f] # NoOne => /\ old[f] \in Nat /\ new[f] \in Nat /\ new[f] # NoOne
                            /\ old[f] <= new[f] /\ new[f] <= Len(transcripts[f])
                            /\ reading[f] # NoOne => old[f] = reading[f]
                            /\ reading[f] = NoOne => old[f] = 0

(* What poll reads, of any number of the lines that are there.             *)
LEMMA PollGoes ==
  ASSUME ReadsOK, NEW new \in Readings(Discovered)
  PROVE  Goes(Discovered, new)
<1> DEFINE old == Discovered
<1>1. ASSUME NEW f \in Files, old[f] # NoOne
      PROVE  /\ old[f] \in Nat /\ old[f] <= Len(transcripts[f])
             /\ reading[f] # NoOne => old[f] = reading[f]
             /\ reading[f] = NoOne => old[f] = 0
  <2>1. old[f] = IF reading[f] # NoOne THEN reading[f] ELSE 0
    BY <1>1 DEF Discovered
  <2>2. Len(transcripts[f]) \in Nat
    BY DEF ReadsOK
  <2> HIDE DEF old
  <2>3. QED
    BY <2>1, <2>2 DEF ReadsOK
<1> HIDE DEF old
<1>2. PICK upto \in [Files -> 0..MaxTranscript] :
        /\ \A f \in Files : upto[f] \in IF old[f] = NoOne THEN {0} ELSE old[f]..Len(transcripts[f])
        /\ new = [f \in Files |-> IF old[f] = NoOne THEN NoOne ELSE upto[f]]
  BY DEF Readings, old
<1>3. ASSUME NEW f \in Files
      PROVE  /\ old[f] = NoOne => new[f] = NoOne
             /\ old[f] # NoOne => /\ new[f] \in Nat
                                  /\ old[f] <= new[f] /\ new[f] <= Len(transcripts[f])
  <2>1. CASE old[f] = NoOne
    BY <1>2, <2>1
  <2>2. CASE old[f] # NoOne
    <3>1. new[f] = upto[f] /\ upto[f] \in old[f]..Len(transcripts[f])
          /\ upto[f] \in 0..MaxTranscript
      BY <1>2, <2>2
    <3>2. MaxTranscript \in Nat /\ Len(transcripts[f]) \in Nat
      BY ClaudeAssumption DEF ReadsOK
    <3>3. old[f] \in Nat
      BY <1>1, <2>2
    <3>4. QED
      BY <2>2, <3>1, <3>2, <3>3
  <2>3. QED
    BY <2>1, <2>2
<1>4. new \in [Files -> Nat \cup {NoOne}]
  BY <1>2, <1>3
<1>5. \A s \in Nat : s # NoOne
  BY ClaudeAssumption
<1>6. QED
  BY <1>1, <1>3, <1>4, <1>5 DEF Goes, old

(* Transcripts only grow at their end.                                     *)
LEMMA TranscriptsGrow ==
  ASSUME ReadsOK, NEW f \in Files, NEW line \in Lines, WriteLine(f, line)
  PROVE  /\ ReadsOK'
         /\ \A g \in Files : /\ Len(transcripts[g]) <= Len(transcripts'[g])
                             /\ \A i \in 1..Len(transcripts[g]) : transcripts'[g][i] = transcripts[g][i]
<1>1. /\ transcripts' = [transcripts EXCEPT ![f] = Append(@, line)] /\ reading' = reading
      /\ Len(transcripts[f]) < MaxTranscript
  BY DEF WriteLine
<1>2. transcripts[f] \in Seq(Lines) /\ Len(transcripts[f]) \in Nat /\ MaxTranscript \in Nat
  BY ClaudeAssumption DEF ReadsOK
<1> DEFINE longer == Append(transcripts[f], line)
<1>3. /\ longer \in Seq(Lines) /\ Len(longer) = Len(transcripts[f]) + 1
      /\ \A i \in 1..Len(transcripts[f]) : longer[i] = transcripts[f][i]
  BY <1>2
<1> HIDE DEF longer
<1>4. transcripts' = [transcripts EXCEPT ![f] = longer]
  BY <1>1 DEF longer
<1>5. \A g \in Files : transcripts'[g] = IF g = f THEN longer ELSE transcripts[g]
  BY <1>4 DEF ReadsOK
<1>6. transcripts' \in [Files -> Seq(Lines)]
  BY <1>3, <1>4 DEF ReadsOK
<1>7. ASSUME NEW g \in Files
      PROVE  /\ Len(transcripts[g]) \in Nat /\ Len(transcripts[g]) <= Len(transcripts'[g])
             /\ Len(transcripts'[g]) <= MaxTranscript
             /\ \A i \in 1..Len(transcripts[g]) : transcripts'[g][i] = transcripts[g][i]
  <2>1. CASE g = f
    BY <1>1, <1>2, <1>3, <1>5, <2>1
  <2>2. CASE g # f
    <3>1. transcripts'[g] = transcripts[g] /\ Len(transcripts[g]) \in Nat
      BY <1>5, <2>2 DEF ReadsOK
    <3>2. QED
      BY <3>1 DEF ReadsOK
  <2>3. QED
    BY <2>1, <2>2
<1>8. ASSUME NEW g \in Files, reading[g] # NoOne
      PROVE  reading[g] <= Len(transcripts'[g])
  <2>1. reading[g] \in Nat /\ reading[g] <= Len(transcripts[g])
    BY <1>8 DEF ReadsOK
  <2>2. reading[g] \in Nat /\ Len(transcripts[g]) \in Nat /\ Len(transcripts'[g]) \in Nat
    BY <1>6, <1>7, <2>1
  <2>3. QED
    BY <1>7, <2>1, <2>2
<1>9. ReadsOK'
  BY <1>1, <1>6, <1>7, <1>8 DEF ReadsOK
<1>10. QED
  BY <1>7, <1>9

(* What was read stays what it says.                                       *)
Unaltered ==
  /\ \A f \in Files : \A i \in Nat :
       i <= Len(transcripts[f]) => /\ NameAt(f, i)' = NameAt(f, i)
                                   /\ LinkAt(f, i)' = LinkAt(f, i)
  /\ \A f \in Files : \A i \in 1..Len(transcripts[f]) : transcripts'[f][i] = transcripts[f][i]
  /\ UNCHANGED reading

(* Names and links are those of lines that were read already.              *)
LEMMA ReadStays ==
  ASSUME ReadsOK, ReadsOK', UNCHANGED reading,
         \A f \in Files : \A i \in 1..Len(transcripts[f]) : transcripts'[f][i] = transcripts[f][i]
  PROVE  Unaltered
<1>1. ASSUME NEW f \in Files, NEW i \in Nat, i <= Len(transcripts[f])
      PROVE  /\ NameAt(f, i)' = NameAt(f, i)
             /\ LinkAt(f, i)' = LinkAt(f, i)
  <2>1. \A j \in 1..i : j \in 1..Len(transcripts[f]) /\ transcripts'[f][j] = transcripts[f][j]
    <3>1. Len(transcripts[f]) \in Nat
      BY DEF ReadsOK
    <3>2. QED
      BY <1>1, <3>1
  <2>2. NameAt(f, i)' = NameAt(f, i)
    BY <2>1 DEF NameAt
  <2> DEFINE linked == {j \in 1..i : transcripts[f][j].link # NoOne}
             later == {j \in 1..i : transcripts'[f][j].link # NoOne}
  <2>3. later = linked
    BY <2>1
  <2>4. /\ LinkAt(f, i)' = IF later = {} THEN NoOne ELSE transcripts'[f][Max(later)].link
        /\ LinkAt(f, i) = IF linked = {} THEN NoOne ELSE transcripts[f][Max(linked)].link
    BY DEF LinkAt
  <2>5. ASSUME linked # {} PROVE Max(linked) \in linked
    <3>1. \A j \in linked : j \in Nat /\ j <= i
      OBVIOUS
    <3> HIDE DEF linked
    <3>2. QED
      BY <2>5, <3>1, GreatestOf
  <2>6. linked # {} => transcripts'[f][Max(linked)] = transcripts[f][Max(linked)]
    BY <2>1, <2>5
  <2> HIDE DEF linked, later
  <2>7. QED
    BY <2>2, <2>3, <2>4, <2>6
<1>2. QED
  BY <1>1 DEF Unaltered

(* Nobody is called otherwise while nothing is read.                       *)
LEMMA SameRoster ==
  ASSUME ReadsOK, Unaltered
  PROVE  /\ Rostered(reading)' = Rostered(reading) /\ Followed(reading)' = Followed(reading)
         /\ \A f \in Followed(reading) :
              /\ NameOf(reading, f)' = NameOf(reading, f)
              /\ LinkAt(f, reading[f])' = LinkAt(f, reading[f])
<1>1. reading' = reading
  BY DEF Unaltered
<1>2. Followed(reading)' = Followed(reading)
  BY <1>1 DEF Followed
<1>3. ASSUME NEW f \in Followed(reading)
      PROVE  /\ NameOf(reading, f)' = NameOf(reading, f)
             /\ LinkAt(f, reading[f])' = LinkAt(f, reading[f])
  <2>1. f \in Files /\ reading[f] # NoOne /\ reading[f] \in Nat
    BY DEF ReadsOK, Followed
  <2>2. reading[f] \in Nat /\ reading[f] <= Len(transcripts[f])
    BY <2>1 DEF ReadsOK
  <2> DEFINE i == reading[f]
  <2>3. NameAt(f, i)' = NameAt(f, i) /\ LinkAt(f, i)' = LinkAt(f, i)
    BY <2>1, <2>2 DEF Unaltered
  <2>4. QED
    BY <1>1, <2>3 DEF NameOf
<1>4. Rostered(reading)' = Rostered(reading)
  BY <1>1, <1>2, <1>3 DEF Rostered
<1>5. QED
  BY <1>2, <1>3, <1>4

-----------------------------------------------------------------------------
(* A poll that has read so far.                                            *)
PollTo(new) ==
  LET old == Discovered
      linked == Linked(old, new)
      called == Called(old, new)
      live == {NameOf(new, f) : f \in Followed(new)}
  IN /\ reading' = new /\ UNCHANGED <<transcripts, recent>>
     /\ seated' = ((seated \ Renamed(old, new)) \cup Heard(old, new))
                  \ (Previous(reading) \ Rostered(new))
     /\ strays' = (strays \cap seated') \ Heard(old, new)
     /\ joined' = joined \cup
          UNION {{[parent |-> called[c], child |-> w] : w \in {v \in Names : linked[v] = c} \ {called[c]}} :
                 c \in {d \in Correlations : called[d] # NoOne}}
     /\ memberships' = [w \in Names |-> IF w \in live THEN linked[w] ELSE NoOne]
     /\ delegations' = CallsKept(called, live)
     /\ forgotten' = forgotten \cup TooMany(called, live)

(* A poll has read so far, at some length for each transcript.             *)
LEMMA PollReadsTo ==
  ASSUME ReadsOK, PollClaude
  PROVE  \E new : Goes(Discovered, new) /\ PollTo(new)
<1>1. PICK new \in Readings(Discovered) : PollTo(new)
  BY DEF PollClaude, PollTo
<1>2. Goes(Discovered, new)
  BY PollGoes
<1>3. QED
  BY <1>1, <1>2

(* The reading is sound after a poll as well.                              *)
LEMMA PollKeepsReads ==
  ASSUME ReadsOK, NEW new, Goes(Discovered, new), PollTo(new)
  PROVE  ReadsOK'
<1>1. reading' = new /\ transcripts' = transcripts
  BY DEF PollTo
<1>2. ASSUME NEW f \in Files, new[f] # NoOne
      PROVE  new[f] <= Len(transcripts[f])
  <2> DEFINE old == Discovered[f]
  <2>1. /\ old \in Nat /\ new[f] \in Nat
        /\ old <= new[f] /\ new[f] <= Len(transcripts[f])
    BY <1>2 DEF Goes
  <2> HIDE DEF old
  <2>2. QED
    BY <2>1
<1>3. new \in [Files -> Nat \cup {NoOne}]
  BY DEF Goes
<1>4. QED
  BY <1>1, <1>2, <1>3 DEF ReadsOK

(* Sessions: the workers that the collector follows, and the office.       *)
SessionsInv ==
  Rostered(reading) \subseteq seated /\ seated \subseteq Rostered(reading) \cup strays

(* A worker that is still called what it was keeps its seat, the others    *)
(* are seen or left (roster_events).                                       *)
LEMMA PollKeepsSessions ==
  ASSUME ReadsOK, SessionsInv, NEW new, Goes(Discovered, new), PollTo(new)
  PROVE  SessionsInv'
<1> DEFINE old == Discovered
           heard == Heard(old, new)
           renamed == Renamed(old, new)
           gone == Previous(reading) \ Rostered(new)
<1>1. /\ seated' = ((seated \ renamed) \cup heard) \ gone
      /\ strays' = (strays \cap seated') \ heard
      /\ Rostered(reading)' = Rostered(new)
  <2>1. Rostered(new)' = Rostered(new)
    BY DEF PollTo, Rostered, Followed, NameOf, NameAt
  <2>2. QED
    BY <2>1 DEF PollTo, Rostered
<1>2. ASSUME NEW f \in Files, new[f] # NoOne
      PROVE  /\ old[f] \in Nat /\ new[f] \in Nat /\ old[f] <= new[f]
             /\ reading[f] # NoOne => old[f] = reading[f]
             /\ reading[f] = NoOne => old[f] = 0
  <2>1. old[f] # NoOne
    BY <1>2 DEF Goes
  <2>2. old[f] \in Nat /\ new[f] \in Nat
    BY <2>1 DEF Goes
  <2>3. QED
    BY <2>1, <2>2 DEF Goes
<1> HIDE DEF old
<1>3. heard \subseteq Rostered(new)
  <2>1. ASSUME NEW f \in Followed(new), new[f] > old[f]
        PROVE  NameOf(new, f) \in Rostered(new)
    <3>1. new[f] > 0
      BY <1>2, <2>1 DEF Followed
    <3>2. QED
      BY <3>1 DEF Rostered
  <2>2. QED
    BY <2>1 DEF Heard
<1>4. ASSUME NEW f \in Followed(new), new[f] > 0, ~(new[f] > old[f])
      PROVE  NameOf(new, f) \in seated /\ NameOf(new, f) \notin renamed
  <2>1. f \in Files /\ new[f] # NoOne
    BY DEF Followed
  <2>2. new[f] = old[f] /\ reading[f] # NoOne /\ old[f] = reading[f]
    BY <1>2, <1>4, <2>1
  <2>3. NameOf(new, f) = NameOf(reading, f) /\ reading[f] > 0
    BY <1>2, <1>4, <2>1, <2>2 DEF NameOf
  <2>4. NameOf(new, f) \in Rostered(reading)
    BY <2>1, <2>2, <2>3 DEF Rostered, Followed
  <2>5. \A w \in renamed : \E g \in Followed(new) : new[g] > old[g] /\ w.file = g
    BY DEF Renamed, NameAt
  <2>6. NameOf(new, f).file = f
    BY DEF NameOf, NameAt
  <2>7. QED
    BY <1>4, <2>4, <2>5, <2>6 DEF SessionsInv
<1>5. Rostered(new) \subseteq seated'
  <2>1. ASSUME NEW f \in Followed(new), new[f] > 0
        PROVE  NameOf(new, f) \in seated'
    <3>1. NameOf(new, f) \in Rostered(new)
      BY <2>1 DEF Rostered
    <3>2. NameOf(new, f) \in (seated \ renamed) \cup heard
      BY <1>4, <2>1 DEF Heard
    <3>3. QED
      BY <1>1, <3>1, <3>2
  <2>2. QED
    BY <2>1 DEF Rostered
<1>6. seated' \subseteq Rostered(new) \cup strays'
  <2>1. ASSUME NEW w \in seated', w \notin Rostered(new) PROVE w \in strays'
    <3>1. w \notin heard
      BY <1>3, <2>1
    <3>2. w \in seated /\ w \notin Rostered(reading)
      BY <1>1, <2>1, <3>1 DEF Previous
    <3>3. w \in strays
      BY <3>2 DEF SessionsInv
    <3>4. QED
      BY <1>1, <2>1, <3>1, <3>3
  <2>2. QED
    BY <2>1
<1>7. QED
  BY <1>1, <1>5, <1>6 DEF SessionsInv

(* A worker has one name.                                                  *)
LEMMA SessionsMean == SessionsInv => SessionsFollowed
<1> SUFFICES ASSUME SessionsInv PROVE SessionsFollowed
  OBVIOUS
<1>1. ASSUME NEW v \in Rostered(reading), NEW w \in Rostered(reading), v.file = w.file
      PROVE  v = w
  <2>1. \A x \in Rostered(reading) : \E f : x = NameOf(reading, f)
    BY DEF Rostered
  <2>2. \A f : NameOf(reading, f).file = f
    BY DEF NameOf, NameAt
  <2>3. QED
    BY <1>1, <2>1, <2>2
<1>2. QED
  BY <1>1 DEF SessionsInv, SessionsFollowed

(* The collector's reading and the office, and nobody else's.              *)
CollectorInv == ReadsOK /\ SessionsInv

(* Nothing is read at first, and nobody is seated.                         *)
LEMMA CollectorInit == ClaudeInit => CollectorInv
<1> SUFFICES ASSUME ClaudeInit PROVE CollectorInv
  OBVIOUS
<1>1. ReadsOK
  <2>1. \A f \in Files : transcripts[f] = <<>> /\ reading[f] = NoOne
    BY DEF ClaudeInit
  <2>2. <<>> \in Seq(Lines) /\ Len(<<>>) = 0
    OBVIOUS
  <2>3. MaxTranscript \in Nat
    BY ClaudeAssumption
  <2>4. QED
    BY <2>1, <2>2, <2>3 DEF ClaudeInit, ReadsOK
<1>2. SessionsInv
  <2>1. Rostered(reading) = {} /\ seated = {}
    BY DEF ClaudeInit, Rostered, Followed
  <2>2. QED
    BY <2>1 DEF SessionsInv
<1>3. QED
  BY <1>1, <1>2 DEF CollectorInv

(* Only a poll, and stores that cannot be read, change who is followed.    *)
LEMMA CollectorStep == CollectorInv /\ [ClaudeNext]_claudeVars => CollectorInv'
<1> SUFFICES ASSUME CollectorInv, [ClaudeNext]_claudeVars PROVE CollectorInv'
  OBVIOUS
<1>a. ReadsOK /\ SessionsInv
  BY DEF CollectorInv
<1>b. ASSUME Unaltered, ReadsOK', UNCHANGED <<seated, strays>> PROVE CollectorInv'
  BY <1>a, <1>b, SameRoster DEF CollectorInv, SessionsInv
<1>1. ASSUME NEW f \in Files, NEW line \in Lines, WriteLine(f, line) PROVE CollectorInv'
  <2>1. UNCHANGED <<reading, seated, strays>>
    BY <1>1 DEF WriteLine
  <2>2. QED
    BY <1>a, <1>b, <1>1, <2>1, TranscriptsGrow, ReadStays
<1>2. ASSUME UNCHANGED <<transcripts, reading, seated, strays>> PROVE CollectorInv'
  <2>1. ReadsOK'
    BY <1>a, <1>2 DEF ReadsOK
  <2>2. QED
    BY <1>a, <1>b, <1>2, <2>1, ReadStays
<1>3. CASE PollClaude
  BY <1>a, <1>3, PollReadsTo, PollKeepsReads, PollKeepsSessions DEF CollectorInv
<1>4. CASE PollUnavailable
  <2>1. /\ reading' = [f \in Files |-> NoOne] /\ strays' = seated
        /\ UNCHANGED <<transcripts, seated>>
    BY <1>4 DEF PollUnavailable
  <2>2. ReadsOK'
    BY <1>a, <2>1 DEF ReadsOK
  <2>3. Rostered(reading)' = {}
    BY <2>1 DEF Rostered, Followed
  <2>4. QED
    BY <2>1, <2>2, <2>3 DEF CollectorInv, SessionsInv
<1>5. QED
  BY <1>1, <1>2, <1>3, <1>4 DEF ClaudeNext, claudeVars, GrowOld

(* SessionsFollowed (roster_events, poll): the office and the transcripts  *)
(* that are followed name the same workers.                                *)
THEOREM SessionsFollowedCorrect == ClaudeSpec => []SessionsFollowed
<1>1. CollectorInv => SessionsFollowed
  BY SessionsMean DEF CollectorInv
<1>2. QED
  BY CollectorInit, CollectorStep, <1>1, PTL DEF ClaudeSpec

-----------------------------------------------------------------------------
(* A call is made once.                                                    *)
CallsOnce ==
  \A f, g \in Files : \A i \in 1..Len(transcripts[f]), j \in 1..Len(transcripts[g]) :
    transcripts[f][i].call # NoOne /\ transcripts[f][i].call = transcripts[g][j].call
      => f = g /\ i = j

(* What is remembered of the links and calls that were read.               *)
LinksKnown ==
  /\ \A w \in Names : memberships[w] # NoOne => \E f \in Followed(reading) : w = NameOf(reading, f)
  /\ \A f \in Followed(reading) :
       memberships[NameOf(reading, f)] = LinkAt(f, reading[f])

CallsKnown ==
  \A f \in Followed(reading) : \A c \in CallsOf(f) \ forgotten :
    c # NoOne => delegations[c] = NameOf(reading, f)

(* What the lines say.                                                     *)
LEMMA LineTyped ==
  ASSUME ReadsOK, NEW f \in Files, NEW i \in 1..Len(transcripts[f])
  PROVE  /\ transcripts[f][i] \in Lines /\ transcripts[f][i].agent \in BOOLEAN
         /\ transcripts[f][i].call \in Correlations \cup {NoOne}
         /\ transcripts[f][i].link \in Correlations \cup {NoOne}
<1>1. transcripts[f][i] \in Lines
  BY DEF ReadsOK
<1>2. QED
  BY <1>1, ClaudeAssumption

(* The bounds of what was read.                                            *)
LEMMA SpanIs ==
  ASSUME ReadsOK, NEW f \in Followed(reading)
  PROVE  /\ f \in Files /\ reading[f] \in Nat /\ reading[f] <= Len(transcripts[f])
         /\ Len(transcripts[f]) \in Nat
<1>1. f \in Files /\ reading[f] # NoOne /\ reading[f] \in Nat
  BY DEF ReadsOK, Followed
<1>2. QED
  BY <1>1 DEF ReadsOK

(* The bounds of what a poll reads.                                        *)
LEMMA NewSpanIs ==
  ASSUME ReadsOK, NEW new, Goes(Discovered, new), NEW f \in Followed(new)
  PROVE  LET old == Discovered
         IN /\ f \in Files /\ old[f] \in Nat
            /\ new[f] \in Nat /\ Len(transcripts[f]) \in Nat
            /\ old[f] <= new[f] /\ new[f] <= Len(transcripts[f])
            /\ Len(transcripts[f]) <= MaxTranscript
            /\ reading[f] # NoOne => old[f] = reading[f]
            /\ reading[f] = NoOne => old[f] = 0
<1> DEFINE old == Discovered
<1>1. f \in Files /\ new[f] # NoOne
  BY DEF Followed
<1>2. old[f] # NoOne
  BY <1>1 DEF Goes
<1>3. old[f] \in Nat /\ new[f] \in Nat
  BY <1>1, <1>2 DEF Goes
<1>4. transcripts[f] \in Seq(Lines) /\ Len(transcripts[f]) <= MaxTranscript
  BY <1>1 DEF ReadsOK
<1>5. QED
  BY <1>1, <1>2, <1>3, <1>4 DEF Goes

(* A name.                                                                 *)
LEMMA NamesAre ==
  ASSUME NEW f, NEW i
  PROVE  /\ NameAt(f, i).file = f
         /\ f \in Files => NameAt(f, i) \in Names /\ NameAt(f, i) # NoOne
<1>1. NameAt(f, i) = [file |-> f, named |-> \E j \in 1..i : transcripts[f][j].agent]
  BY DEF NameAt
<1> DEFINE named == \E j \in 1..i : transcripts[f][j].agent
<1>2. named \in BOOLEAN
  OBVIOUS
<1>3. NameAt(f, i) = [file |-> f, named |-> named]
  BY <1>1
<1> HIDE DEF named
<1>4. NameAt(f, i).file = f
  BY <1>3
<1>5. f \in Files => NameAt(f, i) \in Names
  BY <1>2, <1>3 DEF Names
<1>6. NoOne \notin Names
  BY ClaudeAssumption DEF Names
<1>7. QED
  BY <1>4, <1>5, <1>6

(* Once a line has said the ID of its agent, the name stays.               *)
LEMMA NameBetween ==
  ASSUME NEW f, NEW i \in Nat, NEW j \in Nat, NEW k \in Nat, i <= j, j <= k,
         NameAt(f, i) = NameAt(f, k)
  PROVE  NameAt(f, j) = NameAt(f, k)
<1> DEFINE named(n) == \E l \in 1..n : transcripts[f][l].agent
<1>1. \A n : NameAt(f, n) = [file |-> f, named |-> named(n)]
  BY DEF NameAt
<1>2. (named(i) => named(j)) /\ (named(j) => named(k))
  OBVIOUS
<1>3. named(i) \in BOOLEAN /\ named(j) \in BOOLEAN /\ named(k) \in BOOLEAN
  OBVIOUS
<1> HIDE DEF named
<1>4. named(i) = named(k)
  <2>1. NameAt(f, i).named = named(i) /\ NameAt(f, k).named = named(k)
    BY <1>1
  <2>2. QED
    BY <2>1
<1>5. named(j) = named(k)
  BY <1>2, <1>3, <1>4
<1>6. QED
  BY <1>1, <1>5

(* The link of a transcript that is read is the link that is remembered.   *)
LEMMA LinkedIs ==
  ASSUME ReadsOK, LinksKnown, NEW new, Goes(Discovered, new), NEW f \in Followed(new)
  PROVE  Linked(Discovered, new)[NameOf(new, f)] = LinkAt(f, new[f])
<1> DEFINE old == Discovered
           w == NameOf(new, f)
           said == {i \in (old[f] + 1)..new[f] : NameAt(f, i) = w}
<1>1. /\ f \in Files /\ old[f] \in Nat
      /\ new[f] \in Nat /\ Len(transcripts[f]) \in Nat
      /\ old[f] <= new[f] /\ new[f] <= Len(transcripts[f])
      /\ reading[f] # NoOne => old[f] = reading[f]
      /\ reading[f] = NoOne => old[f] = 0
  BY NewSpanIs
<1>2. w \in Names /\ w.file = f /\ w = NameAt(f, new[f])
  BY <1>1, NamesAre DEF NameOf
<1>3. new[f] # NoOne
  BY DEF Followed
<1> HIDE DEF old, w
<1>4. Linked(old, new)[w] = IF said = {} THEN memberships[w] ELSE LinkAt(f, Max(said))
  BY <1>2, <1>3 DEF Linked
<1>5. CASE new[f] > old[f]
  <2>1. new[f] \in said
    BY <1>1, <1>2, <1>5
  <2>2. \A x \in said : x \in Nat /\ x <= new[f]
    BY <1>1
  <2> HIDE DEF said
  <2>3. Max(said) \in said /\ \A x \in said : x <= Max(said)
    BY <1>1, <2>1, <2>2, GreatestOf
  <2>4. Max(said) = new[f]
    BY <1>1, <2>1, <2>2, <2>3
  <2>5. QED
    BY <1>4, <2>1, <2>4 DEF old, w
<1>6. CASE ~(new[f] > old[f])
  <2>1. new[f] = old[f]
    BY <1>1, <1>6
  <2>2. said = {}
    BY <1>1, <2>1
  <2>3. CASE reading[f] # NoOne
    <3>1. f \in Followed(reading) /\ old[f] = reading[f]
      BY <1>1, <2>3 DEF Followed
    <3>2. w = NameOf(reading, f)
      BY <1>1, <1>2, <2>1, <3>1 DEF NameOf
    <3>3. memberships[w] = LinkAt(f, reading[f])
      BY <3>1, <3>2 DEF LinksKnown
    <3>4. QED
      BY <1>1, <1>4, <2>1, <2>2, <3>1, <3>3 DEF old, w
  <2>4. CASE reading[f] = NoOne
    <3>1. memberships[w] = NoOne
      <4>1. \A g \in Followed(reading) : w # NameOf(reading, g)
        BY <1>2, <2>4, NamesAre DEF Followed, NameOf
      <4>2. QED
        BY <1>2, <4>1 DEF LinksKnown
    <3>2. new[f] = 0
      BY <1>1, <2>1, <2>4
    <3>3. LinkAt(f, new[f]) = NoOne
      BY <1>1, <3>2 DEF LinkAt
    <3>4. QED
      BY <1>4, <2>2, <3>1, <3>3 DEF old, w
  <2>5. QED
    BY <2>3, <2>4
<1>7. QED
  BY <1>5, <1>6

(* Who made a call that was read is who is remembered for it.              *)
LEMMA CalledIs ==
  ASSUME ReadsOK, CallsOnce, CallsKnown, NEW new, Goes(Discovered, new),
         NEW g \in Followed(new), NEW i \in 1..new[g],
         NameAt(g, i) = NameOf(new, g),
         transcripts[g][i].call # NoOne, transcripts[g][i].call \notin forgotten
  PROVE  Called(Discovered, new)[transcripts[g][i].call] = NameOf(new, g)
<1> DEFINE old == Discovered
           c == transcripts[g][i].call
           said(f) == {j \in (old[f] + 1)..new[f] : transcripts[f][j].call = c}
           callers == {f \in Followed(new) : said(f) # {}}
<1>1. \A f \in Followed(new) :
      /\ f \in Files /\ old[f] \in Nat
      /\ new[f] \in Nat /\ Len(transcripts[f]) \in Nat
      /\ old[f] <= new[f] /\ new[f] <= Len(transcripts[f])
      /\ reading[f] # NoOne => old[f] = reading[f]
      /\ reading[f] = NoOne => old[f] = 0
  BY NewSpanIs
<1>2. i \in 1..Len(transcripts[g]) /\ i \in Nat /\ g \in Files
  BY <1>1
<1>3. c \in Correlations
  BY <1>2, LineTyped
<1>4. ASSUME NEW f \in Followed(new), NEW j \in said(f) PROVE f = g /\ j = i
  <2>1. j \in 1..Len(transcripts[f]) /\ f \in Files /\ transcripts[f][j].call = c
    BY <1>1
  <2> HIDE DEF said
  <2>2. QED
    BY <1>2, <2>1 DEF CallsOnce
<1>5. Called(old, new)[c] =
        IF callers = {} THEN delegations[c]
        ELSE LET caller == CHOOSE f \in callers : TRUE
             IN NameAt(caller, CHOOSE j \in said(caller) : TRUE)
  <2> HIDE DEF c, old
  <2>1. QED
    BY <1>3, Zenon DEF Called
<1>6. CASE i > old[g]
  <2>1. i \in said(g)
    BY <1>1, <1>2, <1>6
  <2> HIDE DEF said
  <2>2. callers = {g} /\ said(g) = {i}
    BY <1>4, <2>1
  <2> HIDE DEF callers
  <2>3. (CHOOSE f \in callers : TRUE) = g
    BY <2>2
  <2>4. (CHOOSE j \in said(g) : TRUE) = i
    BY <2>2
  <2>5. Called(old, new)[c] = NameAt(g, i)
    BY <1>5, <2>2, <2>3, <2>4
  <2>6. QED
    BY <2>5
<1>7. CASE ~(i > old[g])
  <2>1. i <= old[g] /\ old[g] = reading[g] /\ reading[g] # NoOne
    BY <1>1, <1>2, <1>7
  <2>2. g \in Followed(reading)
    BY <1>1, <1>2, <2>1 DEF Followed
  <2>3. callers = {}
    <3>1. ASSUME NEW f \in Followed(new), NEW j \in said(f) PROVE FALSE
      <4>1. f = g /\ j = i
        BY <1>4, <3>1
      <4>2. j > old[g]
        BY <1>1, <1>2, <4>1
      <4>3. QED
        BY <1>7, <4>1, <4>2
    <3> HIDE DEF said
    <3>2. QED
      BY <3>1
  <2>4. NameAt(g, reading[g]) = NameOf(new, g)
        /\ NameAt(g, i) = NameAt(g, reading[g])
    <3>1. NameAt(g, i) = NameAt(g, new[g])
      BY DEF NameOf
    <3>2. /\ reading[g] \in Nat /\ reading[g] <= new[g] /\ i <= reading[g]
          /\ new[g] \in Nat
      BY <1>1, <2>1
    <3>3. NameAt(g, reading[g]) = NameAt(g, new[g])
      BY <1>2, <3>1, <3>2, NameBetween
    <3>4. QED
      BY <3>1, <3>3 DEF NameOf
  <2>5. NameOf(reading, g) = NameOf(new, g)
    BY <2>2, <2>4 DEF NameOf
  <2>6. c \in CallsOf(g)
    <3>1. i \in 1..reading[g]
      BY <1>1, <1>2, <2>1
    <3>2. NameAt(g, i) = NameOf(reading, g)
      BY <2>2, <2>4, <2>5
    <3>3. QED
      BY <3>1, <3>2 DEF CallsOf
  <2>7. delegations[c] = NameOf(reading, g)
    BY <2>2, <2>6 DEF CallsKnown
  <2> HIDE DEF callers
  <2>8. QED
    BY <1>5, <2>3, <2>5, <2>7
<1>8. QED
  BY <1>6, <1>7

(* Calls, links and what the office knows of them.                         *)
DelegationsInv == ReadsOK /\ CallsOnce /\ LinksKnown /\ CallsKnown /\ DelegationsJoined

(* A poll sends each pair whose link or call it is the last to read.       *)
LEMMA PollJoins ==
  ASSUME DelegationsInv, NEW new, Goes(Discovered, new), PollTo(new)
  PROVE  DelegationsInv'
<1>a. ReadsOK /\ CallsOnce /\ LinksKnown /\ CallsKnown
  BY DEF DelegationsInv
<1> DEFINE linked == Linked(Discovered, new)
           called == Called(Discovered, new)
           live == {NameOf(new, f) : f \in Followed(new)}
           told(f) == {transcripts[f][i].call : i \in {j \in 1..new[f] :
                          NameAt(f, j) = NameOf(new, f)}}
<1>1. /\ reading' = new /\ transcripts' = transcripts
      /\ joined' = joined \cup
           UNION {{[parent |-> called[c], child |-> w] : w \in {v \in Names : linked[v] = c} \ {called[c]}} :
                  c \in {d \in Correlations : called[d] # NoOne}}
      /\ memberships' = [w \in Names |-> IF w \in live THEN linked[w] ELSE NoOne]
      /\ delegations' = CallsKept(called, live)
      /\ forgotten' = forgotten \cup TooMany(called, live)
  BY DEF PollTo
<1>2. /\ Followed(reading)' = Followed(new)
      /\ \A f : NameOf(reading, f)' = NameOf(new, f)
      /\ \A f : LinkAt(f, reading[f])' = LinkAt(f, new[f])
      /\ \A f : CallsOf(f)' = told(f)
  BY <1>1 DEF Followed, NameOf, NameAt, LinkAt, CallsOf
<1>3. ASSUME NEW f \in Followed(new)
      PROVE  /\ f \in Files /\ NameOf(new, f) \in Names /\ NameOf(new, f).file = f
             /\ NameOf(new, f) # NoOne /\ NameOf(new, f) \in live
             /\ linked[NameOf(new, f)] = LinkAt(f, new[f])
  <2>1. f \in Files
    BY DEF Followed
  <2>2. linked[NameOf(new, f)] = LinkAt(f, new[f])
    BY <1>a, LinkedIs
  <2>3. QED
    BY <2>1, <2>2, NamesAre DEF NameOf
<1>4. ASSUME NEW f \in Followed(new), NEW c \in told(f), c # NoOne, c \notin forgotten
      PROVE  c \in Correlations /\ called[c] = NameOf(new, f)
  <2>1. PICK i \in 1..new[f] :
          NameAt(f, i) = NameOf(new, f) /\ transcripts[f][i].call = c
    OBVIOUS
  <2>2. i \in 1..Len(transcripts[f]) /\ f \in Files
    BY <1>a, NewSpanIs
  <2>3. c \in Correlations
    BY <1>a, <1>4, <2>1, <2>2, LineTyped
  <2>4. called[transcripts[f][i].call] = NameOf(new, f)
    BY <1>a, <1>4, <2>1, CalledIs
  <2>5. QED
    BY <2>1, <2>3, <2>4
<1> HIDE DEF linked, called, told
<1>5. ASSUME NEW f \in Followed(new), NEW c \in told(f), c # NoOne, c \notin forgotten'
      PROVE  delegations'[c] = NameOf(new, f)
  <2>1. c \in Correlations /\ called[c] = NameOf(new, f) /\ called[c] \in live
    BY <1>1, <1>3, <1>4, <1>5
  <2>2. c \notin TooMany(called, live)
    BY <1>1, <1>5
  <2>3. TooMany(called, live) = {}
    BY <2>1, <2>2 DEF TooMany
  <2>4. delegations' = [d \in Correlations |-> IF called[d] \in live THEN called[d] ELSE NoOne]
    BY <1>1, <2>3 DEF CallsKept
  <2>5. QED
    BY <2>1, <2>4
<1>6. ReadsOK'
  BY <1>a, PollKeepsReads
<1>7. CallsOnce'
  BY <1>1, <1>a DEF CallsOnce
<1>8. LinksKnown'
  <2>1. ASSUME NEW w \in Names, memberships'[w] # NoOne PROVE \E f \in Followed(new) : w = NameOf(new, f)
    BY <1>1, <2>1
  <2>2. ASSUME NEW f \in Followed(new)
        PROVE  memberships'[NameOf(new, f)] = LinkAt(f, new[f])
    <3>1. memberships'[NameOf(new, f)] = linked[NameOf(new, f)]
      BY <1>1, <1>3
    <3>2. QED
      BY <1>3, <3>1
  <2> HIDE DEF live
  <2>3. QED
    BY <1>2, <2>1, <2>2 DEF LinksKnown
<1>9. CallsKnown'
  BY <1>2, <1>5 DEF CallsKnown
<1>10. ASSUME NEW f \in Followed(new), NEW g \in Followed(new), NEW c,
              c = LinkAt(f, new[f]), f # g, c # NoOne, c \in told(g) \ forgotten'
       PROVE  [parent |-> NameOf(new, g), child |-> NameOf(new, f)] \in joined'
  <2>1. c \notin forgotten
    BY <1>1, <1>10
  <2>2. c \in Correlations /\ called[c] = NameOf(new, g)
    BY <1>4, <1>10, <2>1
  <2>3. called[c] # NoOne /\ NameOf(new, f) # called[c] /\ NameOf(new, f) \in Names
    BY <1>3, <1>10, <2>2
  <2>4. linked[NameOf(new, f)] = c
    BY <1>3, <1>10
  <2> DEFINE pairs(d) == {[parent |-> called[d], child |-> w] : w \in {v \in Names : linked[v] = d} \ {called[d]}}
  <2>5. [parent |-> NameOf(new, g), child |-> NameOf(new, f)] \in pairs(c)
    BY <2>2, <2>3, <2>4
  <2>6. joined' = joined \cup UNION {pairs(d) : d \in {e \in Correlations : called[e] # NoOne}}
    BY <1>1
  <2> HIDE DEF pairs
  <2>7. QED
    BY <2>2, <2>3, <2>5, <2>6
<1>11. DelegationsJoined'
  BY <1>2, <1>10 DEF DelegationsJoined
<1>12. QED
  BY <1>6, <1>7, <1>8, <1>9, <1>11 DEF DelegationsInv

(* While nothing is read, what was read still says the same.               *)
LEMMA DelegationsStay ==
  ASSUME DelegationsInv, Unaltered, ReadsOK', CallsOnce',
         UNCHANGED <<memberships, delegations, joined, forgotten>>
  PROVE  DelegationsInv'
<1>a. ReadsOK /\ CallsOnce /\ LinksKnown /\ CallsKnown /\ DelegationsJoined
  BY DEF DelegationsInv
<1>1. /\ Followed(reading)' = Followed(reading)
      /\ \A f \in Followed(reading) :
           /\ NameOf(reading, f)' = NameOf(reading, f)
           /\ LinkAt(f, reading[f])' = LinkAt(f, reading[f])
  BY <1>a, SameRoster
<1>2. LinksKnown'
  <2>1. reading' = reading
    BY DEF Unaltered
  <2>2. QED
    BY <1>1, <1>a DEF LinksKnown
<1>3. ASSUME NEW f \in Followed(reading) PROVE CallsOf(f)' = CallsOf(f)
  <2> DEFINE old == {j \in 1..reading[f] : NameAt(f, j) = NameOf(reading, f)}
             new == {j \in 1..reading[f] : NameAt(f, j)' = NameOf(reading, f)'}
  <2>1. /\ f \in Files /\ reading[f] \in Nat
        /\ reading[f] <= Len(transcripts[f]) /\ Len(transcripts[f]) \in Nat
    BY <1>a, SpanIs
  <2>2. \A j \in 1..reading[f] : j \in Nat /\ j \in 1..Len(transcripts[f])
    BY <2>1
  <2>3. \A j \in 1..reading[f] : NameAt(f, j)' = NameAt(f, j)
    <3>1. ASSUME NEW j \in 1..reading[f] PROVE NameAt(f, j)' = NameAt(f, j)
      <4>1. j \in Nat /\ j <= Len(transcripts[f]) /\ UNCHANGED reading
        BY <2>2 DEF Unaltered
      <4>2. QED
        BY <2>1, <4>1 DEF Unaltered
    <3>2. QED
      BY <3>1
  <2>4. new = old
    BY <1>1, <2>3
  <2>5. CallsOf(f) = {transcripts[f][i].call : i \in old}
    BY DEF CallsOf
  <2>6. CallsOf(f)' = {transcripts'[f][i].call : i \in new}
    BY DEF CallsOf, Unaltered
  <2>7. \A i \in old : transcripts'[f][i] = transcripts[f][i]
    BY <2>1, <2>2 DEF Unaltered
  <2> HIDE DEF old, new
  <2>8. QED
    BY <2>4, <2>5, <2>6, <2>7
<1>4. CallsKnown'
  BY <1>a, <1>1, <1>3 DEF CallsKnown
<1>5. DelegationsJoined'
  <2>1. UNCHANGED <<reading, joined, forgotten>>
    BY DEF Unaltered
  <2>2. \A f \in Followed(reading) : LinkAt(f, reading[f])' = LinkAt(f, reading[f])
    BY <1>1
  <2>3. QED
    BY <1>a, <1>1, <1>3, <2>1 DEF DelegationsJoined
<1>6. QED
  BY <1>2, <1>4, <1>5 DEF DelegationsInv

(* A line that Claude writes makes no call again.                          *)
LEMMA WriteCalls ==
  ASSUME ReadsOK, CallsOnce, NEW f \in Files, NEW line \in Lines, WriteLine(f, line)
  PROVE  CallsOnce'
<1>1. \A g \in Files : Len(transcripts[g]) \in Nat
  BY DEF ReadsOK
<1>2. /\ transcripts' = [transcripts EXCEPT ![f] = Append(@, line)]
      /\ line.call # NoOne => CalledBy(line.call) = {}
  BY DEF WriteLine
<1>3. \A g \in Files : g # f => transcripts'[g] = transcripts[g]
  BY <1>2 DEF ReadsOK
<1>4. /\ Len(transcripts'[f]) = Len(transcripts[f]) + 1
      /\ \A i \in 1..Len(transcripts[f]) : transcripts'[f][i] = transcripts[f][i]
      /\ transcripts'[f][Len(transcripts[f]) + 1] = line
  <2>1. transcripts[f] \in Seq(Lines) /\ transcripts'[f] = Append(transcripts[f], line)
    BY <1>2 DEF ReadsOK
  <2>2. QED
    BY <2>1
<1>5. \A g \in Files : \A i \in 1..Len(transcripts'[g]) :
        \/ i \in 1..Len(transcripts[g]) /\ transcripts'[g][i] = transcripts[g][i]
        \/ g = f /\ i = Len(transcripts[f]) + 1 /\ transcripts'[g][i] = line
  BY <1>1, <1>3, <1>4
<1>6. \A g \in Files : \A i \in 1..Len(transcripts[g]) :
        line.call # NoOne => transcripts[g][i].call # line.call
  <2>1. ASSUME NEW g \in Files, NEW i \in 1..Len(transcripts[g]), line.call # NoOne,
               transcripts[g][i].call = line.call
        PROVE  FALSE
    <3>1. i \in DOMAIN transcripts[g]
      BY DEF ReadsOK
    <3>2. g \in CalledBy(line.call)
      BY <2>1, <3>1 DEF CalledBy
    <3>3. QED
      BY <1>2, <2>1, <3>2
  <2>2. QED
    BY <2>1
<1>7. ASSUME NEW g \in Files, NEW h \in Files,
             NEW i \in 1..Len(transcripts'[g]), NEW j \in 1..Len(transcripts'[h]),
             transcripts'[g][i].call # NoOne, transcripts'[g][i].call = transcripts'[h][j].call
      PROVE  g = h /\ i = j
  <2>1. CASE /\ i \in 1..Len(transcripts[g]) /\ transcripts'[g][i] = transcripts[g][i]
             /\ j \in 1..Len(transcripts[h]) /\ transcripts'[h][j] = transcripts[h][j]
    BY <1>7, <2>1 DEF CallsOnce
  <2>2. CASE /\ g = f /\ i = Len(transcripts[f]) + 1 /\ transcripts'[g][i] = line
             /\ h = f /\ j = Len(transcripts[f]) + 1 /\ transcripts'[h][j] = line
    BY <2>2
  <2>3. CASE /\ i \in 1..Len(transcripts[g]) /\ transcripts'[g][i] = transcripts[g][i]
             /\ transcripts'[h][j] = line
    BY <1>6, <1>7, <2>3
  <2>4. CASE /\ transcripts'[g][i] = line
             /\ j \in 1..Len(transcripts[h]) /\ transcripts'[h][j] = transcripts[h][j]
    BY <1>6, <1>7, <2>4
  <2>5. QED
    BY <1>5, <2>1, <2>2, <2>3, <2>4
<1>8. QED
  BY <1>7 DEF CallsOnce

(* Nothing is read and nothing is to be known at first.                    *)
LEMMA DelegationsInit == ClaudeInit => DelegationsInv
<1> SUFFICES ASSUME ClaudeInit PROVE DelegationsInv
  OBVIOUS
<1>1. ReadsOK
  BY CollectorInit DEF CollectorInv
<1>2. \A f \in Files : Len(transcripts[f]) = 0
  BY DEF ClaudeInit
<1>3. CallsOnce
  BY <1>2 DEF CallsOnce
<1>4. Followed(reading) = {}
  BY DEF ClaudeInit, Followed
<1>5. LinksKnown /\ CallsKnown /\ DelegationsJoined
  BY <1>4 DEF ClaudeInit, LinksKnown, CallsKnown, DelegationsJoined
<1>6. QED
  BY <1>1, <1>3, <1>5 DEF DelegationsInv

(* What is remembered matches what was read after every step.              *)
LEMMA DelegationsStep == DelegationsInv /\ [ClaudeNext]_claudeVars => DelegationsInv'
<1> SUFFICES ASSUME DelegationsInv, [ClaudeNext]_claudeVars PROVE DelegationsInv'
  OBVIOUS
<1>a. ReadsOK /\ CallsOnce
  BY DEF DelegationsInv
<1>1. ASSUME NEW f \in Files, NEW line \in Lines, WriteLine(f, line) PROVE DelegationsInv'
  <2>1. UNCHANGED <<reading, memberships, delegations, joined, forgotten>>
    BY <1>1 DEF WriteLine
  <2>2. ReadsOK' /\ Unaltered
    BY <1>a, <1>1, <2>1, TranscriptsGrow, ReadStays
  <2>3. CallsOnce'
    BY <1>a, <1>1, WriteCalls
  <2>4. QED
    BY <2>1, <2>2, <2>3, DelegationsStay
<1>2. ASSUME UNCHANGED <<transcripts, reading, memberships, delegations, joined, forgotten>>
      PROVE  DelegationsInv'
  <2>1. ReadsOK' /\ CallsOnce'
    BY <1>a, <1>2 DEF ReadsOK, CallsOnce
  <2>2. Unaltered
    BY <1>a, <1>2, <2>1, ReadStays
  <2>3. QED
    BY <1>2, <2>1, <2>2, DelegationsStay
<1>3. CASE PollClaude
  BY <1>a, <1>3, PollReadsTo, PollJoins
<1>4. CASE PollUnavailable
  <2>1. /\ reading' = [f \in Files |-> NoOne] /\ memberships' = [w \in Names |-> NoOne]
        /\ transcripts' = transcripts
    BY <1>4 DEF PollUnavailable
  <2>2. ReadsOK' /\ CallsOnce'
    BY <1>a, <2>1 DEF ReadsOK, CallsOnce
  <2>3. Followed(reading)' = {}
    BY <2>1 DEF Followed
  <2>4. LinksKnown' /\ CallsKnown' /\ DelegationsJoined'
    BY <2>1, <2>3 DEF LinksKnown, CallsKnown, DelegationsJoined
  <2>5. QED
    BY <2>2, <2>4 DEF DelegationsInv
<1>5. QED
  BY <1>1, <1>2, <1>3, <1>4 DEF ClaudeNext, claudeVars, GrowOld

(* DelegationsJoined (resolve_collaboration): whoever's transcripts link   *)
(* to whose call, the office knows, whichever was read first.              *)
THEOREM DelegationsJoinedCorrect == ClaudeSpec => []DelegationsJoined
<1>1. DelegationsInv => DelegationsJoined
  BY DEF DelegationsInv
<1>2. QED
  BY DelegationsInit, DelegationsStep, <1>1, PTL DEF ClaudeSpec

-----------------------------------------------------------------------------
(* Sets of what has a number of bytes.                                     *)
Weighed(S) == IsFiniteSet(S) /\ \A x \in S : x.bytes \in Nat

(* What a sum over the subsets of S has to satisfy.                        *)
Sums(S, f) ==
  \A s \in SUBSET S :
    f[s] = IF s = {} THEN 0
           ELSE LET x == CHOOSE x \in s : TRUE IN x.bytes + f[s \ {x}]

(* There is a function that sums up the smaller subsets.                   *)
LEMMA SumsOfSmall ==
  ASSUME NEW S, Weighed(S), NEW n \in Nat
  PROVE  \E f \in [SUBSET S -> Nat] : \A s \in SUBSET S :
           Cardinality(s) <= n =>
             f[s] = IF s = {} THEN 0
                    ELSE LET x == CHOOSE x \in s : TRUE IN x.bytes + f[s \ {x}]
<1> DEFINE Good(f, m) ==
             \A s \in SUBSET S : Cardinality(s) <= m =>
               f[s] = IF s = {} THEN 0
                      ELSE LET x == CHOOSE x \in s : TRUE IN x.bytes + f[s \ {x}]
           bad == {m \in Nat : ~\E f \in [SUBSET S -> Nat] : Good(f, m)}
<1>s. \A s \in SUBSET S : Cardinality(s) \in Nat /\ (Cardinality(s) = 0 <=> s = {})
  <2>1. ASSUME NEW s \in SUBSET S PROVE Cardinality(s) \in Nat /\ (Cardinality(s) = 0 <=> s = {})
    <3>1. IsFiniteSet(s)
      BY FS_Subset DEF Weighed
    <3>2. QED
      BY <3>1, FS_CardinalityType, FS_EmptySet
  <2>2. QED
    BY <2>1
<1>x. \A s \in SUBSET S : s # {} =>
        LET x == CHOOSE x \in s : TRUE
        IN x \in S /\ x.bytes \in Nat /\ s \ {x} \in SUBSET S /\ Cardinality(s \ {x}) = Cardinality(s) - 1
  <2>1. ASSUME NEW s \in SUBSET S, s # {}, NEW x \in s
        PROVE  x \in S /\ x.bytes \in Nat /\ s \ {x} \in SUBSET S /\ Cardinality(s \ {x}) = Cardinality(s) - 1
    <3>1. IsFiniteSet(s)
      BY FS_Subset DEF Weighed
    <3>2. Cardinality(s \ {x}) = Cardinality(s) - 1
      BY <3>1, FS_RemoveElement
    <3>3. QED
      BY <3>2 DEF Weighed
  <2>2. QED
    BY <2>1
<1>1. ASSUME bad # {} PROVE FALSE
  <2>1. PICK m \in bad : \A k \in bad : m <= k
    BY <1>1, LeastOf
  <2>2. CASE m = 0
    <3>1. [s \in SUBSET S |-> 0] \in [SUBSET S -> Nat] /\ Good([s \in SUBSET S |-> 0], 0)
      BY <1>s
    <3>2. QED
      BY <2>1, <2>2, <3>1
  <2>3. CASE m # 0
    <3>1. m - 1 \in Nat /\ m - 1 \notin bad
      <4> HIDE DEF bad
      <4>1. m \in Nat
        BY <2>1 DEF bad
      <4>2. QED
        BY <2>1, <2>3, <4>1
    <3>2. PICK g \in [SUBSET S -> Nat] : Good(g, m - 1)
      BY <3>1
    <3> DEFINE f == [s \in SUBSET S |->
                       IF Cardinality(s) = m
                       THEN LET x == CHOOSE x \in s : TRUE IN x.bytes + g[s \ {x}]
                       ELSE g[s]]
    <3>3. f \in [SUBSET S -> Nat]
      <4>1. ASSUME NEW s \in SUBSET S PROVE f[s] \in Nat
        <5>1. CASE Cardinality(s) = m
          <6>1. s # {}
            BY <1>s, <2>3, <5>1
          <6> DEFINE c == CHOOSE x \in s : TRUE
          <6>2. f[s] = c.bytes + g[s \ {c}]
            BY <5>1
          <6>3. c.bytes \in Nat /\ s \ {c} \in SUBSET S
            BY <1>x, <6>1
          <6> HIDE DEF f, c
          <6>4. g[s \ {c}] \in Nat
            BY <6>3
          <6>5. QED
            BY <6>2, <6>3, <6>4
        <5>2. CASE Cardinality(s) # m
          BY <5>2
        <5>3. QED
          BY <5>1, <5>2
      <4>2. QED
        BY <4>1
    <3>4. ASSUME NEW s \in SUBSET S, Cardinality(s) <= m
          PROVE  f[s] = IF s = {} THEN 0
                        ELSE LET x == CHOOSE x \in s : TRUE IN x.bytes + f[s \ {x}]
      <4>1. s # {} => LET x == CHOOSE x \in s : TRUE
                      IN /\ s \ {x} \in SUBSET S /\ Cardinality(s \ {x}) # m
                         /\ Cardinality(s \ {x}) = Cardinality(s) - 1
        BY <1>s, <1>x, <2>1, <3>4
      <4>2. s # {} => LET x == CHOOSE x \in s : TRUE IN f[s \ {x}] = g[s \ {x}]
        BY <4>1
      <4>3. CASE Cardinality(s) = m
        <5>1. s # {}
          BY <1>s, <2>3, <4>3
        <5>2. f[s] = LET x == CHOOSE x \in s : TRUE IN x.bytes + g[s \ {x}]
          BY <4>3
        <5> HIDE DEF f
        <5>3. QED
          BY <4>2, <5>1, <5>2
      <4>4. CASE Cardinality(s) # m
        <5>1. Cardinality(s) <= m - 1
          BY <1>s, <2>1, <3>4, <4>4
        <5>2. f[s] = g[s]
          BY <4>4
        <5>3. g[s] = IF s = {} THEN 0
                     ELSE LET x == CHOOSE x \in s : TRUE IN x.bytes + g[s \ {x}]
          BY <3>2, <5>1
        <5> HIDE DEF f
        <5>4. QED
          BY <4>2, <5>2, <5>3
      <4>5. QED
        BY <4>3, <4>4
    <3>5. Good(f, m)
      BY <3>4
    <3> HIDE DEF f, Good
    <3>6. QED
      BY <2>1, <3>3, <3>5
  <2>4. QED
    BY <2>2, <2>3
<1>2. n \notin bad
  BY <1>1
<1>3. QED
  BY <1>2

(* There is a function that sums up all subsets, and BytesOf is one.       *)
LEMMA BytesAreSummed ==
  ASSUME NEW S, Weighed(S)
  PROVE  \E f \in [SUBSET S -> Nat] : Sums(S, f) /\ BytesOf(S) = f[S]
<1> DEFINE Is(f) == f = [s \in SUBSET S |->
                           IF s = {} THEN 0
                           ELSE LET x == CHOOSE x \in s : TRUE IN x.bytes + f[s \ {x}]]
<1>1. PICK g \in [SUBSET S -> Nat] : \A s \in SUBSET S :
        Cardinality(s) <= Cardinality(S) =>
             g[s] = IF s = {} THEN 0
                    ELSE LET x == CHOOSE x \in s : TRUE IN x.bytes + g[s \ {x}]
  <2> DEFINE n == Cardinality(S)
  <2>1. n \in Nat
    BY FS_CardinalityType DEF Weighed
  <2> HIDE DEF n
  <2>2. \E g \in [SUBSET S -> Nat] : \A s \in SUBSET S :
          Cardinality(s) <= n =>
             g[s] = IF s = {} THEN 0
                    ELSE LET x == CHOOSE x \in s : TRUE IN x.bytes + g[s \ {x}]
    BY <2>1, SumsOfSmall, ZenonT(40)
  <2>3. QED
    BY <2>2 DEF n
<1>2. \A s \in SUBSET S : Cardinality(s) <= Cardinality(S)
  BY FS_Subset DEF Weighed
<1>3. Is(g)
  BY <1>1, <1>2
<1>4. Is(CHOOSE f : Is(f))
  BY <1>3
<1> DEFINE h == CHOOSE f : Is(f)
<1>5. BytesOf(S) = h[S]
  BY DEF BytesOf, MapThenSumSet, MapThenFoldSet
<1> HIDE DEF h
<1>6. Is(h)
  BY <1>4 DEF h
<1>7. \A s \in SUBSET S :
        h[s] = IF s = {} THEN 0 ELSE LET x == CHOOSE x \in s : TRUE IN x.bytes + h[s \ {x}]
  BY <1>6
<1>8. Sums(S, h)
  BY <1>7 DEF Sums
<1>9. \A s \in SUBSET S : h[s] \in Nat
  <2> DEFINE bad == {Cardinality(s) : s \in {s \in SUBSET S : h[s] \notin Nat}}
  <2>1. bad \in SUBSET Nat
    BY FS_Subset, FS_CardinalityType DEF Weighed
  <2>2. ASSUME bad # {} PROVE FALSE
    <3>1. PICK m \in bad : \A k \in bad : m <= k
      BY <2>1, <2>2, LeastOf
    <3>2. PICK s \in SUBSET S : h[s] \notin Nat /\ m = Cardinality(s)
      BY <3>1
    <3>3. s # {}
      <4>1. h[{}] = 0
        BY <1>7
      <4>2. QED
        BY <3>2, <4>1
    <3> DEFINE x == CHOOSE x \in s : TRUE
    <3>4. x \in s
      BY <3>3
    <3> HIDE DEF x
    <3>5. s \ {x} \in SUBSET S /\ Cardinality(s \ {x}) = m - 1 /\ x.bytes \in Nat
      BY <3>2, <3>4, FS_Subset, FS_RemoveElement DEF Weighed
    <3>6. h[s] = x.bytes + h[s \ {x}]
      BY <1>7, <3>3 DEF x
    <3>7. h[s \ {x}] \notin Nat
      BY <3>2, <3>5, <3>6
    <3>8. Cardinality(s \ {x}) \in bad
      BY <3>5, <3>7
    <3> HIDE DEF bad
    <3>9. m \in Nat
      BY <2>1, <3>1
    <3>10. QED
      BY <3>1, <3>5, <3>8, <3>9
  <2>3. QED
    BY <2>2
<1>10. h \in [SUBSET S -> Nat]
  BY <1>6, <1>9
<1>11. QED
  BY <1>5, <1>8, <1>10 DEF h

(* A sum has one value.                                                    *)
LEMMA SumsAgree ==
  ASSUME NEW S, NEW T, Weighed(S), NEW f, NEW g, Sums(S, f), Sums(T, g),
         NEW s \in SUBSET S, s \in SUBSET T
  PROVE  f[s] = g[s]
<1> DEFINE bad == {Cardinality(t) : t \in {t \in SUBSET S : t \in SUBSET T /\ f[t] # g[t]}}
<1>1. bad \in SUBSET Nat
  BY FS_Subset, FS_CardinalityType DEF Weighed
<1>2. ASSUME bad # {} PROVE FALSE
  <2>1. PICK m \in bad : \A k \in bad : m <= k
    BY <1>1, <1>2, LeastOf
  <2>2. PICK t \in SUBSET S : t \in SUBSET T /\ f[t] # g[t] /\ m = Cardinality(t)
    BY <2>1
  <2>3. t # {}
    BY <2>2 DEF Sums
  <2> DEFINE x == CHOOSE x \in t : TRUE
  <2>4. x \in t
    BY <2>3
  <2>5. f[t] = x.bytes + f[t \ {x}] /\ g[t] = x.bytes + g[t \ {x}]
    BY <2>2, <2>3 DEF Sums
  <2> HIDE DEF x
  <2>6. t \ {x} \in SUBSET S /\ t \ {x} \in SUBSET T /\ Cardinality(t \ {x}) = m - 1
    BY <2>2, <2>4, FS_Subset, FS_RemoveElement DEF Weighed
  <2>7. f[t \ {x}] # g[t \ {x}]
    BY <2>2, <2>5
  <2>8. Cardinality(t \ {x}) \in bad
    BY <2>6, <2>7
  <2> HIDE DEF bad
  <2>9. m \in Nat
    BY <1>1, <2>1
  <2>10. QED
    BY <2>1, <2>6, <2>8, <2>9
<1>3. QED
  BY <1>2

(* Bytes add up, in whatever order.                                        *)
LEMMA BytesAddUp ==
  ASSUME NEW S, Weighed(S)
  PROVE  /\ BytesOf(S) \in Nat
         /\ BytesOf({}) = 0
         /\ \A x \in S : BytesOf(S) = x.bytes + BytesOf(S \ {x})
<1>1. PICK f \in [SUBSET S -> Nat] : Sums(S, f) /\ BytesOf(S) = f[S]
  BY BytesAreSummed
<1>2. \A s \in SUBSET S : BytesOf(s) = f[s]
  <2>1. ASSUME NEW s \in SUBSET S PROVE BytesOf(s) = f[s]
    <3>1. Weighed(s)
      BY FS_Subset DEF Weighed
    <3>2. PICK g \in [SUBSET s -> Nat] : Sums(s, g) /\ BytesOf(s) = g[s]
      BY <3>1, BytesAreSummed
    <3>3. g[s] = f[s]
      BY <1>1, <3>1, <3>2, SumsAgree
    <3>4. QED
      BY <3>2, <3>3
  <2>2. QED
    BY <2>1
<1>3. f[{}] = 0
  BY <1>1 DEF Sums
<1> DEFINE bad == {Cardinality(s) : s \in {s \in SUBSET S : \E x \in s : f[s] # x.bytes + f[s \ {x}]}}
<1>4. bad \in SUBSET Nat
  BY FS_Subset, FS_CardinalityType DEF Weighed
<1>5. ASSUME bad # {} PROVE FALSE
  <2>1. PICK m \in bad : \A k \in bad : m <= k
    BY <1>4, <1>5, LeastOf
  <2>2. PICK s \in SUBSET S : m = Cardinality(s) /\ \E x \in s : f[s] # x.bytes + f[s \ {x}]
    BY <2>1
  <2>3. PICK x \in s : f[s] # x.bytes + f[s \ {x}]
    BY <2>2
  <2> DEFINE c == CHOOSE c \in s : TRUE
  <2>4. c \in s
    BY <2>3
  <2>5. f[s] = c.bytes + f[s \ {c}]
    BY <1>1, <2>3 DEF Sums
  <2> HIDE DEF c
  <2>6. c # x
    BY <2>3, <2>5
  <2> DEFINE sc == s \ {c}
             sx == s \ {x}
             both == s \ {c, x}
  <2>7. /\ sc \in SUBSET S /\ sx \in SUBSET S /\ both \in SUBSET S
        /\ x \in sc /\ c \in sx /\ sc \ {x} = both /\ sx \ {c} = both
    BY <2>4, <2>6
  <2>8. IsFiniteSet(s) /\ Cardinality(sc) = m - 1 /\ Cardinality(sx) = m - 1 /\ m \in Nat
    BY <2>2, <2>4, <2>3, FS_Subset, FS_RemoveElement, FS_CardinalityType DEF Weighed
  <2>9. m - 1 \notin bad
    <3> HIDE DEF bad
    <3>1. QED
      BY <2>1, <2>8
  <2>10. f[sc] = x.bytes + f[sc \ {x}] /\ f[sx] = c.bytes + f[sx \ {c}]
    BY <2>7, <2>8, <2>9
  <2>11. f[both] \in Nat /\ x.bytes \in Nat /\ c.bytes \in Nat
    BY <2>3, <2>4, <2>7 DEF Weighed
  <2> HIDE DEF sc, sx, both
  <2>12. f[s] = x.bytes + f[sx]
    <3>1. f[s] = c.bytes + f[sc]
      BY <2>5 DEF sc
    <3>2. f[sc] = x.bytes + f[both] /\ f[sx] = c.bytes + f[both]
      BY <2>7, <2>10
    <3>3. QED
      BY <2>11, <3>1, <3>2
  <2>13. QED
    BY <2>3, <2>12 DEF sx
<1>6. \A x \in S : f[S] = x.bytes + f[S \ {x}]
  BY <1>5
<1>7. QED
  BY <1>1, <1>2, <1>3, <1>6

(* An entry more, and an entry less.                                       *)
LEMMA BytesWith ==
  ASSUME NEW S, Weighed(S), NEW x, x \notin S, x.bytes \in Nat
  PROVE  Weighed(S \cup {x}) /\ BytesOf(S \cup {x}) = BytesOf(S) + x.bytes
<1>1. Weighed(S \cup {x})
  BY FS_AddElement DEF Weighed
<1>2. ASSUME NEW T, T = S \cup {x} PROVE BytesOf(T) = x.bytes + BytesOf(S)
  <2>1. Weighed(T) /\ x \in T
    BY <1>1, <1>2
  <2>2. BytesOf(T) = x.bytes + BytesOf(T \ {x})
    BY <2>1, BytesAddUp
  <2>3. T \ {x} = S
    BY <1>2
  <2>4. QED
    BY <2>2, <2>3
<1>3. BytesOf(S) \in Nat
  BY BytesAddUp
<1>4. BytesOf(S \cup {x}) = x.bytes + BytesOf(S)
  BY <1>2
<1>5. QED
  BY <1>1, <1>3, <1>4

(* The rest has the bytes but those of the one that went.                   *)
LEMMA BytesWithout ==
  ASSUME NEW S, Weighed(S), NEW x \in S
  PROVE  /\ Weighed(S \ {x}) /\ BytesOf(S) \in Nat /\ BytesOf(S \ {x}) \in Nat
         /\ BytesOf(S \ {x}) = BytesOf(S) - x.bytes
<1>1. Weighed(S \ {x})
  BY FS_RemoveElement DEF Weighed
<1>2. BytesOf(S) = x.bytes + BytesOf(S \ {x}) /\ BytesOf(S) \in Nat
  BY BytesAddUp
<1>3. BytesOf(S \ {x}) \in Nat /\ x.bytes \in Nat
  BY <1>1, BytesAddUp DEF Weighed
<1>4. QED
  BY <1>1, <1>2, <1>3

(* What remains without some of the entries.                               *)
LEMMA BytesDifference ==
  ASSUME NEW S, Weighed(S), NEW T \in SUBSET S
  PROVE  /\ Weighed(S \ T) /\ Weighed(T)
         /\ BytesOf(S) \in Nat /\ BytesOf(T) \in Nat /\ BytesOf(S \ T) \in Nat
         /\ BytesOf(S \ T) = BytesOf(S) - BytesOf(T) /\ BytesOf(T) <= BytesOf(S)
<1> DEFINE bad == {Cardinality(t) : t \in {t \in SUBSET S : BytesOf(S \ t) + BytesOf(t) # BytesOf(S)}}
<1>1. \A t \in SUBSET S : /\ IsFiniteSet(t) /\ Cardinality(t) \in Nat
                          /\ Weighed(t) /\ BytesOf(t) \in Nat
  <2>1. ASSUME NEW t \in SUBSET S
        PROVE  IsFiniteSet(t) /\ Cardinality(t) \in Nat /\ Weighed(t) /\ BytesOf(t) \in Nat
    <3>1. Weighed(t)
      BY FS_Subset DEF Weighed
    <3>2. QED
      BY <3>1, BytesAddUp, FS_CardinalityType DEF Weighed
  <2>2. QED
    BY <2>1
<1>2. bad \in SUBSET Nat
  BY <1>1
<1>3. ASSUME bad # {} PROVE FALSE
  <2>1. PICK m \in bad : \A k \in bad : m <= k
    BY <1>2, <1>3, LeastOf
  <2>2. PICK t \in SUBSET S : m = Cardinality(t) /\ BytesOf(S \ t) + BytesOf(t) # BytesOf(S)
    BY <2>1
  <2>3. t # {}
    <3>1. S \ {} = S /\ BytesOf({}) = 0 /\ BytesOf(S) \in Nat
      BY BytesAddUp
    <3>2. QED
      BY <2>2, <3>1
  <2>4. PICK x \in t : TRUE
    BY <2>3
  <2> DEFINE u == t \ {x}
             v == S \ u
  <2>5. u \in SUBSET S /\ v \in SUBSET S /\ x \in v /\ v \ {x} = S \ t /\ x.bytes \in Nat
    BY <2>4 DEF Weighed
  <2>6. Cardinality(u) = m - 1 /\ m \in Nat
    BY <1>1, <2>2, <2>4, FS_RemoveElement
  <2>7. m - 1 \notin bad
    <3> HIDE DEF bad
    <3>1. QED
      BY <2>1, <2>6
  <2>8. BytesOf(v) + BytesOf(u) = BytesOf(S)
    BY <2>5, <2>6, <2>7
  <2>9. BytesOf(t) = x.bytes + BytesOf(u)
    BY <1>1, <2>4, BytesAddUp
  <2> HIDE DEF v
  <2>10. BytesOf(v) = x.bytes + BytesOf(v \ {x})
    BY <1>1, <2>5, BytesAddUp
  <2> HIDE DEF u
  <2>11. BytesOf(v) = x.bytes + BytesOf(S \ t)
    BY <2>5, <2>10
  <2>12. BytesOf(u) \in Nat /\ BytesOf(S \ t) \in Nat
    BY <1>1, <2>5
  <2>13. QED
    BY <2>2, <2>5, <2>8, <2>9, <2>11, <2>12
<1>4. BytesOf(S \ T) + BytesOf(T) = BytesOf(S)
  BY <1>3
<1>5. S \ T \in SUBSET S
  OBVIOUS
<1>6. QED
  BY <1>1, <1>4, <1>5

(* Entries under other ordinals are as large as before.                    *)
LEMMA BytesMapped ==
  ASSUME NEW S, Weighed(S), NEW m,
         \A x, y \in S : m[x] = m[y] => x = y, \A x \in S : m[x].bytes = x.bytes
  PROVE  LET T == {m[x] : x \in S}
         IN Weighed(T) /\ BytesOf(T) = BytesOf(S) /\ Cardinality(T) = Cardinality(S)
<1> DEFINE image(s) == {m[x] : x \in s}
           good(s) == /\ IsFiniteSet(image(s)) /\ Cardinality(image(s)) = Cardinality(s)
                      /\ BytesOf(image(s)) = BytesOf(s)
           bad == {Cardinality(s) : s \in {s \in SUBSET S : ~good(s)}}
<1>1. \A s \in SUBSET S : IsFiniteSet(s) /\ Cardinality(s) \in Nat /\ Weighed(s)
  BY FS_Subset, FS_CardinalityType DEF Weighed
<1>2. bad \in SUBSET Nat
  BY <1>1
<1>3. ASSUME bad # {} PROVE FALSE
  <2>1. PICK n \in bad : \A k \in bad : n <= k
    BY <1>2, <1>3, LeastOf
  <2>2. PICK s \in SUBSET S : n = Cardinality(s) /\ ~good(s)
    BY <2>1
  <2>3. s # {}
    <3>1. image({}) = {} /\ IsFiniteSet({})
      BY FS_EmptySet
    <3>2. QED
      BY <2>2, <3>1
  <2>4. PICK x \in s : TRUE
    BY <2>3
  <2> DEFINE u == s \ {x}
  <2>5. u \in SUBSET S /\ Cardinality(u) = n - 1 /\ n \in Nat
    BY <1>1, <2>2, <2>4, FS_RemoveElement
  <2>6. n - 1 \notin bad
    <3> HIDE DEF bad
    <3>1. QED
      BY <2>1, <2>5
  <2>7. good(u)
    <3> HIDE DEF good, u
    <3>1. QED
      BY <2>5, <2>6
  <2>8. image(s) = image(u) \cup {m[x]} /\ m[x] \notin image(u) /\ m[x].bytes = x.bytes /\ x.bytes \in Nat
    BY <2>4 DEF Weighed
  <2>9. Weighed(image(u))
    BY <2>5, <2>7 DEF Weighed
  <2>10. Weighed(u) /\ x \notin u /\ s = u \cup {x}
    BY <1>1, <2>4, <2>5
  <2> DEFINE iu == image(u)
             is == image(s)
  <2> HIDE DEF image, u
  <2>11. Weighed(iu \cup {m[x]}) /\ BytesOf(iu \cup {m[x]}) = BytesOf(iu) + x.bytes
    BY <2>8, <2>9, BytesWith
  <2>12. BytesOf(u \cup {x}) = BytesOf(u) + x.bytes
    BY <2>8, <2>10, BytesWith
  <2>13. Cardinality(iu \cup {m[x]}) = Cardinality(iu) + 1
    BY <2>8, <2>9, FS_AddElement DEF Weighed
  <2>14. Cardinality(s) = Cardinality(u) + 1
    BY <2>2, <2>5
  <2>15. is = iu \cup {m[x]}
    BY <2>8
  <2> HIDE DEF iu, is
  <2>16. IsFiniteSet(is) /\ BytesOf(is) = BytesOf(iu) + x.bytes /\ Cardinality(is) = Cardinality(iu) + 1
    BY <2>11, <2>13, <2>15 DEF Weighed
  <2>17. BytesOf(s) = BytesOf(u) + x.bytes
    BY <2>10, <2>12
  <2>18. BytesOf(iu) = BytesOf(u) /\ Cardinality(iu) = Cardinality(u)
    BY <2>7 DEF iu
  <2>19. good(s)
    BY <2>14, <2>16, <2>17, <2>18 DEF is
  <2>20. QED
    BY <2>2, <2>19
<1>4. good(S)
  <2> HIDE DEF good
  <2>1. S \in SUBSET S
    OBVIOUS
  <2>2. QED
    BY <1>3, <2>1
<1>5. QED
  BY <1>4 DEF Weighed

(* The least of some numbers is one of them.                               *)
LEMMA LeastIs ==
  ASSUME NEW S \in SUBSET Nat, S # {}
  PROVE  Min(S) \in S /\ \A x \in S : Min(S) <= x
<1>1. \E x \in S : \A y \in S : x <= y
  BY LeastOf
<1>2. QED
  BY <1>1 DEF Min

(* A step is taken n times from s.                                         *)
Iterates(step, s, n, a) == a[0] = s /\ \A i \in 1..n : a[i] = step[a[i - 1]]

(* A step can be repeated any number of times.                             *)
LEMMA Repeated ==
  ASSUME NEW W, NEW step \in [W -> W], NEW s \in W, NEW n \in Nat
  PROVE  \E a \in [0..n -> W] : Iterates(step, s, n, a)
<1> DEFINE able(k) == \E a \in [0..k -> W] : a[0] = s /\ \A i \in 1..k : a[i] = step[a[i - 1]]
           bad == {k \in Nat : ~able(k)}
<1>1. ASSUME bad # {} PROVE FALSE
  <2>1. PICK k \in bad : \A j \in bad : k <= j
    BY <1>1, LeastOf
  <2>2. able(0)
    <3> DEFINE a == [i \in 0..0 |-> s]
    <3>1. a \in [0..0 -> W] /\ a[0] = s
      OBVIOUS
    <3>2. 1..0 = {}
      OBVIOUS
    <3> HIDE DEF a
    <3>3. QED
      BY <3>1, <3>2
  <2>3. k \in Nat /\ ~able(k)
    BY <2>1
  <2>4. k # 0
    BY <2>2, <2>3
  <2>5. k - 1 \in Nat /\ k - 1 \notin bad
    <3> HIDE DEF bad
    <3>1. QED
      BY <2>1, <2>3, <2>4
  <2>6. PICK a \in [0..(k - 1) -> W] : a[0] = s /\ \A i \in 1..(k - 1) : a[i] = step[a[i - 1]]
    BY <2>5
  <2> DEFINE b == [i \in 0..k |-> IF i = k THEN step[a[k - 1]] ELSE a[i]]
  <2>7. k - 1 \in 0..(k - 1) /\ a[k - 1] \in W
    BY <2>5, <2>6
  <2>8. \A i \in 0..k : i # k => i \in 0..(k - 1) /\ a[i] \in W
    BY <2>3, <2>4, <2>6
  <2>9. b \in [0..k -> W]
    BY <2>7, <2>8
  <2>10. b[0] = s
    BY <2>3, <2>4, <2>6
  <2>11. ASSUME NEW i \in 1..k PROVE b[i] = step[b[i - 1]]
    <3>1. b[i - 1] = a[i - 1] /\ i \in 0..k /\ i - 1 \in 0..k
      BY <2>3, <2>4
    <3>2. CASE i = k
      BY <3>1, <3>2
    <3>3. CASE i # k
      <4>1. i \in 1..(k - 1) /\ b[i] = a[i]
        BY <2>3, <3>1, <3>3
      <4>2. QED
        BY <2>6, <3>1, <4>1
    <3>4. QED
      BY <3>2, <3>3
  <2>12. able(k)
    <3> HIDE DEF b
    <3>1. QED
      BY <2>9, <2>10, <2>11
  <2>13. QED
    BY <2>3, <2>12
<1>2. n \notin bad
  BY <1>1
<1>3. QED
  BY <1>2 DEF Iterates

(* Steps that make something smaller come to an end.                       *)
LEMMA Exhausted ==
  ASSUME NEW W, NEW step \in [W -> W], NEW size \in [W -> Nat], NEW full \in SUBSET W,
         \A t \in full : size[step[t]] < size[t],
         \A t \in W \ full : step[t] = t,
         NEW n \in Nat, NEW a \in [0..n -> W], NEW s, size[s] <= n, Iterates(step, s, n, a)
  PROVE  a[n] \notin full
<1> DEFINE fine(i) == a[i] \notin full \/ size[a[i]] <= n - i
           bad == {i \in 0..n : ~fine(i)}
<1>1. ASSUME bad # {} PROVE FALSE
  <2>1. bad \in SUBSET Nat
    OBVIOUS
  <2>2. PICK i \in bad : \A j \in bad : i <= j
    BY <1>1, <2>1, LeastOf
  <2>3. i \in 0..n /\ ~fine(i)
    BY <2>2
  <2>4. i # 0
    BY <2>3 DEF Iterates
  <2>5. i - 1 \in 0..n /\ i \in 1..n /\ i - 1 \notin bad
    <3> HIDE DEF bad
    <3>1. i - 1 \in 0..n /\ i \in 1..n
      BY <2>3, <2>4
    <3>2. QED
      BY <2>2, <2>3, <3>1
  <2>6. fine(i - 1)
    BY <2>5
  <2>7. a[i] = step[a[i - 1]] /\ a[i - 1] \in W /\ a[i] \in W
    BY <2>5, <2>3 DEF Iterates
  <2>8. CASE a[i - 1] \in full
    <3>1. size[a[i]] < size[a[i - 1]] /\ size[a[i - 1]] <= n - (i - 1)
      BY <2>6, <2>7, <2>8
    <3>2. size[a[i]] \in Nat /\ size[a[i - 1]] \in Nat
      BY <2>7
    <3>3. size[a[i]] <= n - i
      BY <2>5, <3>1, <3>2
    <3>4. QED
      BY <2>3, <3>3
  <2>9. CASE a[i - 1] \notin full
    BY <2>3, <2>7, <2>9
  <2>10. QED
    BY <2>8, <2>9
<1>2. fine(n)
  BY <1>1
<1>3. CASE a[n] \in full
  <2>1. size[a[n]] <= 0 /\ a[n] \in W
    BY <1>2, <1>3
  <2>2. step[a[n]] \in W /\ size[step[a[n]]] < size[a[n]]
    BY <1>3, <2>1
  <2>3. size[step[a[n]]] \in Nat /\ size[a[n]] \in Nat
    BY <2>1, <2>2
  <2>4. QED
    BY <2>1, <2>2, <2>3
<1>4. QED
  BY <1>3

(* The store, for some registered cursors.                                 *)
Entry(R) ==
  {e \in [cursor : R, id : CallIds, ordinal : Nat, tool : Calls \cup {Ambiguous}, bytes : Nat] :
     IdBytes[e.id] <= e.bytes}

Stores(R) ==
  [entries : SUBSET Entry(R), order : UNION {[D -> R] : D \in SUBSET Nat}, owned : [R -> Nat],
   total : Nat, coverage : [R -> [epoch : Nat, lost : Nat]], next : Nat]

(* The entries of one cursor in a store.                                    *)
OfCursor(s, c) == {e \in s.entries : e.cursor = c}

(* Its accounts are exact.                                                 *)
Sound(R, s) ==
  /\ s \in Stores(R) /\ IsFiniteSet(s.entries)
  /\ \A e, f \in s.entries : (e.ordinal = f.ordinal \/ (e.cursor = f.cursor /\ e.id = f.id)) => e = f
  /\ DOMAIN s.order = {e.ordinal : e \in s.entries}
  /\ \A e \in s.entries : s.order[e.ordinal] = e.cursor /\ e.ordinal < s.next
  /\ \A c \in R : s.owned[c] = BytesOf(OfCursor(s, c))
  /\ s.total = BytesOf(s.entries)

(* What it gave up of s, it admits.                                        *)
GaveUp(R, s, t) ==
  /\ t.entries \subseteq s.entries /\ t.next = s.next
  /\ \A c \in R : /\ t.coverage[c].epoch = s.coverage[c].epoch
                  /\ s.coverage[c].lost > 0 => t.coverage[c].lost > 0
  /\ \A e \in s.entries \ t.entries : t.coverage[e.cursor].lost > 0

(* What the fields of a sound store are.                                    *)
LEMMA StoreFields ==
  ASSUME NEW R, NEW s, Sound(R, s)
  PROVE  /\ s.entries \subseteq Entry(R) /\ s.owned \in [R -> Nat] /\ s.total \in Nat
         /\ s.coverage \in [R -> [epoch : Nat, lost : Nat]] /\ s.next \in Nat
         /\ s.order \in [DOMAIN s.order -> R] /\ DOMAIN s.order \subseteq Nat
         /\ Weighed(s.entries)
         /\ \A c : Weighed(OfCursor(s, c)) /\ OfCursor(s, c) \subseteq s.entries
<1>1. s \in Stores(R)
  BY DEF Sound
<1>2. /\ s.entries \in SUBSET Entry(R) /\ s.owned \in [R -> Nat] /\ s.total \in Nat
      /\ s.coverage \in [R -> [epoch : Nat, lost : Nat]] /\ s.next \in Nat
      /\ s.order \in UNION {[D -> R] : D \in SUBSET Nat}
  BY <1>1 DEF Stores
<1>3. PICK D \in SUBSET Nat : s.order \in [D -> R]
  BY <1>2
<1>4. \A e \in s.entries : e.bytes \in Nat
  BY <1>2 DEF Entry
<1>5. Weighed(s.entries)
  BY <1>4 DEF Sound, Weighed
<1>6. \A c : OfCursor(s, c) \in SUBSET s.entries
  BY DEF OfCursor
<1>7. \A c : Weighed(OfCursor(s, c))
  BY <1>5, <1>6, BytesDifference
<1>8. QED
  BY <1>2, <1>3, <1>5, <1>6, <1>7

(* evict, of an entry that is there.                                       *)
LEMMA EvictKeepsAccounts ==
  ASSUME NEW R, NEW s, Sound(R, s), NEW gone \in s.entries
  PROVE  LET t == EntryEvicted(s, gone.ordinal)
         IN /\ Sound(R, t) /\ t.entries = s.entries \ {gone} /\ GaveUp(R, s, t)
            /\ Cardinality(t.entries) < Cardinality(s.entries)
<1> DEFINE t == EntryEvicted(s, gone.ordinal)
           c == gone.cursor
<1>1. /\ s.entries \subseteq Entry(R) /\ s.owned \in [R -> Nat] /\ s.total \in Nat
      /\ s.coverage \in [R -> [epoch : Nat, lost : Nat]] /\ s.next \in Nat
      /\ s.order \in [DOMAIN s.order -> R] /\ DOMAIN s.order \subseteq Nat
      /\ Weighed(s.entries)
      /\ \A d : Weighed(OfCursor(s, d)) /\ OfCursor(s, d) \subseteq s.entries
  BY StoreFields
<1>2. (CHOOSE e \in s.entries : e.ordinal = gone.ordinal) = gone
  BY DEF Sound
<1>3. t = [s EXCEPT !.entries = @ \ {gone}, !.order = Drop(@, {gone.ordinal}),
                    !.owned[gone.cursor] = @ - gone.bytes, !.total = @ - gone.bytes,
                    !.coverage[gone.cursor].lost = Counted(@)]
  BY <1>2 DEF EntryEvicted
<1>4. gone \in Entry(R) /\ c \in R /\ gone.bytes \in Nat /\ gone.ordinal \in Nat
  BY <1>1 DEF Entry
<1>5. s \in Stores(R)
  BY DEF Sound
<1> DEFINE record == [entries |-> s.entries \ {gone}, order |-> Drop(s.order, {gone.ordinal}),
                      owned |-> [s.owned EXCEPT ![c] = @ - gone.bytes], total |-> s.total - gone.bytes,
                      coverage |-> [s.coverage EXCEPT ![c].lost = Counted(@)], next |-> s.next]
<1>6. t = record
  BY <1>3, <1>5 DEF Stores
<1> HIDE DEF t
<1>7. /\ t.entries = s.entries \ {gone} /\ t.order = Drop(s.order, {gone.ordinal})
      /\ t.owned = [s.owned EXCEPT ![c] = @ - gone.bytes] /\ t.total = s.total - gone.bytes
      /\ t.coverage = [s.coverage EXCEPT ![c].lost = Counted(@)] /\ t.next = s.next
  BY <1>6
<1>8. /\ BytesOf(t.entries) \in Nat /\ t.total = BytesOf(t.entries)
      /\ Weighed(t.entries)
  <2>1. s.total = BytesOf(s.entries)
    BY DEF Sound
  <2>2. QED
    BY <1>1, <1>7, <2>1, BytesWithout
<1>9. \A d \in R : t.owned[d] = BytesOf(OfCursor(t, d)) /\ t.owned[d] \in Nat
  <2>1. ASSUME NEW d \in R PROVE t.owned[d] = BytesOf(OfCursor(t, d)) /\ t.owned[d] \in Nat
    <3>1. s.owned[d] = BytesOf(OfCursor(s, d)) /\ s.owned[d] \in Nat
      BY <1>1 DEF Sound
    <3>2. CASE d = c
      <4>1. OfCursor(t, d) = OfCursor(s, d) \ {gone} /\ gone \in OfCursor(s, d)
        BY <1>7, <3>2 DEF OfCursor
      <4>2. BytesOf(OfCursor(s, d) \ {gone}) = BytesOf(OfCursor(s, d)) - gone.bytes
            /\ BytesOf(OfCursor(s, d) \ {gone}) \in Nat
        BY <1>1, <4>1, BytesWithout
      <4>3. t.owned[d] = s.owned[d] - gone.bytes
        BY <1>1, <1>7, <3>2
      <4>4. QED
        BY <3>1, <4>1, <4>2, <4>3
    <3>3. CASE d # c
      <4>1. OfCursor(t, d) = OfCursor(s, d)
        BY <1>7, <3>3 DEF OfCursor
      <4>2. t.owned[d] = s.owned[d]
        BY <1>1, <1>7, <3>3
      <4>3. QED
        BY <3>1, <4>1, <4>2
    <3>4. QED
      BY <3>2, <3>3
  <2>2. QED
    BY <2>1
<1>10. /\ DOMAIN t.order = {e.ordinal : e \in t.entries}
       /\ \A e \in t.entries : t.order[e.ordinal] = e.cursor
       /\ t.order \in [DOMAIN t.order -> R] /\ DOMAIN t.order \in SUBSET Nat
  <2>1. t.order = [k \in DOMAIN s.order \ {gone.ordinal} |-> s.order[k]]
    BY <1>7 DEF Drop
  <2>2. DOMAIN s.order = {e.ordinal : e \in s.entries}
        /\ \A e \in s.entries : s.order[e.ordinal] = e.cursor
    BY DEF Sound
  <2>3. \A e \in t.entries : e \in s.entries /\ e.ordinal # gone.ordinal
    BY <1>7 DEF Sound
  <2>4. DOMAIN t.order = DOMAIN s.order \ {gone.ordinal}
    BY <2>1
  <2>5. DOMAIN t.order = {e.ordinal : e \in t.entries}
    <3>1. ASSUME NEW n \in DOMAIN t.order PROVE \E e \in t.entries : n = e.ordinal
      <4>1. PICK e \in s.entries : n = e.ordinal
        BY <2>2, <2>4
      <4>2. e # gone
        BY <2>4, <4>1
      <4>3. QED
        BY <1>7, <4>1, <4>2
    <3>2. \A e \in t.entries : e.ordinal \in DOMAIN t.order
      BY <2>2, <2>3, <2>4
    <3>3. QED
      BY <3>1, <3>2
  <2>6. \A e \in t.entries : t.order[e.ordinal] = e.cursor
    BY <2>1, <2>2, <2>3
  <2>7. t.order \in [DOMAIN t.order -> R]
    <3>1. \A k \in DOMAIN t.order : t.order[k] = s.order[k] /\ k \in DOMAIN s.order
      BY <2>1, <2>4
    <3>2. \A k \in DOMAIN t.order : t.order[k] \in R
      BY <1>1, <3>1
    <3>3. t.order = [k \in DOMAIN t.order |-> t.order[k]]
      BY <2>1
    <3>4. QED
      BY <3>2, <3>3
  <2>8. QED
    BY <1>1, <2>4, <2>5, <2>6, <2>7
<1>11. /\ t.coverage \in [R -> [epoch : Nat, lost : Nat]]
       /\ t.coverage[c].lost > 0
       /\ \A d \in R : /\ t.coverage[d].epoch = s.coverage[d].epoch
                       /\ s.coverage[d].lost > 0 => t.coverage[d].lost > 0
  <2>1. s.coverage[c].lost \in Nat /\ s.coverage[c] \in [epoch : Nat, lost : Nat]
    BY <1>1, <1>4
  <2>2. Counted(s.coverage[c].lost) \in Nat /\ Counted(s.coverage[c].lost) > 0
    BY <2>1, PendingAssumption DEF Counted
  <2>3. \A d \in R : t.coverage[d] = IF d = c THEN [s.coverage[c] EXCEPT !.lost = Counted(s.coverage[c].lost)]
                                     ELSE s.coverage[d]
    BY <1>1, <1>4, <1>7
  <2>4. t.coverage[c] = [epoch |-> s.coverage[c].epoch, lost |-> Counted(s.coverage[c].lost)]
    BY <1>4, <2>1, <2>3
  <2>5. \A d \in R : t.coverage[d] \in [epoch : Nat, lost : Nat]
    BY <1>1, <2>1, <2>2, <2>3, <2>4
  <2>6. DOMAIN t.coverage = R
    BY <1>1, <1>7
  <2>7. t.coverage \in [R -> [epoch : Nat, lost : Nat]]
    BY <1>1, <1>7, <2>5, <2>6
  <2>8. QED
    BY <2>2, <2>3, <2>4, <2>7
<1>12. t.owned \in [R -> Nat]
  BY <1>1, <1>7, <1>9
<1>13. t \in Stores(R)
  <2>1. t.entries \in SUBSET Entry(R)
    BY <1>1, <1>7
  <2>2. t.order \in UNION {[D -> R] : D \in SUBSET Nat}
    BY <1>10
  <2>3. t.total \in Nat /\ t.next \in Nat
    BY <1>1, <1>7, <1>8
  <2>4. t = [entries |-> t.entries, order |-> t.order, owned |-> t.owned, total |-> t.total,
             coverage |-> t.coverage, next |-> t.next]
    BY <1>6, <1>7
  <2>5. QED
    BY <1>11, <1>12, <2>1, <2>2, <2>3, <2>4 DEF Stores
<1>14. \A e, f \in t.entries : (e.ordinal = f.ordinal \/ (e.cursor = f.cursor /\ e.id = f.id)) => e = f
  BY <1>7 DEF Sound
<1>15. \A e \in t.entries : e.ordinal < t.next
  BY <1>7 DEF Sound
<1>16. IsFiniteSet(t.entries)
  BY <1>8 DEF Weighed
<1>17. Sound(R, t)
  BY <1>8, <1>9, <1>10, <1>13, <1>14, <1>15, <1>16 DEF Sound
<1>18. GaveUp(R, s, t)
  BY <1>7, <1>11 DEF GaveUp
<1>19. Cardinality(t.entries) < Cardinality(s.entries)
  <2>1. IsFiniteSet(s.entries)
    BY DEF Sound
  <2>2. Cardinality(s.entries) \in Nat /\ Cardinality(s.entries \ {gone}) = Cardinality(s.entries) - 1
    BY <2>1, FS_CardinalityType, FS_RemoveElement
  <2>3. QED
    BY <1>7, <2>2
<1>20. QED
  BY <1>7, <1>17, <1>18, <1>19 DEF t

(* The sound stores that remain of s when entries are given up.            *)
Remains(R, s) == {t \in Stores(R) : Sound(R, t) /\ GaveUp(R, s, t)}

(* What is given up in two steps is given up.                              *)
LEMMA GaveUpMore ==
  ASSUME NEW R, NEW s, NEW t, NEW u, Sound(R, s), GaveUp(R, s, t), GaveUp(R, t, u)
  PROVE  GaveUp(R, s, u)
<1>1. s.entries \subseteq Entry(R)
  BY StoreFields
<1>2. \A e \in s.entries : e.cursor \in R
  BY <1>1 DEF Entry
<1>3. u.entries \subseteq s.entries /\ u.next = s.next
  BY DEF GaveUp
<1>4. \A c \in R : /\ u.coverage[c].epoch = s.coverage[c].epoch
                   /\ s.coverage[c].lost > 0 => u.coverage[c].lost > 0
  BY DEF GaveUp
<1>5. ASSUME NEW e \in s.entries \ u.entries PROVE u.coverage[e.cursor].lost > 0
  <2>1. CASE e \in t.entries
    BY <1>5, <2>1 DEF GaveUp
  <2>2. CASE e \notin t.entries
    BY <1>2, <1>5, <2>2 DEF GaveUp
  <2>3. QED
    BY <2>1, <2>2
<1>6. QED
  BY <1>3, <1>4, <1>5 DEF GaveUp

(* A store remains of itself.                                               *)
LEMMA NothingGivenUp ==
  ASSUME NEW R, NEW s, Sound(R, s)
  PROVE  s \in Remains(R, s) /\ Size(s) \in Nat
<1>1. s \in Stores(R) /\ Size(s) \in Nat
  BY FS_CardinalityType DEF Sound, Size
<1>2. QED
  BY <1>1 DEF Remains, GaveUp

(* The ordinal to evict of a full store is that of an entry.               *)
Evictable(R, s, full, least) ==
  \A t \in Remains(R, s) : t \in full => \E e \in t.entries : least[t] = e.ordinal

(* It is evicted as long as the store is full.                             *)
Evicting(R, s, full, least, a) ==
  /\ a = [i \in 0..Size(s) |-> a[i]] /\ a[0] = s
  /\ \A i \in 1..Size(s) : a[i - 1] \in Remains(R, s) =>
       a[i] = IF a[i - 1] \in full THEN EntryEvicted(a[i - 1], least[a[i - 1]]) ELSE a[i - 1]

(* Evicting the entry of the least ordinal, as long as the store is full,  *)
(* is a sequence of steps,                                                 *)
LEMMA RoomSteps ==
  ASSUME NEW R, NEW s, Sound(R, s), NEW full, NEW least, Evictable(R, s, full, least)
  PROVE  \E a \in [0..Size(s) -> Remains(R, s)] : Evicting(R, s, full, least, a)
<1> DEFINE W == Remains(R, s)
           step == [t \in W |-> IF t \in full THEN EntryEvicted(t, least[t]) ELSE t]
<1>1. ASSUME NEW t \in W PROVE step[t] \in W
  <2>1. CASE t \in full
    <3>1. PICK e \in t.entries : least[t] = e.ordinal
      BY <2>1 DEF Evictable
    <3>2. Sound(R, t) /\ GaveUp(R, s, t)
      BY DEF Remains
    <3>3. Sound(R, EntryEvicted(t, e.ordinal)) /\ GaveUp(R, t, EntryEvicted(t, e.ordinal))
      BY <3>2, EvictKeepsAccounts
    <3>4. GaveUp(R, s, EntryEvicted(t, e.ordinal))
      BY <3>2, <3>3, GaveUpMore
    <3>5. EntryEvicted(t, e.ordinal) \in Stores(R)
      BY <3>3 DEF Sound
    <3>6. step[t] = EntryEvicted(t, e.ordinal)
      BY <2>1, <3>1
    <3>7. QED
      BY <3>3, <3>4, <3>5, <3>6 DEF Remains
  <2>2. CASE t \notin full
    BY <2>2
  <2>3. QED
    BY <2>1, <2>2
<1>2. step \in [W -> W]
  BY <1>1
<1>3. s \in W /\ Size(s) \in Nat
  BY NothingGivenUp
<1> HIDE DEF step, W
<1>4. PICK a \in [0..Size(s) -> W] : a[0] = s /\ \A i \in 1..Size(s) : a[i] = step[a[i - 1]]
  <2>1. PICK a \in [0..Size(s) -> W] : Iterates(step, s, Size(s), a)
    BY <1>2, <1>3, Repeated
  <2>2. QED
    BY <2>1 DEF Iterates
<1>5. \A i \in 1..Size(s) : a[i - 1] \in W
  BY <1>3, <1>4
<1>6. \A t \in W : step[t] = IF t \in full THEN EntryEvicted(t, least[t]) ELSE t
  BY DEF step
<1>7. a = [i \in 0..Size(s) |-> a[i]]
  BY <1>4
<1>8. ASSUME NEW i \in 1..Size(s)
      PROVE  a[i] = IF a[i - 1] \in full THEN EntryEvicted(a[i - 1], least[a[i - 1]]) ELSE a[i - 1]
  <2>1. a[i] = step[a[i - 1]] /\ a[i - 1] \in W
    BY <1>4, <1>5
  <2>2. QED
    BY <1>6, <2>1
<1>9. Evicting(R, s, full, least, a)
  BY <1>4, <1>7, <1>8 DEF Evicting
<1>10. QED
  BY <1>4, <1>9 DEF W

(* which ends with room.                                                   *)
LEMMA RoomMade ==
  ASSUME NEW R, NEW s, Sound(R, s), NEW full, NEW least, Evictable(R, s, full, least),
         NEW a, Evicting(R, s, full, least, a)
  PROVE  a[Size(s)] \in Remains(R, s) /\ a[Size(s)] \notin full
<1> DEFINE W == Remains(R, s)
           step == [t \in W |-> IF t \in full THEN EntryEvicted(t, least[t]) ELSE t]
           n == Size(s)
<1>1. ASSUME NEW t \in W PROVE step[t] \in W /\ (t \in full => Size(step[t]) < Size(t))
  <2>1. CASE t \in full
    <3>1. PICK e \in t.entries : least[t] = e.ordinal
      BY <2>1 DEF Evictable
    <3>2. Sound(R, t) /\ GaveUp(R, s, t)
      BY DEF Remains
    <3>3. /\ Sound(R, EntryEvicted(t, e.ordinal)) /\ GaveUp(R, t, EntryEvicted(t, e.ordinal))
          /\ Size(EntryEvicted(t, e.ordinal)) < Size(t)
      BY <3>2, EvictKeepsAccounts DEF Size
    <3>4. GaveUp(R, s, EntryEvicted(t, e.ordinal))
      BY <3>2, <3>3, GaveUpMore
    <3>5. EntryEvicted(t, e.ordinal) \in Stores(R)
      BY <3>3 DEF Sound
    <3>6. step[t] = EntryEvicted(t, e.ordinal)
      BY <2>1, <3>1
    <3>7. QED
      BY <3>3, <3>4, <3>5, <3>6 DEF Remains
  <2>2. CASE t \notin full
    BY <2>2
  <2>3. QED
    BY <2>1, <2>2
<1>2. step \in [W -> W]
  BY <1>1
<1>3. s \in W /\ n \in Nat
  BY NothingGivenUp
<1>4. \A t \in W : Size(t) \in Nat
  <2>1. ASSUME NEW t \in W PROVE Size(t) \in Nat
    <3>1. Sound(R, t)
      BY DEF Remains
    <3>2. QED
      BY <3>1, NothingGivenUp
  <2>2. QED
    BY <2>1
<1>5. \A i \in 1..n : a[i - 1] \in W => a[i] = step[a[i - 1]]
  BY DEF Evicting
<1>6. \A t \in W \ full : step[t] = t
  OBVIOUS
<1>7. \A t \in W : t \in full => Size(step[t]) < Size(t)
  BY <1>1
<1> HIDE DEF step, W, n
<1>8. \A i \in 0..n : a[i] \in W
  <2> DEFINE bad == {i \in 0..n : a[i] \notin W}
  <2>1. ASSUME bad # {} PROVE FALSE
    <3>1. bad \in SUBSET Nat
      BY <1>3
    <3>2. PICK i \in bad : \A j \in bad : i <= j
      BY <2>1, <3>1, LeastOf
    <3>3. i \in 0..n /\ a[i] \notin W
      BY <3>2
    <3>4. i # 0
      BY <1>3, <3>3 DEF Evicting
    <3>5. i \in 1..n /\ i - 1 \in 0..n /\ i - 1 \notin bad
      <4> HIDE DEF bad
      <4>1. i \in 1..n /\ i - 1 \in 0..n
        BY <1>3, <3>3, <3>4
      <4>2. QED
        BY <3>2, <3>3, <4>1
    <3>6. a[i - 1] \in W
      BY <3>5
    <3>7. a[i] = step[a[i - 1]]
      BY <1>5, <3>5, <3>6
    <3>8. QED
      BY <1>2, <3>3, <3>6, <3>7
  <2>2. QED
    BY <2>1
<1>9. a \in [0..n -> W] /\ a[0] = s
  BY <1>8 DEF n, Evicting
<1>10. \A i \in 1..n : a[i] = step[a[i - 1]]
  <2>1. \A i \in 1..n : i - 1 \in 0..n
    BY <1>3
  <2>2. QED
    BY <1>5, <1>8, <2>1
<1> DEFINE size == [t \in W |-> Size(t)]
           f == W \cap full
<1>11. size \in [W -> Nat] /\ f \in SUBSET W
  BY <1>4
<1>12. \A t \in f : size[step[t]] < size[t]
  <2>1. \A t \in f : step[t] \in W
    BY <1>2
  <2>2. QED
    BY <1>7, <2>1
<1>13. \A t \in W \ f : step[t] = t
  BY <1>6
<1>14. size[a[0]] <= n
  BY <1>3, <1>4, <1>9 DEF n
<1> HIDE DEF size, f
<1>15. a[n] \notin f
  <2>1. n \in Nat /\ Iterates(step, s, n, a) /\ size[s] <= n
    BY <1>3, <1>9, <1>10, <1>14 DEF Iterates
  <2>2. QED
    BY <1>2, <1>9, <1>11, <1>12, <1>13, <2>1, Exhausted
<1>16. a[n] \in W
  BY <1>3, <1>8
<1>17. QED
  BY <1>15, <1>16 DEF f, n, W

(* The loop for one cursor ends with room in it.                           *)
LEMMA CursorRoomMade ==
  ASSUME NEW R, NEW s, Sound(R, s), NEW owner \in R, NEW bytes \in Nat, bytes <= CursorBytes
  PROVE  LET t == CursorRoom(s, owner, bytes)
         IN /\ t \in Remains(R, s)
            /\ Cardinality(OfCursor(t, owner)) < CursorEntries
            /\ t.owned[owner] + bytes <= CursorBytes
<1> DEFINE ordinals(t) == {e.ordinal : e \in {f \in t.entries : f.cursor = owner}}
           crowded(t) == \/ Cardinality({e \in t.entries : e.cursor = owner}) >= CursorEntries
                         \/ t.owned[owner] + bytes > CursorBytes
           W == Remains(R, s)
           full == {t \in W : crowded(t)}
           least == [t \in W |-> Min(ordinals(t))]
           Is(after) == after = [n \in 0..Size(s) |->
                          IF n = 0 THEN s
                          ELSE LET t == after[n - 1]
                               IN IF crowded(t) THEN EntryEvicted(t, Min(ordinals(t))) ELSE t]
           h == CHOOSE after : Is(after)
<1>1. ASSUME NEW t \in W
      PROVE  /\ t \in full => \E e \in t.entries : least[t] = e.ordinal
             /\ t \notin full => /\ Cardinality(OfCursor(t, owner)) < CursorEntries
                                 /\ t.owned[owner] + bytes <= CursorBytes
  <2>1. Sound(R, t)
    BY DEF Remains
  <2>2. /\ t.entries \subseteq Entry(R) /\ t.owned \in [R -> Nat]
        /\ Weighed(OfCursor(t, owner)) /\ t.owned[owner] = BytesOf(OfCursor(t, owner))
    BY <2>1, StoreFields DEF Sound
  <2>3. {e \in t.entries : e.cursor = owner} = OfCursor(t, owner)
    BY DEF OfCursor
  <2>4. Cardinality(OfCursor(t, owner)) \in Nat /\ t.owned[owner] \in Nat
    BY <2>2, FS_CardinalityType DEF Weighed
  <2>5. ASSUME t \in full PROVE \E e \in t.entries : least[t] = e.ordinal
    <3>1. OfCursor(t, owner) # {}
      <4>1. ASSUME OfCursor(t, owner) = {} PROVE FALSE
        <5>1. Cardinality(OfCursor(t, owner)) = 0 /\ t.owned[owner] = 0
          BY <2>2, <4>1, BytesAddUp, FS_EmptySet
        <5>2. crowded(t)
          BY <2>5
        <5>3. ~(0 >= CursorEntries) /\ ~(0 + bytes > CursorBytes)
          BY PendingAssumption
        <5>4. QED
          BY <2>3, <5>1, <5>2, <5>3
      <4>2. QED
        BY <4>1
    <3>2. ordinals(t) = {e.ordinal : e \in OfCursor(t, owner)}
      BY DEF OfCursor
    <3>3. ordinals(t) \in SUBSET Nat
      BY <2>2 DEF Entry
    <3>4. ordinals(t) # {}
      BY <3>1, <3>2
    <3>5. least[t] = Min(ordinals(t))
      OBVIOUS
    <3>6. \A n \in ordinals(t) : \E e \in t.entries : n = e.ordinal
      OBVIOUS
    <3> HIDE DEF ordinals, least
    <3>7. Min(ordinals(t)) \in ordinals(t)
      BY <3>3, <3>4, LeastIs
    <3>8. QED
      BY <3>5, <3>6, <3>7
  <2>6. ASSUME t \notin full
        PROVE  /\ Cardinality(OfCursor(t, owner)) < CursorEntries
               /\ t.owned[owner] + bytes <= CursorBytes
    <3>1. ~crowded(t)
      BY <2>6
    <3>2. ~(Cardinality(OfCursor(t, owner)) >= CursorEntries) /\ ~(t.owned[owner] + bytes > CursorBytes)
      BY <2>3, <3>1
    <3>3. CursorEntries \in Nat /\ CursorBytes \in Nat
      BY PendingAssumption
    <3>4. QED
      BY <2>4, <3>2, <3>3
  <2>7. QED
    BY <2>5, <2>6
<1>2. Evictable(R, s, full, least)
  <2> HIDE DEF full, least
  <2>1. QED
    BY <1>1 DEF Evictable
<1>3. \A t \in W : crowded(t) <=> t \in full
  OBVIOUS
<1>4. \A t \in W : least[t] = Min(ordinals(t))
  OBVIOUS
<1>5. CursorRoom(s, owner, bytes) = h[Size(s)]
  BY DEF CursorRoom
<1>6. Size(s) \in Nat
  BY NothingGivenUp
<1> HIDE DEF full, least, crowded, ordinals, W
<1>7. PICK a \in [0..Size(s) -> W] : Evicting(R, s, full, least, a)
  BY <1>2, RoomSteps DEF W
<1>8. Is(a)
  <2>1. ASSUME NEW i \in 0..Size(s), i # 0
        PROVE  a[i] = IF crowded(a[i - 1]) THEN EntryEvicted(a[i - 1], Min(ordinals(a[i - 1]))) ELSE a[i - 1]
    <3>1. i \in 1..Size(s) /\ i - 1 \in 0..Size(s)
      BY <1>6, <2>1
    <3>2. a[i - 1] \in W
      BY <1>7, <3>1
    <3>3. a[i] = IF a[i - 1] \in full THEN EntryEvicted(a[i - 1], least[a[i - 1]]) ELSE a[i - 1]
      BY <1>7, <3>1, <3>2 DEF Evicting, W
    <3>4. QED
      BY <1>3, <1>4, <3>2, <3>3
  <2>2. a = [i \in 0..Size(s) |-> a[i]] /\ a[0] = s
    BY <1>7 DEF Evicting
  <2>3. QED
    BY <2>1, <2>2
<1>9. Is(h)
  BY <1>8
<1> HIDE DEF h
<1>10. h = [i \in 0..Size(s) |-> h[i]] /\ h[0] = s
  BY <1>6, <1>9
<1>11. ASSUME NEW i \in 1..Size(s), h[i - 1] \in W
       PROVE  h[i] = IF h[i - 1] \in full THEN EntryEvicted(h[i - 1], least[h[i - 1]]) ELSE h[i - 1]
  <2>1. i \in 0..Size(s) /\ i # 0
    BY <1>6
  <2>2. h[i] = IF crowded(h[i - 1]) THEN EntryEvicted(h[i - 1], Min(ordinals(h[i - 1]))) ELSE h[i - 1]
    BY <1>9, <2>1
  <2>3. QED
    BY <1>3, <1>4, <1>11, <2>2
<1> HIDE DEF Is
<1>12. Evicting(R, s, full, least, h)
  BY <1>10, <1>11 DEF Evicting, W
<1>13. h[Size(s)] \in W /\ h[Size(s)] \notin full
  BY <1>2, <1>12, RoomMade DEF W
<1>14. QED
  BY <1>1, <1>5, <1>13 DEF W

(* The index has as many ordinals as there are entries.                    *)
LEMMA OrderCounts ==
  ASSUME NEW R, NEW s, Sound(R, s)
  PROVE  /\ IsFiniteSet(DOMAIN s.order) /\ DOMAIN s.order \in SUBSET Nat
         /\ Cardinality(DOMAIN s.order) = Cardinality(s.entries) /\ Cardinality(s.entries) \in Nat
<1> DEFINE f == [e \in s.entries |-> e.ordinal]
           D == DOMAIN s.order
<1>1. /\ IsFiniteSet(s.entries) /\ D = {e.ordinal : e \in s.entries}
      /\ \A d, e \in s.entries : d.ordinal = e.ordinal => d = e
  BY DEF Sound
<1>2. f \in Bijection(s.entries, D)
  BY <1>1 DEF Bijection, Injection, Surjection, IsInjective
<1>3. IsFiniteSet(D) /\ Cardinality(D) = Cardinality(s.entries)
  BY <1>1, <1>2, FS_Bijection DEF ExistsBijection
<1>4. QED
  BY <1>1, <1>3, FS_CardinalityType, StoreFields

(* The loop for the store ends with room in it.                            *)
LEMMA SourceRoomMade ==
  ASSUME NEW R, NEW s, Sound(R, s), NEW bytes \in Nat, bytes <= SourceBytes
  PROVE  LET t == SourceRoom(s, bytes)
         IN /\ t \in Remains(R, s)
            /\ Cardinality(t.entries) < SourceEntries
            /\ t.total + bytes <= SourceBytes
<1> DEFINE crowded(t) == Cardinality(DOMAIN t.order) >= SourceEntries \/ t.total + bytes > SourceBytes
           W == Remains(R, s)
           full == {t \in W : crowded(t)}
           least == [t \in W |-> Min(DOMAIN t.order)]
           Is(after) == after = [n \in 0..Size(s) |->
                          IF n = 0 THEN s
                          ELSE LET t == after[n - 1]
                               IN IF crowded(t) THEN EntryEvicted(t, Min(DOMAIN t.order)) ELSE t]
           h == CHOOSE after : Is(after)
<1>1. ASSUME NEW t \in W
      PROVE  /\ t \in full => \E e \in t.entries : least[t] = e.ordinal
             /\ t \notin full => /\ Cardinality(t.entries) < SourceEntries
                                 /\ t.total + bytes <= SourceBytes
  <2>1. Sound(R, t)
    BY DEF Remains
  <2>2. /\ Weighed(t.entries) /\ t.total = BytesOf(t.entries) /\ t.total \in Nat
        /\ DOMAIN t.order = {e.ordinal : e \in t.entries} /\ DOMAIN t.order \in SUBSET Nat
        /\ Cardinality(DOMAIN t.order) = Cardinality(t.entries) /\ Cardinality(t.entries) \in Nat
    <3>1. Weighed(t.entries) /\ t.total \in Nat
      BY <2>1, StoreFields
    <3>2. DOMAIN t.order \in SUBSET Nat /\ Cardinality(DOMAIN t.order) = Cardinality(t.entries)
          /\ Cardinality(t.entries) \in Nat
      BY <2>1, OrderCounts
    <3>3. t.total = BytesOf(t.entries) /\ DOMAIN t.order = {e.ordinal : e \in t.entries}
      BY <2>1 DEF Sound
    <3>4. QED
      BY <3>1, <3>2, <3>3
  <2>3. CursorEntries \in Nat /\ SourceEntries \in Nat \ {0} /\ SourceBytes \in Nat
    BY PendingAssumption
  <2>4. ASSUME t \in full PROVE \E e \in t.entries : least[t] = e.ordinal
    <3>1. t.entries # {}
      <4>1. ASSUME t.entries = {} PROVE FALSE
        <5>1. Cardinality(t.entries) = 0 /\ t.total = 0
          BY <2>2, <4>1, BytesAddUp, FS_EmptySet
        <5>2. Cardinality(DOMAIN t.order) >= SourceEntries \/ t.total + bytes > SourceBytes
          BY <2>4
        <5>3. QED
          BY <2>2, <2>3, <5>1, <5>2
      <4>2. QED
        BY <4>1
    <3>2. DOMAIN t.order # {}
      BY <2>2, <3>1
    <3>3. Min(DOMAIN t.order) \in DOMAIN t.order
      BY <2>2, <3>2, LeastIs
    <3>4. QED
      BY <2>2, <3>3
  <2>5. ASSUME t \notin full
        PROVE  Cardinality(t.entries) < SourceEntries /\ t.total + bytes <= SourceBytes
    <3>1. ~(Cardinality(DOMAIN t.order) >= SourceEntries) /\ ~(t.total + bytes > SourceBytes)
      BY <2>5
    <3>2. QED
      BY <2>2, <2>3, <3>1
  <2>6. QED
    BY <2>4, <2>5
<1>2. Evictable(R, s, full, least)
  <2> HIDE DEF full, least
  <2>1. QED
    BY <1>1 DEF Evictable
<1>3. \A t \in W : crowded(t) <=> t \in full
  OBVIOUS
<1>4. \A t \in W : least[t] = Min(DOMAIN t.order)
  OBVIOUS
<1>5. SourceRoom(s, bytes) = h[Size(s)]
  BY DEF SourceRoom
<1>6. Size(s) \in Nat
  BY NothingGivenUp
<1> HIDE DEF full, least, crowded, W
<1>7. PICK a \in [0..Size(s) -> W] : Evicting(R, s, full, least, a)
  BY <1>2, RoomSteps DEF W
<1>8. Is(a)
  <2>1. ASSUME NEW i \in 0..Size(s), i # 0
        PROVE  a[i] = IF crowded(a[i - 1]) THEN EntryEvicted(a[i - 1], Min(DOMAIN a[i - 1].order)) ELSE a[i - 1]
    <3>1. i \in 1..Size(s) /\ i - 1 \in 0..Size(s)
      BY <1>6, <2>1
    <3>2. a[i - 1] \in W
      BY <1>7, <3>1
    <3>3. a[i] = IF a[i - 1] \in full THEN EntryEvicted(a[i - 1], least[a[i - 1]]) ELSE a[i - 1]
      BY <1>7, <3>1, <3>2 DEF Evicting, W
    <3>4. QED
      BY <1>3, <1>4, <3>2, <3>3
  <2>2. a = [i \in 0..Size(s) |-> a[i]] /\ a[0] = s
    BY <1>7 DEF Evicting
  <2>3. QED
    BY <2>1, <2>2
<1>9. Is(h)
  BY <1>8
<1> HIDE DEF h
<1>10. h = [i \in 0..Size(s) |-> h[i]] /\ h[0] = s
  BY <1>6, <1>9
<1>11. ASSUME NEW i \in 1..Size(s), h[i - 1] \in W
       PROVE  h[i] = IF h[i - 1] \in full THEN EntryEvicted(h[i - 1], least[h[i - 1]]) ELSE h[i - 1]
  <2>1. i \in 0..Size(s) /\ i # 0
    BY <1>6
  <2>2. h[i] = IF crowded(h[i - 1]) THEN EntryEvicted(h[i - 1], Min(DOMAIN h[i - 1].order)) ELSE h[i - 1]
    BY <1>9, <2>1
  <2>3. QED
    BY <1>3, <1>4, <1>11, <2>2
<1> HIDE DEF Is
<1>12. Evicting(R, s, full, least, h)
  BY <1>10, <1>11 DEF Evicting, W
<1>13. h[Size(s)] \in W /\ h[Size(s)] \notin full
  BY <1>2, <1>12, RoomMade DEF W
<1>14. QED
  BY <1>1, <1>5, <1>13 DEF W

(* What remains is no more than there was.                                 *)
LEMMA RemainsLess ==
  ASSUME NEW R, NEW s, Sound(R, s), NEW t \in Remains(R, s)
  PROVE  \A c \in R : /\ Cardinality(OfCursor(t, c)) \in Nat /\ Cardinality(OfCursor(s, c)) \in Nat
                      /\ t.owned[c] \in Nat /\ s.owned[c] \in Nat
                      /\ Cardinality(OfCursor(t, c)) <= Cardinality(OfCursor(s, c))
                      /\ t.owned[c] <= s.owned[c]
<1>1. Sound(R, t) /\ GaveUp(R, s, t)
  BY DEF Remains
<1>2. ASSUME NEW c \in R
      PROVE  /\ Cardinality(OfCursor(t, c)) \in Nat /\ Cardinality(OfCursor(s, c)) \in Nat
             /\ t.owned[c] \in Nat /\ s.owned[c] \in Nat
             /\ Cardinality(OfCursor(t, c)) <= Cardinality(OfCursor(s, c))
             /\ t.owned[c] <= s.owned[c]
  <2>1. OfCursor(t, c) \in SUBSET OfCursor(s, c)
    BY <1>1 DEF GaveUp, OfCursor
  <2>2. Weighed(OfCursor(s, c)) /\ Weighed(OfCursor(t, c)) /\ s.owned \in [R -> Nat] /\ t.owned \in [R -> Nat]
    BY <1>1, StoreFields
  <2>3. s.owned[c] = BytesOf(OfCursor(s, c)) /\ t.owned[c] = BytesOf(OfCursor(t, c))
    BY <1>1 DEF Sound
  <2>4. BytesOf(OfCursor(t, c)) <= BytesOf(OfCursor(s, c))
    BY <2>1, <2>2, BytesDifference
  <2>5. /\ Cardinality(OfCursor(t, c)) \in Nat /\ Cardinality(OfCursor(s, c)) \in Nat
        /\ Cardinality(OfCursor(t, c)) <= Cardinality(OfCursor(s, c))
    BY <2>1, <2>2, FS_CardinalityType, FS_Subset DEF Weighed
  <2>6. QED
    BY <2>2, <2>3, <2>4, <2>5
<1>3. QED
  BY <1>2

(* The rank of an ordinal among the others grows with it.                  *)
LEMMA RankGrows ==
  ASSUME NEW D \in SUBSET Nat, IsFiniteSet(D), NEW m \in D, NEW n \in D
  PROVE  /\ Cardinality({k \in D : k < m}) \in Nat
         /\ Cardinality({k \in D : k < m}) < Cardinality(D)
         /\ Cardinality({k \in D : k < m}) = Cardinality({k \in D : k < n}) => m = n
<1>1. ASSUME NEW a \in D, NEW b \in D, a < b
      PROVE  Cardinality({k \in D : k < a}) # Cardinality({k \in D : k < b})
  <2> DEFINE A == {k \in D : k < a}
             B == {k \in D : k < b}
  <2>0. a \in Nat /\ b \in Nat /\ \A k \in D : k \in Nat
    OBVIOUS
  <2>1. A \in SUBSET B /\ a \in B /\ a \notin A
    <3>1. \A k \in D : k < a => k < b
      BY <1>1, <2>0
    <3>2. ~(a < a)
      BY <2>0
    <3>3. QED
      BY <1>1, <3>1, <3>2
  <2>2. IsFiniteSet(B)
    BY FS_Subset
  <2> HIDE DEF A, B
  <2>3. Cardinality(A) # Cardinality(B)
    BY <2>1, <2>2, FS_Subset
  <2>4. QED
    BY <2>3 DEF A, B
<1>2. Cardinality({k \in D : k < m}) \in Nat /\ Cardinality({k \in D : k < m}) < Cardinality(D)
  <2> DEFINE A == {k \in D : k < m}
  <2>1. A \in SUBSET D /\ A # D
    OBVIOUS
  <2> HIDE DEF A
  <2>2. IsFiniteSet(A) /\ Cardinality(A) <= Cardinality(D) /\ Cardinality(A) # Cardinality(D)
    BY <2>1, FS_Subset
  <2>3. Cardinality(A) \in Nat /\ Cardinality(D) \in Nat
    BY <2>2, FS_CardinalityType
  <2>4. Cardinality(A) < Cardinality(D)
    BY <2>2, <2>3
  <2>5. QED
    BY <2>3, <2>4 DEF A
<1>3. m < n \/ n < m \/ m = n
  OBVIOUS
<1>4. QED
  BY <1>1, <1>2, <1>3

(* The same entries under other ordinals.                                  *)
Renumbered(s, t) ==
  /\ t.owned = s.owned /\ t.total = s.total /\ t.coverage = s.coverage
  /\ Cardinality(t.entries) = Cardinality(s.entries)
  /\ \A c : Cardinality(OfCursor(t, c)) = Cardinality(OfCursor(s, c))
  /\ \A e \in s.entries : \E f \in t.entries : f.cursor = e.cursor /\ f.id = e.id /\ f.tool = e.tool
  /\ \A f \in t.entries : \E e \in s.entries : f.cursor = e.cursor /\ f.id = e.id /\ f.tool = e.tool

(* rebase_ordinals keeps the accounts and has an ordinal to give.          *)
LEMMA RebasedKeepsAccounts ==
  ASSUME NEW R, NEW s, Sound(R, s), s.next <= LastOrdinal, Cardinality(s.entries) < SourceEntries
  PROVE  LET t == Rebased(s) IN Sound(R, t) /\ t.next < LastOrdinal /\ Renumbered(s, t)
<1> DEFINE t == Rebased(s)
           D == DOMAIN s.order
           rank(n) == Cardinality({m \in D : m < n})
           m == [e \in s.entries |-> [e EXCEPT !.ordinal = rank(e.ordinal)]]
<1>1. /\ s.entries \subseteq Entry(R) /\ s.owned \in [R -> Nat] /\ s.total \in Nat
      /\ s.coverage \in [R -> [epoch : Nat, lost : Nat]] /\ s.next \in Nat
      /\ s.order \in [D -> R] /\ Weighed(s.entries)
      /\ \A c : Weighed(OfCursor(s, c)) /\ OfCursor(s, c) \subseteq s.entries
  BY StoreFields
<1>2. /\ IsFiniteSet(D) /\ D \in SUBSET Nat
      /\ Cardinality(D) = Cardinality(s.entries) /\ Cardinality(s.entries) \in Nat
  BY OrderCounts
<1>3. LastOrdinal \in Nat /\ SourceEntries \in Nat /\ SourceEntries < LastOrdinal
  BY PendingAssumption
<1>4. /\ \A d, e \in s.entries : (d.ordinal = e.ordinal \/ (d.cursor = e.cursor /\ d.id = e.id)) => d = e
      /\ D = {e.ordinal : e \in s.entries}
      /\ \A e \in s.entries : s.order[e.ordinal] = e.cursor /\ e.ordinal \in D
      /\ \A c \in R : s.owned[c] = BytesOf(OfCursor(s, c))
      /\ s.total = BytesOf(s.entries)
  BY DEF Sound
<1>5. CASE s.next < LastOrdinal
  <2>1. t = s
    BY <1>5 DEF Rebased
  <2>2. Renumbered(s, s)
    BY DEF Renumbered
  <2>3. QED
    BY <1>5, <2>1, <2>2
<1>6. CASE ~(s.next < LastOrdinal)
  <2> DEFINE ordered == [n \in {rank(k) : k \in D} |-> s.order[CHOOSE k \in D : rank(k) = n]]
             E == {[e EXCEPT !.ordinal = rank(@)] : e \in s.entries}
             record == [entries |-> E, order |-> ordered, owned |-> s.owned, total |-> s.total,
                        coverage |-> s.coverage, next |-> Cardinality(D)]
  <2>1. \A k \in D : rank(k) \in Nat /\ rank(k) < Cardinality(D)
    BY <1>2, RankGrows
  <2>2. \A k, n \in D : rank(k) = rank(n) => k = n
    BY <1>2, RankGrows
  <2>3. t = record
    <3>1. s \in Stores(R)
      BY DEF Sound
    <3>2. s = [entries |-> s.entries, order |-> s.order, owned |-> s.owned, total |-> s.total,
               coverage |-> s.coverage, next |-> s.next]
      BY <3>1 DEF Stores
    <3>3. t = [s EXCEPT !.entries = E, !.order = ordered, !.next = Cardinality(D)]
      BY <1>6 DEF Rebased
    <3> HIDE DEF E, ordered, t
    <3>4. QED
      BY <3>2, <3>3
  <2>4. E = {m[e] : e \in s.entries}
    OBVIOUS
  <2> HIDE DEF rank
  <2>5. ASSUME NEW e \in s.entries
        PROVE  /\ m[e].cursor = e.cursor /\ m[e].id = e.id /\ m[e].tool = e.tool /\ m[e].bytes = e.bytes
               /\ m[e].ordinal = rank(e.ordinal) /\ m[e] \in Entry(R) /\ rank(e.ordinal) < Cardinality(D)
    <3>1. e \in Entry(R) /\ rank(e.ordinal) \in Nat /\ rank(e.ordinal) < Cardinality(D)
      BY <1>1, <1>4, <2>1
    <3>2. m[e] = [e EXCEPT !.ordinal = rank(e.ordinal)]
      OBVIOUS
    <3> HIDE DEF m
    <3>3. m[e] = [cursor |-> e.cursor, id |-> e.id, ordinal |-> rank(e.ordinal), tool |-> e.tool, bytes |-> e.bytes]
      BY <3>1, <3>2 DEF Entry
    <3>4. QED
      BY <3>1, <3>3 DEF Entry
  <2> HIDE DEF m, E, ordered
  <2>6. \A d, e \in s.entries : (m[d].ordinal = m[e].ordinal \/ m[d] = m[e]) => d = e
    <3>1. \A d, e \in s.entries : rank(d.ordinal) = rank(e.ordinal) => d = e
      BY <1>4, <2>2
    <3>2. QED
      BY <2>5, <3>1
  <2>7. /\ t.entries = E /\ t.order = ordered /\ t.owned = s.owned /\ t.total = s.total
        /\ t.coverage = s.coverage /\ t.next = Cardinality(D)
    BY <2>3
  <2> HIDE DEF t
  <2>8. Weighed(E) /\ BytesOf(E) = BytesOf(s.entries) /\ Cardinality(E) = Cardinality(s.entries)
    BY <1>1, <2>4, <2>5, <2>6, BytesMapped
  <2>9. ASSUME NEW c
        PROVE  /\ BytesOf(OfCursor(t, c)) = BytesOf(OfCursor(s, c))
               /\ Cardinality(OfCursor(t, c)) = Cardinality(OfCursor(s, c))
    <3>1. OfCursor(t, c) = {m[e] : e \in OfCursor(s, c)}
      BY <2>4, <2>5, <2>7 DEF OfCursor
    <3>2. /\ \A d, e \in OfCursor(s, c) : m[d] = m[e] => d = e
          /\ \A e \in OfCursor(s, c) : m[e].bytes = e.bytes
          /\ Weighed(OfCursor(s, c))
      BY <1>1, <2>5, <2>6
    <3>3. QED
      BY <3>1, <3>2, BytesMapped
  <2>10. DOMAIN t.order = {e.ordinal : e \in t.entries}
    <3>1. DOMAIN t.order = {rank(k) : k \in D}
      BY <2>7 DEF ordered
    <3>2. {rank(k) : k \in D} = {rank(e.ordinal) : e \in s.entries}
      BY <1>4
    <3>3. {e.ordinal : e \in E} = {rank(e.ordinal) : e \in s.entries}
      BY <2>4, <2>5
    <3>4. QED
      BY <2>7, <3>1, <3>2, <3>3
  <2>11. \A k \in D : rank(k) \in DOMAIN t.order /\ t.order[rank(k)] = s.order[k]
    <3>1. ASSUME NEW k \in D PROVE rank(k) \in DOMAIN t.order /\ t.order[rank(k)] = s.order[k]
      <4>1. (CHOOSE j \in D : rank(j) = rank(k)) = k
        BY <2>2
      <4>2. QED
        BY <2>7, <4>1 DEF ordered
    <3>2. QED
      BY <3>1
  <2>12. t.order \in [DOMAIN t.order -> R] /\ DOMAIN t.order \in SUBSET Nat
    <3>1. t.order = [n \in DOMAIN t.order |-> t.order[n]] /\ DOMAIN t.order = {rank(k) : k \in D}
      BY <2>7 DEF ordered
    <3>2. \A n \in DOMAIN t.order : n \in Nat /\ t.order[n] \in R
      BY <1>1, <2>1, <2>11, <3>1
    <3>3. QED
      BY <3>1, <3>2
  <2>13. t \in Stores(R)
    <3>1. t.entries \in SUBSET Entry(R)
      BY <2>4, <2>5, <2>7
    <3>2. t.order \in UNION {[A -> R] : A \in SUBSET Nat}
      BY <2>12
    <3>3. t = [entries |-> t.entries, order |-> t.order, owned |-> t.owned, total |-> t.total,
               coverage |-> t.coverage, next |-> t.next]
      BY <2>3, <2>7
    <3>4. QED
      BY <1>1, <1>2, <2>7, <3>1, <3>2, <3>3 DEF Stores
  <2>14. \A d, e \in t.entries : (d.ordinal = e.ordinal \/ (d.cursor = e.cursor /\ d.id = e.id)) => d = e
    <3>1. ASSUME NEW d \in s.entries, NEW e \in s.entries,
                 m[d].ordinal = m[e].ordinal \/ (m[d].cursor = m[e].cursor /\ m[d].id = m[e].id)
          PROVE  d = e
      <4>1. d.ordinal = e.ordinal \/ (d.cursor = e.cursor /\ d.id = e.id)
        BY <2>5, <2>6, <3>1
      <4>2. QED
        BY <1>4, <4>1
    <3>2. QED
      BY <2>4, <2>7, <3>1
  <2>15. \A e \in t.entries : t.order[e.ordinal] = e.cursor /\ e.ordinal < t.next
    BY <1>4, <2>4, <2>5, <2>7, <2>11
  <2>16. Sound(R, t)
    BY <1>4, <2>7, <2>8, <2>9, <2>10, <2>13, <2>14, <2>15 DEF Sound, Weighed
  <2>17. t.next < LastOrdinal
    BY <1>2, <1>3, <2>7
  <2>18. Renumbered(s, t)
    BY <2>4, <2>5, <2>7, <2>8, <2>9 DEF Renumbered
  <2>19. QED
    BY <2>16, <2>17, <2>18 DEF t
<1>7. QED
  BY <1>5, <1>6

(* The limits of the store and of each cursor.                             *)
Limits(R, s) ==
  /\ s.total <= SourceBytes /\ Cardinality(s.entries) <= SourceEntries /\ s.next <= LastOrdinal
  /\ \A c \in R : Cardinality(OfCursor(s, c)) <= CursorEntries /\ s.owned[c] <= CursorBytes

(* What has a conflicting ID is a loss.                                    *)
Doubted(s) == \A e \in s.entries : e.tool = Ambiguous => s.coverage[e.cursor].lost > 0

(* An entry is that of a call.                                              *)
Says(e, owner, id, tool) == e.cursor = owner /\ e.id = id /\ e.tool = tool

(* Everything in s is in t or a loss, and no loss is forgotten.            *)
Carried(R, s, t) ==
  /\ \A c \in R : /\ t.coverage[c].epoch = s.coverage[c].epoch
                  /\ s.coverage[c].lost > 0 => t.coverage[c].lost > 0
  /\ \A e \in s.entries : \/ t.coverage[e.cursor].lost > 0
                          \/ \E f \in t.entries : Says(f, e.cursor, e.id, e.tool)

(* The store with one entry more.                                           *)
With(s, entry) ==
  [entries |-> s.entries \cup {entry}, order |-> Put(s.order, s.next, entry.cursor),
   owned |-> [s.owned EXCEPT ![entry.cursor] = @ + entry.bytes], total |-> s.total + entry.bytes,
   coverage |-> s.coverage, next |-> s.next + 1]

(* An entry more under the next ordinal.                                   *)
LEMMA WithKeepsAccounts ==
  ASSUME NEW R, NEW s, Sound(R, s), NEW entry \in Entry(R), entry.ordinal = s.next,
         \A e \in s.entries : ~(e.cursor = entry.cursor /\ e.id = entry.id)
  PROVE  /\ Sound(R, With(s, entry))
         /\ Cardinality(With(s, entry).entries) = Cardinality(s.entries) + 1
         /\ \A c : Cardinality(OfCursor(With(s, entry), c))
                     = Cardinality(OfCursor(s, c)) + (IF c = entry.cursor THEN 1 ELSE 0)
<1> DEFINE t == With(s, entry)
           owner == entry.cursor
<1>1. /\ s.entries \subseteq Entry(R) /\ s.owned \in [R -> Nat] /\ s.total \in Nat
      /\ s.coverage \in [R -> [epoch : Nat, lost : Nat]] /\ s.next \in Nat
      /\ s.order \in [DOMAIN s.order -> R] /\ DOMAIN s.order \subseteq Nat
      /\ Weighed(s.entries)
      /\ \A c : Weighed(OfCursor(s, c)) /\ OfCursor(s, c) \subseteq s.entries
  BY StoreFields
<1>2. /\ \A d, e \in s.entries : (d.ordinal = e.ordinal \/ (d.cursor = e.cursor /\ d.id = e.id)) => d = e
      /\ DOMAIN s.order = {e.ordinal : e \in s.entries}
      /\ \A e \in s.entries : s.order[e.ordinal] = e.cursor /\ e.ordinal < s.next
      /\ \A c \in R : s.owned[c] = BytesOf(OfCursor(s, c))
      /\ s.total = BytesOf(s.entries)
  BY DEF Sound
<1>3. owner \in R /\ entry.bytes \in Nat
  BY DEF Entry
<1>4. /\ t.entries = s.entries \cup {entry} /\ t.order = Put(s.order, s.next, owner)
      /\ t.owned = [s.owned EXCEPT ![owner] = @ + entry.bytes] /\ t.total = s.total + entry.bytes
      /\ t.coverage = s.coverage /\ t.next = s.next + 1
  BY DEF With
<1>5. \A e \in s.entries : e.ordinal # s.next /\ e # entry
  <2>1. \A e \in s.entries : e.ordinal \in Nat
    BY <1>1 DEF Entry
  <2>2. QED
    BY <1>1, <1>2, <2>1
<1>6. t = [entries |-> t.entries, order |-> t.order, owned |-> t.owned, total |-> t.total,
           coverage |-> t.coverage, next |-> t.next]
  BY DEF With
<1> HIDE DEF t
<1>7. Weighed(t.entries) /\ t.total = BytesOf(t.entries)
  BY <1>1, <1>2, <1>3, <1>4, <1>5, BytesWith
<1>8. Cardinality(t.entries) = Cardinality(s.entries) + 1
  <2>1. IsFiniteSet(s.entries) /\ entry \notin s.entries
    BY <1>1, <1>5 DEF Weighed
  <2>2. Cardinality(s.entries \cup {entry}) = Cardinality(s.entries) + 1
    BY <2>1, FS_AddElement
  <2>3. QED
    BY <1>4, <2>2
<1>9. ASSUME NEW c
      PROVE  /\ BytesOf(OfCursor(t, c)) = BytesOf(OfCursor(s, c)) + (IF c = owner THEN entry.bytes ELSE 0)
             /\ BytesOf(OfCursor(t, c)) \in Nat
             /\ Cardinality(OfCursor(t, c)) = Cardinality(OfCursor(s, c)) + (IF c = owner THEN 1 ELSE 0)
  <2>1. Weighed(OfCursor(s, c)) /\ BytesOf(OfCursor(s, c)) \in Nat /\ Cardinality(OfCursor(s, c)) \in Nat
    BY <1>1, BytesAddUp, FS_CardinalityType DEF Weighed
  <2>2. CASE c = owner
    <3>1. OfCursor(t, c) = OfCursor(s, c) \cup {entry} /\ entry \notin OfCursor(s, c)
      BY <1>4, <1>5, <2>2 DEF OfCursor
    <3>2. BytesOf(OfCursor(s, c) \cup {entry}) = BytesOf(OfCursor(s, c)) + entry.bytes
      BY <1>3, <2>1, <3>1, BytesWith
    <3>3. Cardinality(OfCursor(s, c) \cup {entry}) = Cardinality(OfCursor(s, c)) + 1
      BY <2>1, <3>1, FS_AddElement DEF Weighed
    <3>4. QED
      BY <1>3, <2>1, <2>2, <3>1, <3>2, <3>3
  <2>3. CASE c # owner
    <3>1. OfCursor(t, c) = OfCursor(s, c)
      BY <1>4, <2>3 DEF OfCursor
    <3>2. QED
      BY <2>1, <2>3, <3>1
  <2>4. QED
    BY <2>2, <2>3
<1>10. \A c \in R : t.owned[c] = BytesOf(OfCursor(t, c)) /\ t.owned[c] \in Nat
  <2>1. ASSUME NEW c \in R PROVE t.owned[c] = BytesOf(OfCursor(t, c)) /\ t.owned[c] \in Nat
    <3>1. t.owned[c] = s.owned[c] + (IF c = owner THEN entry.bytes ELSE 0)
      BY <1>1, <1>3, <1>4
    <3>2. s.owned[c] = BytesOf(OfCursor(s, c))
      BY <1>2
    <3>3. QED
      BY <1>9, <3>1, <3>2
  <2>2. QED
    BY <2>1
<1>11. DOMAIN t.order = {e.ordinal : e \in t.entries}
  <2>1. DOMAIN t.order = DOMAIN s.order \cup {s.next}
    BY <1>4 DEF Put
  <2>2. QED
    BY <1>2, <1>4, <2>1
<1>12. \A e \in t.entries : t.order[e.ordinal] = e.cursor /\ e.ordinal < t.next
  <2>1. \A k \in DOMAIN s.order \cup {s.next} : t.order[k] = IF k = s.next THEN owner ELSE s.order[k]
    BY <1>4 DEF Put
  <2>2. ASSUME NEW e \in s.entries PROVE t.order[e.ordinal] = e.cursor /\ e.ordinal < t.next
    <3>1. e.ordinal \in Nat /\ e.ordinal \in DOMAIN s.order /\ e.ordinal # s.next
      BY <1>1, <1>2, <1>5 DEF Entry
    <3>2. QED
      BY <1>1, <1>2, <1>4, <2>1, <3>1
  <2>3. t.order[entry.ordinal] = entry.cursor /\ entry.ordinal < t.next
    BY <1>1, <1>4, <2>1
  <2>4. QED
    BY <1>4, <2>2, <2>3
<1>13. t.order \in UNION {[D -> R] : D \in SUBSET Nat}
  <2>1. DOMAIN t.order \in SUBSET Nat /\ t.order = [k \in DOMAIN t.order |-> t.order[k]]
    BY <1>1, <1>4 DEF Put
  <2>2. \A k \in DOMAIN t.order : t.order[k] \in R
    BY <1>1, <1>3, <1>4 DEF Put
  <2>3. t.order \in [DOMAIN t.order -> R]
    BY <2>1, <2>2
  <2>4. QED
    BY <2>1, <2>3
<1>14. t \in Stores(R)
  <2>1. t.owned \in [R -> Nat]
    BY <1>1, <1>4, <1>10
  <2>2. t.total \in Nat /\ t.next \in Nat /\ t.entries \in SUBSET Entry(R)
        /\ t.coverage \in [R -> [epoch : Nat, lost : Nat]]
    BY <1>1, <1>3, <1>4
  <2>3. QED
    BY <1>6, <1>13, <2>1, <2>2 DEF Stores
<1>15. \A d, e \in t.entries : (d.ordinal = e.ordinal \/ (d.cursor = e.cursor /\ d.id = e.id)) => d = e
  BY <1>2, <1>4, <1>5
<1>16. Sound(R, t)
  BY <1>7, <1>10, <1>11, <1>12, <1>14, <1>15 DEF Sound, Weighed
<1>17. QED
  BY <1>8, <1>9, <1>16 DEF t

(* An insertion keeps the accounts and the limits, and admits what it      *)
(* gave up to make room.                                                   *)
LEMMA InsertionKeepsAccounts ==
  ASSUME NEW R, NEW s, Sound(R, s), Limits(R, s), Doubted(s), NEW owner \in R, NEW id \in CallIds,
         NEW call \in Calls, NEW bytes, bytes = OwnedBytes(id, call), ~Oversized(id, call),
         \A e \in s.entries : ~(e.cursor = owner /\ e.id = id),
         NEW u, u = Rebased(SourceRoom(CursorRoom(s, owner, bytes), bytes)),
         NEW t, t = With(u, [cursor |-> owner, id |-> id, ordinal |-> u.next, tool |-> call,
                             bytes |-> bytes])
  PROVE  /\ Sound(R, t) /\ Limits(R, t) /\ Doubted(t) /\ Carried(R, s, t)
         /\ \E f \in t.entries : Says(f, owner, id, call)
<1> DEFINE v == CursorRoom(s, owner, bytes)
           w == SourceRoom(v, bytes)
           entry == [cursor |-> owner, id |-> id, ordinal |-> u.next, tool |-> call, bytes |-> bytes]
<1>1. /\ call.bytes \in Nat /\ IdBytes[id] \in Nat /\ bytes \in Nat /\ IdBytes[id] <= bytes
      /\ call # Ambiguous /\ bytes <= CursorBytes /\ bytes <= SourceBytes
  BY PendingAssumption DEF OwnedBytes, Oversized
<1>2. /\ v \in Remains(R, s) /\ Cardinality(OfCursor(v, owner)) < CursorEntries
      /\ v.owned[owner] + bytes <= CursorBytes
  BY <1>1, CursorRoomMade
<1>3. Sound(R, v) /\ GaveUp(R, s, v)
  BY <1>2 DEF Remains
<1>4. /\ w \in Remains(R, v) /\ Cardinality(w.entries) < SourceEntries
      /\ w.total + bytes <= SourceBytes
  BY <1>1, <1>3, SourceRoomMade
<1>5. u = Rebased(w)
  OBVIOUS
<1> HIDE DEF v, w
<1>6. Sound(R, w) /\ GaveUp(R, v, w)
  BY <1>4 DEF Remains
<1>7. GaveUp(R, s, w)
  BY <1>3, <1>6, GaveUpMore
<1>8. w.next <= LastOrdinal
  BY <1>7 DEF GaveUp, Limits
<1>9. Sound(R, u) /\ u.next < LastOrdinal /\ Renumbered(w, u)
  BY <1>4, <1>5, <1>6, <1>8, RebasedKeepsAccounts
<1>10. u.next \in Nat /\ u.total \in Nat /\ u.owned \in [R -> Nat] /\ u.entries \subseteq Entry(R)
  BY <1>9, StoreFields
<1>11. entry \in Entry(R)
  BY <1>1, <1>10 DEF Entry
<1>12. \A e \in u.entries : ~(e.cursor = owner /\ e.id = id)
  <2>1. ASSUME NEW e \in u.entries, e.cursor = owner, e.id = id PROVE FALSE
    <3>1. PICK f \in w.entries : e.cursor = f.cursor /\ e.id = f.id
      BY <1>9 DEF Renumbered
    <3>2. f \in s.entries
      BY <1>7, <3>1 DEF GaveUp
    <3>3. QED
      BY <2>1, <3>1, <3>2
  <2>2. QED
    BY <2>1
<1>13. entry.cursor = owner /\ entry.id = id /\ entry.tool = call /\ entry.bytes = bytes /\ entry.ordinal = u.next
  OBVIOUS
<1>14. t = With(u, entry)
  OBVIOUS
<1> HIDE DEF entry
<1>15. /\ Sound(R, t) /\ Cardinality(t.entries) = Cardinality(u.entries) + 1
       /\ \A c : Cardinality(OfCursor(t, c)) = Cardinality(OfCursor(u, c)) + (IF c = owner THEN 1 ELSE 0)
  <2>1. entry.ordinal = u.next /\ \A e \in u.entries : ~(e.cursor = entry.cursor /\ e.id = entry.id)
    BY <1>12, <1>13
  <2>2. /\ Sound(R, With(u, entry)) /\ Cardinality(With(u, entry).entries) = Cardinality(u.entries) + 1
        /\ \A c : Cardinality(OfCursor(With(u, entry), c))
                    = Cardinality(OfCursor(u, c)) + (IF c = entry.cursor THEN 1 ELSE 0)
    BY <1>9, <1>11, <2>1, WithKeepsAccounts
  <2>3. QED
    BY <1>13, <1>14, <2>2
<1>16. /\ t.entries = u.entries \cup {entry} /\ t.total = u.total + bytes
       /\ t.owned = [u.owned EXCEPT ![owner] = @ + bytes] /\ t.coverage = w.coverage
       /\ t.next = u.next + 1
  BY <1>9, <1>13, <1>14 DEF With, Renumbered
<1>17. Limits(R, t)
  <2>1. t.next <= LastOrdinal
    BY <1>9, <1>10, <1>16, PendingAssumption
  <2>2. t.total <= SourceBytes
    BY <1>4, <1>9, <1>16 DEF Renumbered
  <2>3. Cardinality(t.entries) <= SourceEntries
    <3>1. Cardinality(w.entries) \in Nat
      BY <1>6, OrderCounts
    <3>2. QED
      BY <1>4, <1>9, <1>15, <3>1, PendingAssumption DEF Renumbered
  <2>4. ASSUME NEW c \in R
        PROVE  Cardinality(OfCursor(t, c)) <= CursorEntries /\ t.owned[c] <= CursorBytes
    <3>1. /\ Cardinality(OfCursor(w, c)) \in Nat /\ Cardinality(OfCursor(v, c)) \in Nat
          /\ w.owned[c] \in Nat /\ v.owned[c] \in Nat
          /\ Cardinality(OfCursor(w, c)) <= Cardinality(OfCursor(v, c)) /\ w.owned[c] <= v.owned[c]
      BY <1>3, <1>4, RemainsLess
    <3>2. /\ Cardinality(OfCursor(s, c)) \in Nat /\ s.owned[c] \in Nat
          /\ Cardinality(OfCursor(v, c)) <= Cardinality(OfCursor(s, c)) /\ v.owned[c] <= s.owned[c]
      BY <1>2, RemainsLess
    <3>3. Cardinality(OfCursor(s, c)) <= CursorEntries /\ s.owned[c] <= CursorBytes
      BY DEF Limits
    <3>4. Cardinality(OfCursor(u, c)) = Cardinality(OfCursor(w, c)) /\ u.owned[c] = w.owned[c]
      BY <1>9 DEF Renumbered
    <3>5. CursorEntries \in Nat /\ CursorBytes \in Nat
      BY PendingAssumption
    <3>6. CASE c = owner
      <4>1. t.owned[c] = u.owned[c] + bytes /\ Cardinality(OfCursor(t, c)) = Cardinality(OfCursor(u, c)) + 1
        BY <1>10, <1>15, <1>16, <3>6
      <4>2. Cardinality(OfCursor(v, c)) < CursorEntries /\ v.owned[c] + bytes <= CursorBytes
        BY <1>2, <3>6
      <4>3. QED
        BY <1>1, <3>1, <3>4, <3>5, <4>1, <4>2
    <3>7. CASE c # owner
      <4>1. t.owned[c] = u.owned[c] /\ Cardinality(OfCursor(t, c)) = Cardinality(OfCursor(u, c)) + 0
        BY <1>10, <1>15, <1>16, <3>7
      <4>2. QED
        BY <3>1, <3>2, <3>3, <3>4, <3>5, <4>1
    <3>8. QED
      BY <3>6, <3>7
  <2>5. QED
    BY <2>1, <2>2, <2>3, <2>4 DEF Limits
<1>18. Carried(R, s, t)
  <2>1. ASSUME NEW e \in s.entries
        PROVE  t.coverage[e.cursor].lost > 0 \/ \E f \in t.entries : Says(f, e.cursor, e.id, e.tool)
    <3>1. CASE e \in w.entries
      <4>1. PICK f \in u.entries : f.cursor = e.cursor /\ f.id = e.id /\ f.tool = e.tool
        BY <1>9, <3>1 DEF Renumbered
      <4>2. QED
        BY <1>16, <4>1 DEF Says
    <3>2. CASE e \notin w.entries
      BY <1>7, <1>16, <3>2 DEF GaveUp
    <3>3. QED
      BY <3>1, <3>2
  <2>2. QED
    BY <1>7, <1>16, <2>1 DEF Carried, GaveUp
<1>19. Doubted(t)
  <2>1. ASSUME NEW f \in t.entries, f.tool = Ambiguous PROVE t.coverage[f.cursor].lost > 0
    <3>1. f \in u.entries
      BY <1>1, <1>13, <1>16, <2>1
    <3>2. PICK e \in w.entries : f.cursor = e.cursor /\ f.id = e.id /\ f.tool = e.tool
      BY <1>9, <3>1 DEF Renumbered
    <3>3. e \in s.entries /\ e.tool = Ambiguous
      BY <1>7, <2>1, <3>2 DEF GaveUp
    <3>4. s.coverage[e.cursor].lost > 0
      BY <3>3 DEF Doubted
    <3>5. e.cursor \in R
      BY <3>3, StoreFields DEF Entry
    <3>6. QED
      BY <1>7, <1>16, <3>2, <3>4, <3>5 DEF GaveUp
  <2>2. QED
    BY <2>1 DEF Doubted
<1>20. \E f \in t.entries : Says(f, owner, id, call)
  BY <1>13, <1>16 DEF Says
<1>21. QED
  BY <1>15, <1>17, <1>18, <1>19, <1>20

(* The store with another coverage.                                         *)
WithCoverage(s, coverages) ==
  [entries |-> s.entries, order |-> s.order, owned |-> s.owned, total |-> s.total,
   coverage |-> coverages, next |-> s.next]

(* The accounts are those of the entries, whatever is said of losses.      *)
LEMMA AccountsOfEntries ==
  ASSUME NEW R, NEW s, Sound(R, s), NEW coverages \in [R -> [epoch : Nat, lost : Nat]]
  PROVE  Sound(R, WithCoverage(s, coverages))
<1> DEFINE t == WithCoverage(s, coverages)
<1>1. /\ t.entries = s.entries /\ t.order = s.order /\ t.owned = s.owned /\ t.total = s.total
      /\ t.coverage = coverages /\ t.next = s.next
  BY DEF WithCoverage
<1>2. s \in Stores(R)
  BY DEF Sound
<1>3. t \in Stores(R)
  BY <1>2 DEF WithCoverage, Stores
<1> HIDE DEF t
<1>4. \A c : OfCursor(t, c) = OfCursor(s, c)
  BY <1>1 DEF OfCursor
<1>5. Sound(R, t)
  BY <1>1, <1>3, <1>4 DEF Sound
<1>6. QED
  BY <1>5 DEF t

(* The coverage with one loss more.                                         *)
Lost(coverages, owner) == [coverages EXCEPT ![owner].lost = Counted(@)]

(* One loss more of a cursor.                                              *)
LEMMA LossCounted ==
  ASSUME NEW R, NEW coverages \in [R -> [epoch : Nat, lost : Nat]], NEW owner \in R
  PROVE  LET new == Lost(coverages, owner)
         IN /\ new \in [R -> [epoch : Nat, lost : Nat]] /\ new[owner].lost > 0
            /\ \A c \in R : /\ new[c].epoch = coverages[c].epoch
                            /\ coverages[c].lost > 0 => new[c].lost > 0
<1> DEFINE new == Lost(coverages, owner)
<1>1. coverages[owner].lost \in Nat /\ coverages[owner] \in [epoch : Nat, lost : Nat]
  OBVIOUS
<1>2. Counted(coverages[owner].lost) \in Nat /\ Counted(coverages[owner].lost) > 0
  BY <1>1, PendingAssumption DEF Counted
<1>3. new = [coverages EXCEPT ![owner].lost = Counted(coverages[owner].lost)]
  BY DEF Lost
<1> HIDE DEF new
<1>4. \A c \in R : new[c] = IF c = owner THEN [coverages[owner] EXCEPT !.lost = Counted(coverages[owner].lost)]
                            ELSE coverages[c]
  BY <1>3
<1>5. new[owner] = [epoch |-> coverages[owner].epoch, lost |-> Counted(coverages[owner].lost)]
  BY <1>1, <1>4
<1>6. \A c \in R : new[c] \in [epoch : Nat, lost : Nat]
  BY <1>1, <1>2, <1>4, <1>5
<1>7. new \in [R -> [epoch : Nat, lost : Nat]]
  <2>1. DOMAIN new = R /\ new = [c \in R |-> new[c]]
    BY <1>3
  <2>2. QED
    BY <1>6, <2>1
<1>8. QED
  BY <1>2, <1>4, <1>5, <1>7 DEF new

(* What a conflicting call makes of an entry,                               *)
Doubtful(entry) == [entry EXCEPT !.tool = Ambiguous, !.bytes = IdBytes[entry.id]]

(* and of the store.                                                        *)
WithDoubt(s, entry) ==
  [entries |-> (s.entries \ {entry}) \cup {Doubtful(entry)}, order |-> s.order,
   owned |-> [s.owned EXCEPT ![entry.cursor] = @ - (entry.bytes - IdBytes[entry.id])],
   total |-> s.total - (entry.bytes - IdBytes[entry.id]),
   coverage |-> Lost(s.coverage, entry.cursor), next |-> s.next]

(* An entry in the place of another.                                       *)
LEMMA BytesReplaced ==
  ASSUME NEW S, Weighed(S), NEW e \in S, NEW x, x \notin S \ {e}, x.bytes \in Nat, x.bytes <= e.bytes
  PROVE  LET T == (S \ {e}) \cup {x}
         IN /\ Weighed(T) /\ BytesOf(T) = BytesOf(S) - (e.bytes - x.bytes) /\ BytesOf(T) \in Nat
            /\ BytesOf(S) \in Nat /\ Cardinality(T) = Cardinality(S)
<1> DEFINE U == S \ {e}
<1>1. Weighed(U) /\ BytesOf(S) \in Nat /\ BytesOf(U) \in Nat /\ BytesOf(U) = BytesOf(S) - e.bytes /\ e.bytes \in Nat
  BY BytesWithout DEF Weighed
<1>2. Cardinality(U) = Cardinality(S) - 1 /\ Cardinality(S) \in Nat
  BY FS_RemoveElement, FS_CardinalityType DEF Weighed
<1> HIDE DEF U
<1>3. x \notin U
  BY DEF U
<1>4. Weighed(U \cup {x}) /\ BytesOf(U \cup {x}) = BytesOf(U) + x.bytes
  BY <1>1, <1>3, BytesWith
<1>5. Cardinality(U \cup {x}) = Cardinality(U) + 1
  BY <1>1, <1>3, FS_AddElement DEF Weighed
<1>6. QED
  BY <1>1, <1>2, <1>4, <1>5 DEF U

(* A conflict keeps the accounts and the limits, and is admitted.           *)
LEMMA DoubtKeepsAccounts ==
  ASSUME NEW R, NEW s, Sound(R, s), Limits(R, s), Doubted(s), NEW entry \in s.entries,
         NEW t, t = WithDoubt(s, entry)
  PROVE  /\ Sound(R, t) /\ Limits(R, t) /\ Doubted(t) /\ Carried(R, s, t)
         /\ t.coverage[entry.cursor].lost > 0
<1> DEFINE owner == entry.cursor
           x == Doubtful(entry)
<1>1. /\ s.entries \subseteq Entry(R) /\ s.owned \in [R -> Nat] /\ s.total \in Nat
      /\ s.coverage \in [R -> [epoch : Nat, lost : Nat]] /\ s.next \in Nat
      /\ s.order \in [DOMAIN s.order -> R] /\ DOMAIN s.order \subseteq Nat
      /\ Weighed(s.entries)
      /\ \A c : Weighed(OfCursor(s, c)) /\ OfCursor(s, c) \subseteq s.entries
  BY StoreFields
<1>2. /\ \A d, e \in s.entries : (d.ordinal = e.ordinal \/ (d.cursor = e.cursor /\ d.id = e.id)) => d = e
      /\ DOMAIN s.order = {e.ordinal : e \in s.entries}
      /\ \A e \in s.entries : s.order[e.ordinal] = e.cursor /\ e.ordinal < s.next
      /\ \A c \in R : s.owned[c] = BytesOf(OfCursor(s, c))
      /\ s.total = BytesOf(s.entries)
  BY DEF Sound
<1>3. entry \in Entry(R) /\ owner \in R /\ entry.bytes \in Nat /\ IdBytes[entry.id] \in Nat /\ IdBytes[entry.id] <= entry.bytes
  BY <1>1, PendingAssumption DEF Entry
<1>4. x = [cursor |-> entry.cursor, id |-> entry.id, ordinal |-> entry.ordinal, tool |-> Ambiguous,
           bytes |-> IdBytes[entry.id]]
  <2>1. x = [entry EXCEPT !.tool = Ambiguous, !.bytes = IdBytes[entry.id]]
    BY DEF Doubtful
  <2>2. entry = [cursor |-> entry.cursor, id |-> entry.id, ordinal |-> entry.ordinal,
                 tool |-> entry.tool, bytes |-> entry.bytes]
    BY <1>3 DEF Entry
  <2> HIDE DEF x
  <2>3. QED
    BY <2>1, <2>2
<1>5. /\ x.cursor = owner /\ x.id = entry.id /\ x.ordinal = entry.ordinal /\ x.tool = Ambiguous
      /\ x.bytes = IdBytes[entry.id] /\ x \in Entry(R)
  BY <1>3, <1>4 DEF Entry
<1> HIDE DEF x
<1>6. x \notin s.entries \ {entry}
  BY <1>2, <1>5
<1>7. /\ t.entries = (s.entries \ {entry}) \cup {x} /\ t.order = s.order
      /\ t.owned = [s.owned EXCEPT ![owner] = @ - (entry.bytes - IdBytes[entry.id])]
      /\ t.total = s.total - (entry.bytes - IdBytes[entry.id])
      /\ t.coverage = Lost(s.coverage, owner) /\ t.next = s.next
      /\ t = [entries |-> t.entries, order |-> t.order, owned |-> t.owned, total |-> t.total,
              coverage |-> t.coverage, next |-> t.next]
  BY DEF WithDoubt, x
<1>8. /\ t.coverage \in [R -> [epoch : Nat, lost : Nat]] /\ t.coverage[owner].lost > 0
      /\ \A c \in R : /\ t.coverage[c].epoch = s.coverage[c].epoch
                      /\ s.coverage[c].lost > 0 => t.coverage[c].lost > 0
  <2>1. t.coverage = Lost(s.coverage, owner)
    BY <1>7
  <2>2. s.coverage \in [R -> [epoch : Nat, lost : Nat]] /\ owner \in R
    BY <1>1, <1>3
  <2> HIDE DEF owner
  <2>3. QED
    BY <2>1, <2>2, LossCounted
<1>9. /\ Weighed(t.entries) /\ t.total = BytesOf(t.entries) /\ t.total \in Nat
      /\ Cardinality(t.entries) = Cardinality(s.entries)
  <2>1. t.entries = (s.entries \ {entry}) \cup {x} /\ t.total = s.total - (entry.bytes - IdBytes[entry.id])
    BY <1>7
  <2>2. /\ Weighed(t.entries) /\ BytesOf(t.entries) = BytesOf(s.entries) - (entry.bytes - IdBytes[entry.id])
        /\ BytesOf(t.entries) \in Nat /\ Cardinality(t.entries) = Cardinality(s.entries)
    BY <1>1, <1>3, <1>5, <1>6, <2>1, BytesReplaced
  <2>3. QED
    BY <1>2, <2>1, <2>2
<1>10. ASSUME NEW c \in R
       PROVE  /\ t.owned[c] = BytesOf(OfCursor(t, c)) /\ t.owned[c] \in Nat /\ t.owned[c] <= s.owned[c]
              /\ Cardinality(OfCursor(t, c)) = Cardinality(OfCursor(s, c))
  <2>1. s.owned[c] = BytesOf(OfCursor(s, c)) /\ s.owned[c] \in Nat
    BY <1>1, <1>2
  <2>2. CASE c = owner
    <3>1. OfCursor(t, c) = (OfCursor(s, c) \ {entry}) \cup {x} /\ entry \in OfCursor(s, c)
      BY <1>5, <1>7, <2>2 DEF OfCursor
    <3>2. x \notin OfCursor(s, c) \ {entry}
      BY <1>1, <1>6
    <3>3. /\ BytesOf(OfCursor(t, c)) = BytesOf(OfCursor(s, c)) - (entry.bytes - IdBytes[entry.id])
          /\ BytesOf(OfCursor(t, c)) \in Nat /\ Cardinality(OfCursor(t, c)) = Cardinality(OfCursor(s, c))
      <4> DEFINE A == OfCursor(s, c)
      <4>1. Weighed(A) /\ entry \in A /\ x \notin A \ {entry} /\ x.bytes \in Nat /\ x.bytes <= entry.bytes
        BY <1>1, <1>3, <1>5, <3>1, <3>2
      <4> HIDE DEF A
      <4>2. /\ BytesOf((A \ {entry}) \cup {x}) = BytesOf(A) - (entry.bytes - x.bytes)
            /\ BytesOf((A \ {entry}) \cup {x}) \in Nat
            /\ Cardinality((A \ {entry}) \cup {x}) = Cardinality(A)
        BY <4>1, BytesReplaced
      <4>3. QED
        BY <1>5, <3>1, <4>2 DEF A
    <3>4. t.owned[c] = s.owned[c] - (entry.bytes - IdBytes[entry.id])
      BY <1>1, <1>7, <2>2
    <3>5. QED
      BY <1>3, <2>1, <3>3, <3>4
  <2>3. CASE c # owner
    <3>1. OfCursor(t, c) = OfCursor(s, c) /\ t.owned[c] = s.owned[c]
      BY <1>1, <1>5, <1>7, <2>3 DEF OfCursor
    <3>2. QED
      BY <2>1, <3>1
  <2>4. QED
    BY <2>2, <2>3
<1>11. DOMAIN t.order = {e.ordinal : e \in t.entries}
  BY <1>2, <1>5, <1>7
<1>12. \A e \in t.entries : t.order[e.ordinal] = e.cursor /\ e.ordinal < t.next
  BY <1>2, <1>5, <1>7
<1>13. t \in Stores(R)
  <2>1. t.owned \in [R -> Nat]
    BY <1>1, <1>7, <1>10
  <2>2. t.order \in UNION {[D -> R] : D \in SUBSET Nat}
    BY <1>1, <1>7
  <2>3. t.entries \in SUBSET Entry(R) /\ t.next \in Nat
    BY <1>1, <1>5, <1>7
  <2>4. QED
    BY <1>7, <1>8, <1>9, <2>1, <2>2, <2>3 DEF Stores
<1>14. \A d, e \in t.entries : (d.ordinal = e.ordinal \/ (d.cursor = e.cursor /\ d.id = e.id)) => d = e
  <2>1. ASSUME NEW d \in s.entries, x.ordinal = d.ordinal \/ (x.cursor = d.cursor /\ x.id = d.id)
        PROVE  d = entry
    BY <1>2, <1>5, <2>1
  <2>2. ASSUME NEW d \in t.entries, NEW e \in t.entries,
               d.ordinal = e.ordinal \/ (d.cursor = e.cursor /\ d.id = e.id)
        PROVE  d = e
    <3>1. CASE d = x /\ e # x
      BY <1>7, <2>1, <2>2, <3>1
    <3>2. CASE e = x /\ d # x
      BY <1>7, <2>1, <2>2, <3>2
    <3>3. CASE d # x /\ e # x
      BY <1>2, <1>7, <2>2, <3>3
    <3>4. QED
      BY <3>1, <3>2, <3>3
  <2>3. QED
    BY <2>2
<1>15. Sound(R, t)
  BY <1>9, <1>10, <1>11, <1>12, <1>13, <1>14 DEF Sound, Weighed
<1>16. Limits(R, t)
  <2>1. t.total <= SourceBytes
    <3>1. SourceBytes \in Nat /\ s.total <= SourceBytes
      BY PendingAssumption DEF Limits
    <3>2. s.total \in Nat /\ entry.bytes \in Nat /\ IdBytes[entry.id] \in Nat /\ IdBytes[entry.id] <= entry.bytes /\ t.total = s.total - (entry.bytes - IdBytes[entry.id])
      BY <1>1, <1>3, <1>7
    <3>3. QED
      BY <3>1, <3>2
  <2>2. \A c \in R : Cardinality(OfCursor(t, c)) <= CursorEntries /\ t.owned[c] <= CursorBytes
    BY <1>1, <1>10, PendingAssumption DEF Limits
  <2>3. QED
    BY <1>7, <1>9, <2>1, <2>2 DEF Limits
<1>17. Doubted(t)
  <2>1. \A e \in s.entries : e.cursor \in R
    BY <1>1 DEF Entry
  <2>2. QED
    BY <1>5, <1>7, <1>8, <2>1 DEF Doubted
<1>18. Carried(R, s, t)
  BY <1>7, <1>8 DEF Carried, Says
<1>19. QED
  BY <1>8, <1>15, <1>16, <1>17, <1>18

(* An entry goes without a loss: its result is there.                      *)
LEMMA ResultKeepsAccounts ==
  ASSUME NEW R, NEW s, Sound(R, s), Limits(R, s), Doubted(s), NEW entry \in s.entries,
         NEW t, t = [entries |-> s.entries \ {entry}, order |-> Drop(s.order, {entry.ordinal}),
                     owned |-> [s.owned EXCEPT ![entry.cursor] = @ - entry.bytes],
                     total |-> s.total - entry.bytes, coverage |-> s.coverage, next |-> s.next]
  PROVE  Sound(R, t) /\ Limits(R, t) /\ Doubted(t)
<1> DEFINE u == EntryEvicted(s, entry.ordinal)
<1>1. /\ s.entries \subseteq Entry(R) /\ s.total \in Nat
      /\ s.coverage \in [R -> [epoch : Nat, lost : Nat]] /\ Weighed(s.entries)
  BY StoreFields
<1>2. Sound(R, u) /\ u.entries = s.entries \ {entry} /\ GaveUp(R, s, u)
  BY EvictKeepsAccounts
<1>3. (CHOOSE e \in s.entries : e.ordinal = entry.ordinal) = entry
  BY DEF Sound
<1>4. u = [s EXCEPT !.entries = @ \ {entry}, !.order = Drop(@, {entry.ordinal}),
                    !.owned[entry.cursor] = @ - entry.bytes, !.total = @ - entry.bytes,
                    !.coverage[entry.cursor].lost = Counted(@)]
  BY <1>3 DEF EntryEvicted
<1>5. s = [entries |-> s.entries, order |-> s.order, owned |-> s.owned, total |-> s.total,
           coverage |-> s.coverage, next |-> s.next]
  <2>1. s \in Stores(R)
    BY DEF Sound
  <2>2. QED
    BY <2>1 DEF Stores
<1> HIDE DEF u
<1>6. /\ u.order = Drop(s.order, {entry.ordinal}) /\ u.total = s.total - entry.bytes
      /\ u.owned = [s.owned EXCEPT ![entry.cursor] = @ - entry.bytes] /\ u.next = s.next
  BY <1>4, <1>5
<1>7. t = WithCoverage(u, s.coverage)
  BY <1>2, <1>6 DEF WithCoverage
<1>8. Sound(R, t)
  <2>1. Sound(R, WithCoverage(u, s.coverage))
    BY <1>1, <1>2, AccountsOfEntries
  <2>2. QED
    BY <1>7, <2>1
<1>9. /\ t.entries = u.entries /\ t.owned = u.owned /\ t.total = u.total /\ t.coverage = s.coverage
      /\ t.next = s.next
  BY <1>6, <1>7 DEF WithCoverage
<1>10. u \in Remains(R, s)
  BY <1>2 DEF Remains, Sound
<1>11. Limits(R, t)
  <2>1. ASSUME NEW c \in R PROVE Cardinality(OfCursor(t, c)) <= CursorEntries /\ t.owned[c] <= CursorBytes
    <3>1. /\ Cardinality(OfCursor(u, c)) \in Nat /\ Cardinality(OfCursor(s, c)) \in Nat
          /\ u.owned[c] \in Nat /\ s.owned[c] \in Nat
          /\ Cardinality(OfCursor(u, c)) <= Cardinality(OfCursor(s, c)) /\ u.owned[c] <= s.owned[c]
      BY <1>10, RemainsLess
    <3>2. OfCursor(t, c) = OfCursor(u, c)
      BY <1>9 DEF OfCursor
    <3>3. Cardinality(OfCursor(s, c)) <= CursorEntries /\ s.owned[c] <= CursorBytes
      BY DEF Limits
    <3>4. CursorEntries \in Nat /\ CursorBytes \in Nat
      BY PendingAssumption
    <3>5. QED
      BY <1>9, <3>1, <3>2, <3>3, <3>4
  <2>2. t.total <= SourceBytes
    <3>1. entry.bytes \in Nat /\ SourceBytes \in Nat /\ s.total <= SourceBytes
      BY <1>1, PendingAssumption DEF Entry, Limits
    <3>2. QED
      BY <1>1, <1>6, <1>9, <3>1
  <2>3. Cardinality(t.entries) <= SourceEntries
    <3>1. Cardinality(t.entries) \in Nat /\ Cardinality(s.entries) \in Nat
          /\ Cardinality(t.entries) <= Cardinality(s.entries)
      BY <1>1, <1>2, <1>9, FS_Subset, FS_CardinalityType DEF Weighed
    <3>2. Cardinality(s.entries) <= SourceEntries /\ SourceEntries \in Nat
      BY PendingAssumption DEF Limits
    <3>3. QED
      BY <3>1, <3>2
  <2>4. QED
    BY <1>9, <2>1, <2>2, <2>3 DEF Limits
<1>12. Doubted(t)
  BY <1>2, <1>9 DEF Doubted
<1>13. QED
  BY <1>8, <1>11, <1>12

(* A record with the fields of a store.                                    *)
Fielded(t) == t = [entries |-> t.entries, order |-> t.order, owned |-> t.owned, total |-> t.total,
                   coverage |-> t.coverage, next |-> t.next]

(* In t, for the cursors Q, a cursor has no entries and the others have    *)
(* what they had in s, for the cursors R.                                  *)
Freshened(R, s, owner, Q, t) ==
  /\ Q \ {owner} = R \ {owner}
  /\ t.entries = s.entries \ OfCursor(s, owner) /\ t.next = s.next
  /\ t.order = Drop(s.order, {e.ordinal : e \in OfCursor(s, owner)})
  /\ t.total = s.total - (IF owner \in R THEN s.owned[owner] ELSE 0)
  /\ t.coverage \in [Q -> [epoch : Nat, lost : Nat]] /\ t.owned \in [Q -> Nat]
  /\ \A c \in R \ {owner} : t.coverage[c] = s.coverage[c] /\ t.owned[c] = s.owned[c]
  /\ owner \in Q => t.owned[owner] = 0
  /\ Fielded(t)

(* A cursor without entries, in the store or new to it or gone from it.    *)
LEMMA FreshKeepsAccounts ==
  ASSUME NEW R, NEW s, Sound(R, s), Limits(R, s), Doubted(s),
         NEW owner, NEW Q, NEW t, Freshened(R, s, owner, Q, t)
  PROVE  Sound(Q, t) /\ Limits(Q, t) /\ Doubted(t)
<1>0. /\ Q \ {owner} = R \ {owner}
      /\ t.entries = s.entries \ OfCursor(s, owner) /\ t.next = s.next
      /\ t.order = Drop(s.order, {e.ordinal : e \in OfCursor(s, owner)})
      /\ t.total = s.total - (IF owner \in R THEN s.owned[owner] ELSE 0)
      /\ t.coverage \in [Q -> [epoch : Nat, lost : Nat]] /\ t.owned \in [Q -> Nat]
      /\ \A c \in R \ {owner} : t.coverage[c] = s.coverage[c] /\ t.owned[c] = s.owned[c]
      /\ owner \in Q => t.owned[owner] = 0
      /\ Fielded(t)
  BY DEF Freshened
<1> USE <1>0
<1> DEFINE gone == OfCursor(s, owner)
<1>1. /\ s.entries \subseteq Entry(R) /\ s.owned \in [R -> Nat] /\ s.total \in Nat
      /\ s.coverage \in [R -> [epoch : Nat, lost : Nat]] /\ s.next \in Nat
      /\ s.order \in [DOMAIN s.order -> R] /\ DOMAIN s.order \subseteq Nat
      /\ Weighed(s.entries)
      /\ \A c : Weighed(OfCursor(s, c)) /\ OfCursor(s, c) \subseteq s.entries
  BY StoreFields
<1>2. /\ \A d, e \in s.entries : (d.ordinal = e.ordinal \/ (d.cursor = e.cursor /\ d.id = e.id)) => d = e
      /\ DOMAIN s.order = {e.ordinal : e \in s.entries}
      /\ \A e \in s.entries : s.order[e.ordinal] = e.cursor /\ e.ordinal < s.next
      /\ \A c \in R : s.owned[c] = BytesOf(OfCursor(s, c))
      /\ s.total = BytesOf(s.entries)
  BY DEF Sound
<1>3. \A e \in t.entries : e \in s.entries /\ e.cursor # owner /\ e.cursor \in R /\ e.cursor \in Q /\ e \in Entry(Q)
  <2>1. ASSUME NEW e \in t.entries
        PROVE  e \in s.entries /\ e.cursor # owner /\ e.cursor \in R /\ e.cursor \in Q /\ e \in Entry(Q)
    <3>1. e \in s.entries /\ e.cursor # owner
      BY DEF OfCursor
    <3>2. e \in Entry(R)
      BY <1>1, <3>1
    <3>3. e.cursor \in R /\ e.cursor \in Q
      BY <3>1, <3>2 DEF Entry
    <3>4. QED
      BY <3>1, <3>2, <3>3 DEF Entry
  <2>2. QED
    BY <2>1
<1>4. \A e \in s.entries : e \in t.entries <=> e.cursor # owner
  BY DEF OfCursor
<1>5. /\ Weighed(t.entries) /\ BytesOf(t.entries) \in Nat
      /\ BytesOf(t.entries) = BytesOf(s.entries) - BytesOf(gone) /\ BytesOf(gone) \in Nat
  <2>1. gone \in SUBSET s.entries /\ t.entries = s.entries \ gone
    BY <1>1
  <2> HIDE DEF gone
  <2>2. QED
    BY <1>1, <2>1, BytesDifference
<1>6. BytesOf(gone) = IF owner \in R THEN s.owned[owner] ELSE 0
  <2>1. CASE owner \in R
    BY <1>2, <2>1
  <2>2. CASE owner \notin R
    <3>1. gone = {}
      BY <1>1, <2>2 DEF OfCursor, Entry
    <3>2. BytesOf(gone) = 0
      BY <1>1, <3>1, BytesAddUp
    <3>3. QED
      BY <2>2, <3>2
  <2>3. QED
    BY <2>1, <2>2
<1>7. t.total = BytesOf(t.entries) /\ t.total \in Nat /\ t.total <= s.total
  BY <1>1, <1>2, <1>5, <1>6
<1>8. ASSUME NEW c \in Q
      PROVE  /\ t.owned[c] = BytesOf(OfCursor(t, c)) /\ t.owned[c] \in Nat /\ t.owned[c] <= CursorBytes
             /\ Cardinality(OfCursor(t, c)) <= CursorEntries
  <2>0. CursorBytes \in Nat /\ CursorEntries \in Nat
    BY PendingAssumption
  <2>1. CASE c = owner
    <3>1. OfCursor(t, c) = {}
      BY <1>3, <2>1 DEF OfCursor
    <3>2. BytesOf(OfCursor(t, c)) = 0 /\ Cardinality(OfCursor(t, c)) = 0
      BY <1>1, <3>1, BytesAddUp, FS_EmptySet
    <3>3. QED
      BY <2>0, <2>1, <3>2
  <2>2. CASE c # owner
    <3>1. c \in R /\ t.owned[c] = s.owned[c]
      BY <2>2
    <3>2. OfCursor(t, c) = OfCursor(s, c)
      BY <1>3, <1>4, <2>2 DEF OfCursor
    <3>3. s.owned[c] = BytesOf(OfCursor(s, c)) /\ s.owned[c] \in Nat /\ s.owned[c] <= CursorBytes
          /\ Cardinality(OfCursor(s, c)) <= CursorEntries
      BY <1>1, <1>2, <3>1 DEF Limits
    <3>4. QED
      BY <3>1, <3>2, <3>3
  <2>3. QED
    BY <2>1, <2>2
<1>9. DOMAIN t.order = DOMAIN s.order \ {e.ordinal : e \in gone}
      /\ \A k \in DOMAIN t.order : t.order[k] = s.order[k]
  BY DEF Drop
<1>10. DOMAIN t.order = {e.ordinal : e \in t.entries}
  <2>1. ASSUME NEW k \in DOMAIN t.order PROVE \E e \in t.entries : k = e.ordinal
    <3>1. PICK e \in s.entries : k = e.ordinal
      BY <1>2, <1>9
    <3>2. e \notin gone
      BY <1>9, <3>1
    <3>3. QED
      BY <3>1, <3>2
  <2>2. ASSUME NEW e \in t.entries PROVE e.ordinal \in DOMAIN t.order
    <3>1. e \in s.entries /\ e \notin gone
      OBVIOUS
    <3>2. \A d \in gone : d \in s.entries /\ d # e
      BY <1>1, <3>1
    <3>3. QED
      BY <1>2, <1>9, <3>1, <3>2
  <2>3. \A k : k \in DOMAIN t.order <=> k \in {e.ordinal : e \in t.entries}
    BY <2>1, <2>2
  <2> DEFINE D == DOMAIN t.order
  <2> HIDE DEF D
  <2>4. D = {e.ordinal : e \in t.entries}
    BY <2>3 DEF D
  <2>5. QED
    BY <2>4 DEF D
<1>11. \A e \in t.entries : t.order[e.ordinal] = e.cursor /\ e.ordinal < t.next
  <2>1. \A e \in t.entries : e.ordinal \in DOMAIN t.order
    BY <1>10
  <2>2. QED
    BY <1>2, <1>3, <1>9, <2>1
<1>12. t.order \in UNION {[D -> Q] : D \in SUBSET Nat}
  <2>1. ASSUME NEW k \in DOMAIN t.order PROVE t.order[k] \in Q /\ k \in Nat
    <3>1. PICK e \in t.entries : k = e.ordinal
      BY <1>10
    <3>2. QED
      BY <1>1, <1>3, <1>9, <1>11, <3>1
  <2> DEFINE D == DOMAIN t.order
  <2>2. t.order = [k \in D |-> t.order[k]]
    BY DEF Drop
  <2>3. \A k \in D : t.order[k] \in Q /\ k \in Nat
    BY <2>1
  <2> HIDE DEF D
  <2>4. t.order \in [D -> Q] /\ D \in SUBSET Nat
    BY <2>2, <2>3
  <2>5. QED
    BY <2>4
<1>13. t \in Stores(Q)
  <2>1. t.entries \in SUBSET Entry(Q) /\ t.next \in Nat
    BY <1>1, <1>3
  <2>2. QED
    BY <1>7, <1>12, <2>1 DEF Stores, Fielded
<1>14. \A d, e \in t.entries : (d.ordinal = e.ordinal \/ (d.cursor = e.cursor /\ d.id = e.id)) => d = e
  BY <1>2, <1>3
<1>15. Sound(Q, t)
  BY <1>5, <1>7, <1>8, <1>10, <1>11, <1>13, <1>14 DEF Sound, Weighed
<1>16. Limits(Q, t)
  <2>1. t.total <= SourceBytes
    <3>1. SourceBytes \in Nat /\ s.total <= SourceBytes
      BY PendingAssumption DEF Limits
    <3>2. QED
      BY <1>1, <1>7, <3>1
  <2>2. Cardinality(t.entries) <= SourceEntries
    <3>1. Cardinality(t.entries) \in Nat /\ Cardinality(s.entries) \in Nat
          /\ Cardinality(t.entries) <= Cardinality(s.entries)
      BY <1>1, FS_Subset, FS_CardinalityType DEF Weighed
    <3>2. Cardinality(s.entries) <= SourceEntries /\ SourceEntries \in Nat
      BY PendingAssumption DEF Limits
    <3>3. QED
      BY <3>1, <3>2
  <2>3. QED
    BY <1>8, <2>1, <2>2 DEF Limits
<1>17. Doubted(t)
  <2>1. ASSUME NEW e \in t.entries, e.tool = Ambiguous PROVE t.coverage[e.cursor].lost > 0
    <3>1. s.coverage[e.cursor].lost > 0 /\ e.cursor \in R \ {owner}
      BY <1>3, <2>1 DEF Doubted
    <3>2. QED
      BY <3>1
  <2>2. QED
    BY <2>1 DEF Doubted
<1>18. QED
  BY <1>15, <1>16, <1>17

(* Epochs are given out once, so that no two transcripts share one.         *)
Epochs(R, s, n) ==
  /\ n \in Nat \ {0}
  /\ \A c \in R : /\ s.coverage[c].epoch < n
                  /\ \A d \in R : c # d => s.coverage[c].epoch # s.coverage[d].epoch

(* A call without a result is held as it was said, or a loss is admitted.   *)
Admits(R, s, calls) ==
  /\ calls \in [R -> SUBSET (CallIds \X Calls)]
  /\ \A c \in R : \A a \in calls[c] :
       (\E e \in s.entries : Says(e, c, a[1], a[2])) \/ s.coverage[c].lost > 0

(* The variables of the store as a record, now and after a step.            *)
Store == [entries |-> entries, order |-> order, owned |-> owned, total |-> total,
          coverage |-> coverage, next |-> next]

(* What every state of the store satisfies.                                *)
Accounted(R, s, n, calls) ==
  /\ R \subseteq Cursors
  /\ Sound(R, s) /\ Limits(R, s) /\ Doubted(s) /\ Epochs(R, s, n) /\ Admits(R, s, calls)

PendingInv == Accounted(Registered, Store, epochs, awaited)

(* A store that was just made is empty.                                     *)
LEMMA PendingInitially == PendingInit => PendingInv
<1> SUFFICES ASSUME PendingInit PROVE PendingInv
  OBVIOUS
<1> DEFINE s == Store
<1>1. /\ s.entries = {} /\ s.coverage = [c \in {} |-> 0] /\ s.owned = [c \in {} |-> 0]
      /\ s.order = [n \in {} |-> 0] /\ s.next = 0 /\ s.total = 0 /\ epochs = 1
      /\ awaited = [c \in {} |-> {}] /\ Registered = {}
  BY DEF PendingInit, Store, Registered
<1>2. s \in Stores({})
  <2>1. s.order \in UNION {[D -> {}] : D \in SUBSET Nat}
    <3>1. s.order \in [{} -> {}] /\ {} \in SUBSET Nat
      BY <1>1
    <3>2. QED
      BY <3>1
  <2>2. QED
    BY <1>1, <2>1 DEF Stores, Store
<1> HIDE DEF s
<1>3. \A c : OfCursor(s, c) = {}
  BY <1>1 DEF OfCursor
<1>4. BytesOf({}) = 0 /\ Cardinality({}) = 0 /\ IsFiniteSet({})
  <2>1. Weighed({})
    BY FS_EmptySet DEF Weighed
  <2>2. QED
    BY <2>1, BytesAddUp, FS_EmptySet
<1>5. Sound({}, s)
  <2>1. DOMAIN s.order = {e.ordinal : e \in s.entries}
    BY <1>1
  <2>2. QED
    BY <1>1, <1>2, <1>3, <1>4, <2>1 DEF Sound
<1>6. Limits({}, s)
  BY <1>1, <1>4, PendingAssumption DEF Limits
<1>7. Doubted(s) /\ Epochs({}, s, epochs) /\ Admits({}, s, awaited)
  BY <1>1 DEF Doubted, Epochs, Admits
<1>8. Accounted({}, s, epochs, awaited)
  BY <1>5, <1>6, <1>7 DEF Accounted
<1>9. QED
  BY <1>1, <1>8 DEF PendingInv, s

(* The fields of the store, of a state and of the next one.                *)
LEMMA StoreIs ==
  /\ Store.entries = entries /\ Store.order = order /\ Store.owned = owned /\ Store.total = total
  /\ Store.coverage = coverage /\ Store.next = next /\ Fielded(Store)
  /\ \A c : OfCursor(Store, c) = Held(c)
BY DEF Store, Fielded, OfCursor, Held

NextStore == [entries |-> entries', order |-> order', owned |-> owned', total |-> total',
              coverage |-> coverage', next |-> next']

(* The same of the next state.                                              *)
LEMMA NextStoreIs ==
  /\ NextStore.entries = entries' /\ NextStore.order = order' /\ NextStore.owned = owned'
  /\ NextStore.total = total' /\ NextStore.coverage = coverage' /\ NextStore.next = next'
  /\ Fielded(NextStore)
BY DEF NextStore, Fielded

(* The invariant of the next state, said of the record.                     *)
LEMMA NextAccounted ==
  ASSUME Accounted(DOMAIN coverage', NextStore, epochs', awaited')
  PROVE  PendingInv'
BY DEF PendingInv, Registered, Store, NextStore

(* A transcript in a new epoch waits for nothing.                          *)
LEMMA RestartedAccounted ==
  ASSUME PendingInv, NEW owner \in Cursors, NEW epoch \in {0, epochs}, Restarted(owner, epoch),
         epochs' = IF epoch = 0 THEN epochs ELSE epochs + 1
  PROVE  PendingInv'
<1> DEFINE R == Registered
           Q == IF epoch = 0 THEN R \ {owner} ELSE R \cup {owner}
           s == Store
           t == NextStore
<1>1. /\ R \subseteq Cursors /\ Sound(R, s) /\ Limits(R, s) /\ Doubted(s) /\ Epochs(R, s, epochs)
      /\ Admits(R, s, awaited)
  BY DEF PendingInv, Accounted
<1>2. /\ s.entries = entries /\ s.order = order /\ s.owned = owned /\ s.total = total
      /\ s.coverage = coverage /\ s.next = next /\ OfCursor(s, owner) = Held(owner)
      /\ t.entries = entries' /\ t.order = order' /\ t.owned = owned' /\ t.total = total'
      /\ t.coverage = coverage' /\ t.next = next' /\ Fielded(t)
  BY StoreIs, NextStoreIs
<1>3. owned \in [R -> Nat] /\ coverage \in [R -> [epoch : Nat, lost : Nat]] /\ s.entries \subseteq Entry(R)
  BY <1>1, <1>2, StoreFields
<1>4. epochs \in Nat \ {0} /\ awaited \in [R -> SUBSET (CallIds \X Calls)]
  BY <1>1 DEF Epochs, Admits
<1>5. ASSUME NEW f, NEW g, DOMAIN f = R, NEW new,
             g = IF epoch = 0 THEN Drop(f, {owner}) ELSE Put(f, owner, new)
      PROVE  /\ DOMAIN g = Q /\ g = [c \in Q |-> g[c]] /\ \A c \in R \ {owner} : g[c] = f[c]
             /\ owner \in Q => g[owner] = new
  BY <1>5 DEF Drop, Put
<1>6. /\ DOMAIN coverage' = Q /\ coverage' = [c \in Q |-> coverage'[c]]
      /\ \A c \in R \ {owner} : coverage'[c] = coverage[c]
      /\ owner \in Q => coverage'[owner] = Lossless(epoch)
  <2>1. coverage' = IF epoch = 0 THEN Drop(coverage, {owner}) ELSE Put(coverage, owner, Lossless(epoch))
    BY DEF Restarted
  <2>2. DOMAIN coverage = R
    BY DEF Registered
  <2> HIDE DEF Q, R
  <2>3. QED
    BY <1>5, <2>1, <2>2
<1>7. /\ DOMAIN owned' = Q /\ owned' = [c \in Q |-> owned'[c]]
      /\ \A c \in R \ {owner} : owned'[c] = owned[c]
      /\ owner \in Q => owned'[owner] = 0
  <2>1. owned' = IF epoch = 0 THEN Drop(owned, {owner}) ELSE Put(owned, owner, 0)
    BY DEF Restarted
  <2>2. DOMAIN owned = R
    BY <1>3
  <2> HIDE DEF Q, R
  <2>3. QED
    BY <1>5, <2>1, <2>2
<1>8. /\ DOMAIN awaited' = Q /\ awaited' = [c \in Q |-> awaited'[c]]
      /\ \A c \in R \ {owner} : awaited'[c] = awaited[c]
      /\ owner \in Q => awaited'[owner] = {}
  <2>1. awaited' = IF epoch = 0 THEN Drop(awaited, {owner}) ELSE Put(awaited, owner, {})
    BY DEF Restarted
  <2>2. DOMAIN awaited = R
    BY <1>4
  <2> HIDE DEF Q, R
  <2>3. QED
    BY <1>5, <2>1, <2>2, SMTT(30)
<1>9. Q \ {owner} = R \ {owner} /\ Q \subseteq Cursors /\ (owner \in Q => epoch = epochs /\ epoch # 0)
  BY <1>1
<1>10. /\ entries' = entries \ Held(owner) /\ next' = next
       /\ order' = Drop(order, {e.ordinal : e \in Held(owner)})
       /\ total' = total - (IF owner \in R THEN owned[owner] ELSE 0)
  BY DEF Restarted
<1> HIDE DEF Q, R, s, t
<1>11. coverage' \in [Q -> [epoch : Nat, lost : Nat]]
  <2>1. ASSUME NEW c \in Q PROVE coverage'[c] \in [epoch : Nat, lost : Nat]
    <3>1. CASE c = owner
      BY <1>4, <1>6, <1>9, <3>1 DEF Lossless
    <3>2. CASE c # owner
      BY <1>3, <1>6, <1>9, <3>2
    <3>3. QED
      BY <3>1, <3>2
  <2>2. QED
    BY <1>6, <2>1
<1>12. owned' \in [Q -> Nat]
  <2>1. ASSUME NEW c \in Q PROVE owned'[c] \in Nat
    BY <1>3, <1>7, <1>9
  <2>2. QED
    BY <1>7, <2>1
<1>13. awaited' \in [Q -> SUBSET (CallIds \X Calls)]
  <2>1. ASSUME NEW c \in Q PROVE awaited'[c] \in SUBSET (CallIds \X Calls)
    BY <1>4, <1>8, <1>9
  <2>2. QED
    BY <1>8, <2>1
<1>14. Sound(Q, t) /\ Limits(Q, t) /\ Doubted(t)
  <2>1. /\ t.entries = s.entries \ OfCursor(s, owner) /\ t.next = s.next
        /\ t.order = Drop(s.order, {e.ordinal : e \in OfCursor(s, owner)})
        /\ t.total = s.total - (IF owner \in R THEN s.owned[owner] ELSE 0)
    BY <1>2, <1>10
  <2>2. /\ t.coverage \in [Q -> [epoch : Nat, lost : Nat]] /\ t.owned \in [Q -> Nat]
        /\ \A c \in R \ {owner} : t.coverage[c] = s.coverage[c] /\ t.owned[c] = s.owned[c]
        /\ owner \in Q => t.owned[owner] = 0
    BY <1>2, <1>6, <1>7, <1>11, <1>12
  <2>3. Freshened(R, s, owner, Q, t)
    BY <1>2, <1>9, <2>1, <2>2 DEF Freshened
  <2>4. QED
    BY <1>1, <2>3, FreshKeepsAccounts
<1>15. Epochs(Q, t, epochs')
  <2>1. \A c \in R : coverage[c].epoch < epochs /\ coverage[c].epoch \in Nat
                     /\ \A d \in R : c # d => coverage[c].epoch # coverage[d].epoch
    BY <1>1, <1>2, <1>3 DEF Epochs
  <2>2. \A c \in Q : c # owner => c \in R /\ coverage'[c].epoch = coverage[c].epoch
    BY <1>6, <1>9
  <2>3. owner \in Q => coverage'[owner].epoch = epochs /\ epochs' = epochs + 1
    BY <1>6, <1>9 DEF Lossless
  <2>4. epochs' \in Nat \ {0} /\ epochs <= epochs'
    BY <1>4
  <2>5. ASSUME NEW c \in Q PROVE coverage'[c].epoch < epochs'
    BY <1>4, <2>1, <2>2, <2>3, <2>4
  <2>6. ASSUME NEW c \in Q, NEW d \in Q, c # d PROVE coverage'[c].epoch # coverage'[d].epoch
    <3>1. CASE c = owner
      BY <1>4, <2>1, <2>2, <2>3, <2>6, <3>1
    <3>2. CASE d = owner
      BY <1>4, <2>1, <2>2, <2>3, <2>6, <3>2
    <3>3. CASE c # owner /\ d # owner
      BY <2>1, <2>2, <2>6, <3>3
    <3>4. QED
      BY <3>1, <3>2, <3>3
  <2>7. QED
    BY <1>2, <2>4, <2>5, <2>6 DEF Epochs
<1>16. Admits(Q, t, awaited')
  <2>1. ASSUME NEW c \in Q, NEW a \in awaited'[c]
        PROVE  (\E e \in t.entries : Says(e, c, a[1], a[2])) \/ t.coverage[c].lost > 0
    <3>1. c # owner /\ c \in R /\ a \in awaited[c] /\ coverage'[c] = coverage[c]
      BY <1>6, <1>8, <1>9, <2>1
    <3>2. (\E e \in s.entries : Says(e, c, a[1], a[2])) \/ s.coverage[c].lost > 0
      BY <1>1, <3>1 DEF Admits
    <3>3. CASE s.coverage[c].lost > 0
      BY <1>2, <3>1, <3>3
    <3>4. ASSUME NEW e \in s.entries, Says(e, c, a[1], a[2]) PROVE e \in t.entries
      BY <1>2, <1>10, <3>1, <3>4 DEF Held, Says
    <3>5. QED
      BY <3>2, <3>3, <3>4
  <2>2. QED
    BY <1>13, <2>1 DEF Admits
<1>17. Accounted(Q, t, epochs', awaited')
  BY <1>9, <1>14, <1>15, <1>16 DEF Accounted
<1>18. QED
  BY <1>6, <1>17, NextAccounted DEF t

(* The result of a call is no longer waited for.                           *)
LEMMA ResultAccounted ==
  ASSUME PendingInv, NEW owner \in Cursors, NEW id \in CallIds, Result(owner, id), UNCHANGED epochs
  PROVE  PendingInv'
<1> DEFINE R == Registered
           s == Store
           t == NextStore
<1>1. /\ R \subseteq Cursors /\ Sound(R, s) /\ Limits(R, s) /\ Doubted(s) /\ Epochs(R, s, epochs)
      /\ Admits(R, s, awaited)
  BY DEF PendingInv, Accounted
<1>2. /\ s.entries = entries /\ s.order = order /\ s.owned = owned /\ s.total = total
      /\ s.coverage = coverage /\ s.next = next
      /\ t.entries = entries' /\ t.order = order' /\ t.owned = owned' /\ t.total = total'
      /\ t.coverage = coverage' /\ t.next = next' /\ Fielded(t)
  BY StoreIs, NextStoreIs
<1>3. PICK entry \in Named(owner, id) :
        /\ entries' = entries \ {entry} /\ order' = Drop(order, {entry.ordinal})
        /\ owned' = [owned EXCEPT ![owner] = @ - entry.bytes] /\ total' = total - entry.bytes
  BY DEF Result
<1>4. /\ awaited' = [awaited EXCEPT ![owner] = {a \in @ : a[1] # id}]
      /\ coverage' = coverage /\ next' = next
  BY DEF Result
<1>5. entry \in s.entries /\ entry.cursor = owner /\ entry.id = id
  BY <1>2, <1>3 DEF Named, Held
<1>6. awaited \in [R -> SUBSET (CallIds \X Calls)]
  BY <1>1 DEF Admits
<1> HIDE DEF s, t, R
<1>7. t = [entries |-> s.entries \ {entry}, order |-> Drop(s.order, {entry.ordinal}),
           owned |-> [s.owned EXCEPT ![entry.cursor] = @ - entry.bytes],
           total |-> s.total - entry.bytes, coverage |-> s.coverage, next |-> s.next]
  BY <1>2, <1>3, <1>4, <1>5 DEF Fielded
<1>8. Sound(R, t) /\ Limits(R, t) /\ Doubted(t)
  BY <1>1, <1>5, <1>7, ResultKeepsAccounts
<1>9. Epochs(R, t, epochs')
  BY <1>1, <1>2, <1>4 DEF Epochs
<1>10. Admits(R, t, awaited')
  <2>1. awaited' \in [R -> SUBSET (CallIds \X Calls)]
    BY <1>4, <1>6
  <2>2. ASSUME NEW c \in R, NEW a \in awaited'[c]
        PROVE  (\E e \in t.entries : Says(e, c, a[1], a[2])) \/ t.coverage[c].lost > 0
    <3>1. a \in awaited[c] /\ (c = owner => a[1] # id)
      BY <1>4, <1>6
    <3>2. (\E e \in s.entries : Says(e, c, a[1], a[2])) \/ s.coverage[c].lost > 0
      BY <1>1, <3>1 DEF Admits
    <3>3. ASSUME NEW e \in s.entries, Says(e, c, a[1], a[2]) PROVE e \in t.entries
      BY <1>2, <1>3, <1>5, <3>1, <3>3 DEF Says
    <3>4. QED
      BY <1>2, <1>4, <3>2, <3>3
  <2>3. QED
    BY <2>1, <2>2 DEF Admits
<1>11. Accounted(R, t, epochs', awaited')
  BY <1>1, <1>8, <1>9, <1>10 DEF Accounted
<1>12. DOMAIN coverage' = R
  BY <1>4 DEF R, Registered
<1>13. QED
  BY <1>11, <1>12, NextAccounted DEF t

(* What a call says is awaited unless there was a loss.                    *)
LEMMA CallAwaited ==
  ASSUME NEW R, NEW s, NEW t, NEW calls, Admits(R, s, calls), Carried(R, s, t),
         NEW owner \in R, NEW id \in CallIds, NEW call \in Calls,
         t.coverage[owner].lost > 0 \/ \E f \in t.entries : Says(f, owner, id, call)
  PROVE  Admits(R, t, [c \in R |->
           IF t.coverage[c].lost > 0 THEN {}
           ELSE calls[c] \cup (IF c = owner THEN {<<id, call>>} ELSE {})])
<1> DEFINE new == [c \in R |-> IF t.coverage[c].lost > 0 THEN {}
                               ELSE calls[c] \cup (IF c = owner THEN {<<id, call>>} ELSE {})]
<1>1. calls \in [R -> SUBSET (CallIds \X Calls)]
  BY DEF Admits
<1>2. new \in [R -> SUBSET (CallIds \X Calls)]
  BY <1>1
<1>3. \A c \in R : \A a \in new[c] :
        ~(t.coverage[c].lost > 0) /\ (a \in calls[c] \/ (c = owner /\ a = <<id, call>>))
  OBVIOUS
<1> HIDE DEF new
<1>4. ASSUME NEW c \in R, NEW a \in new[c]
      PROVE  (\E e \in t.entries : Says(e, c, a[1], a[2])) \/ t.coverage[c].lost > 0
  <2>1. ~(t.coverage[c].lost > 0) /\ ~(s.coverage[c].lost > 0)
    BY <1>3 DEF Carried
  <2>2. CASE a \in calls[c]
    <3>1. PICK e \in s.entries : Says(e, c, a[1], a[2])
      BY <2>1, <2>2 DEF Admits
    <3>2. e.cursor = c /\ e.id = a[1] /\ e.tool = a[2]
      BY <3>1 DEF Says
    <3>3. \E f \in t.entries : Says(f, e.cursor, e.id, e.tool)
      BY <2>1, <3>2 DEF Carried
    <3>4. QED
      BY <3>2, <3>3
  <2>3. CASE c = owner /\ a = <<id, call>>
    BY <2>1, <2>3
  <2>4. QED
    BY <1>3, <2>2, <2>3
<1>5. QED
  BY <1>2, <1>4 DEF Admits, new

(* What a call changes of the entries.                                     *)
LEMMA CallKeepsAccounts ==
  ASSUME PendingInv, NEW owner \in Cursors, NEW id \in CallIds, NEW call \in Calls,
         InsertCall(owner, id, call)
  PROVE  /\ Sound(Registered, NextStore) /\ Limits(Registered, NextStore) /\ Doubted(NextStore)
         /\ Carried(Registered, Store, NextStore) /\ DOMAIN coverage' = Registered
         /\ \/ NextStore.coverage[owner].lost > 0
            \/ \E f \in NextStore.entries : Says(f, owner, id, call)
<1> DEFINE R == Registered
           s == Store
           t == NextStore
<1>1. /\ R \subseteq Cursors /\ Sound(R, s) /\ Limits(R, s) /\ Doubted(s)
  BY DEF PendingInv, Accounted
<1>2. /\ s.entries = entries /\ s.order = order /\ s.owned = owned /\ s.total = total
      /\ s.coverage = coverage /\ s.next = next
      /\ t.entries = entries' /\ t.order = order' /\ t.owned = owned' /\ t.total = total'
      /\ t.coverage = coverage' /\ t.next = next' /\ Fielded(s) /\ Fielded(t)
  BY StoreIs, NextStoreIs
<1>3. owner \in R
  BY DEF InsertCall
<1>4. \A e : e \in Named(owner, id) <=> e \in s.entries /\ e.cursor = owner /\ e.id = id
  BY <1>2 DEF Named, Held
<1>5. s.coverage \in [R -> [epoch : Nat, lost : Nat]]
  BY <1>1, StoreFields
<1> DEFINE Done == /\ Sound(R, t) /\ Limits(R, t) /\ Doubted(t) /\ Carried(R, s, t)
                   /\ t.coverage[owner].lost > 0 \/ \E f \in t.entries : Says(f, owner, id, call)
<1> HIDE DEF R, s, t
<1>6. ASSUME NEW entry \in Named(owner, id), Conflict(owner, entry, call) PROVE Done
  <2>1. entry \in s.entries /\ entry.cursor = owner
    BY <1>4
  <2>2. t = WithDoubt(s, entry)
    BY <1>2, <1>6, <2>1 DEF Conflict, WithDoubt, Doubtful, Lost, Fielded
  <2>3. QED
    BY <1>1, <2>1, <2>2, DoubtKeepsAccounts
<1>7. ASSUME NEW entry \in Named(owner, id), entry.tool \in {Ambiguous, call},
             UNCHANGED <<entries, owned, order, next, total, coverage>>
      PROVE  Done
  <2>1. t = s
    BY <1>2, <1>7 DEF Fielded
  <2>2. entry \in s.entries /\ entry.cursor = owner /\ entry.id = id
    BY <1>4
  <2>3. Carried(R, s, s)
    BY DEF Carried, Says
  <2>4. s.coverage[owner].lost > 0 \/ Says(entry, owner, id, call)
    BY <1>1, <1>7, <2>2 DEF Doubted, Says
  <2>5. QED
    BY <1>1, <2>1, <2>2, <2>3, <2>4
<1>8. ASSUME coverage' = Lost(coverage, owner), UNCHANGED <<entries, owned, order, next, total>>
      PROVE  Done
  <2>1. t = WithCoverage(s, Lost(s.coverage, owner))
    BY <1>2, <1>8 DEF Fielded, WithCoverage
  <2>2. LET new == Lost(s.coverage, owner)
        IN /\ new \in [R -> [epoch : Nat, lost : Nat]] /\ new[owner].lost > 0
           /\ \A c \in R : /\ new[c].epoch = s.coverage[c].epoch
                           /\ s.coverage[c].lost > 0 => new[c].lost > 0
    BY <1>3, <1>5, LossCounted
  <2>3. /\ t.entries = s.entries /\ t.owned = s.owned /\ t.total = s.total /\ t.next = s.next
        /\ t.coverage = Lost(s.coverage, owner)
    BY <2>1 DEF WithCoverage
  <2>4. Sound(R, t)
    BY <1>1, <2>1, <2>2, AccountsOfEntries
  <2>5. \A c : OfCursor(t, c) = OfCursor(s, c)
    BY <2>3 DEF OfCursor
  <2>6. Limits(R, t)
    BY <1>1, <2>3, <2>5 DEF Limits
  <2>7. Doubted(t)
    <3>1. \A e \in s.entries : e.cursor \in R
      BY <1>1, StoreFields DEF Entry
    <3>2. QED
      BY <1>1, <2>2, <2>3, <3>1 DEF Doubted
  <2>8. Carried(R, s, t) /\ t.coverage[owner].lost > 0
    BY <2>2, <2>3 DEF Carried, Says
  <2>9. QED
    BY <2>4, <2>6, <2>7, <2>8
<1>9. ASSUME Named(owner, id) = {}, ~Oversized(id, call),
             Insertion(owner, id, call)
      PROVE  Done
  <2> DEFINE bytes == OwnedBytes(id, call)
             u == Rebased(SourceRoom(CursorRoom(s, owner, bytes), bytes))
             entry == [cursor |-> owner, id |-> id, ordinal |-> u.next, tool |-> call, bytes |-> bytes]
  <2>1. s = [entries |-> entries, order |-> order, owned |-> owned, total |-> total,
             coverage |-> coverage, next |-> next]
    BY DEF s, Store
  <2>2. /\ entries' = u.entries \cup {entry} /\ order' = Put(u.order, u.next, owner)
        /\ owned' = [u.owned EXCEPT ![owner] = @ + bytes] /\ total' = u.total + bytes
        /\ coverage' = u.coverage /\ next' = u.next + 1
    BY <1>9, <2>1 DEF Insertion
  <2> HIDE DEF u
  <2>3. t = With(u, entry)
    BY <1>2, <2>2 DEF With, Fielded
  <2>4. \A e \in s.entries : ~(e.cursor = owner /\ e.id = id)
    BY <1>4, <1>9
  <2>5. QED
    BY <1>1, <1>3, <1>9, <2>3, <2>4, InsertionKeepsAccounts DEF u
<1> HIDE DEF Done
<1>10. Done
  <2>1. CASE \E entry \in Named(owner, id) : Conflict(owner, entry, call)
    BY <1>6, <2>1
  <2>2. CASE \E entry \in Named(owner, id) :
               entry.tool \in {Ambiguous, call} /\ UNCHANGED <<entries, owned, order, next, total, coverage>>
    BY <1>7, <2>2
  <2>3. CASE coverage' = [coverage EXCEPT ![owner].lost = Counted(@)]
             /\ UNCHANGED <<entries, owned, order, next, total>>
    BY <1>8, <2>3 DEF Lost
  <2>4. CASE /\ Named(owner, id) = {} /\ ~Oversized(id, call)
             /\ Insertion(owner, id, call)
    BY <1>9, <2>4
  <2>5. QED
    BY <2>1, <2>2, <2>3, <2>4 DEF InsertCall
<1>11. DOMAIN coverage' = R
  <2>1. t.coverage \in [R -> [epoch : Nat, lost : Nat]]
    BY <1>10, StoreFields DEF Done
  <2>2. QED
    BY <1>2, <2>1
<1>12. QED
  BY <1>10, <1>11 DEF Done, R, s, t

(* A call that is seen keeps the invariant.                                 *)
LEMMA CallAccounted ==
  ASSUME PendingInv, NEW owner \in Cursors, NEW id \in CallIds, NEW call \in Calls,
         InsertCall(owner, id, call)
  PROVE  PendingInv'
<1> DEFINE R == Registered
           s == Store
           t == NextStore
<1>1. R \subseteq Cursors /\ Epochs(R, s, epochs) /\ Admits(R, s, awaited)
  BY DEF PendingInv, Accounted
<1>2. /\ Sound(R, t) /\ Limits(R, t) /\ Doubted(t) /\ Carried(R, s, t) /\ DOMAIN coverage' = R
      /\ t.coverage[owner].lost > 0 \/ \E f \in t.entries : Says(f, owner, id, call)
  BY CallKeepsAccounts
<1>3. owner \in R /\ epochs' = epochs
  BY DEF InsertCall
<1>4. awaited' = [c \in R |-> IF t.coverage[c].lost > 0 THEN {}
                              ELSE awaited[c] \cup (IF c = owner THEN {<<id, call>>} ELSE {})]
  BY NextStoreIs DEF InsertCall, HasLoss
<1> HIDE DEF R, s, t
<1>5. Admits(R, t, awaited')
  BY <1>1, <1>2, <1>3, <1>4, CallAwaited
<1>6. Epochs(R, t, epochs')
  BY <1>1, <1>2, <1>3 DEF Epochs, Carried
<1>7. Accounted(R, t, epochs', awaited')
  BY <1>1, <1>2, <1>5, <1>6 DEF Accounted
<1>8. QED
  BY <1>2, <1>7, NextAccounted DEF t

(* So does what leaves the store alone,                                     *)
LEMMA PendingStutters == ASSUME PendingInv, UNCHANGED pendingVars PROVE PendingInv'
<1>1. /\ entries' = entries /\ coverage' = coverage /\ owned' = owned /\ order' = order /\ next' = next
      /\ total' = total /\ epochs' = epochs /\ awaited' = awaited
  BY DEF pendingVars
<1>2. NextStore = Store /\ DOMAIN coverage' = Registered
  BY <1>1 DEF NextStore, Store, Registered
<1>3. Accounted(DOMAIN coverage', NextStore, epochs', awaited')
  BY <1>1, <1>2 DEF PendingInv
<1>4. QED
  BY <1>3, NextAccounted

(* and so does every step.                                                  *)
LEMMA PendingStep == ASSUME PendingInv, [PendingNext]_pendingVars PROVE PendingInv'
<1>1. ASSUME NEW c \in Cursors, Register(c) PROVE PendingInv'
  <2>1. Restarted(c, epochs) /\ epochs' = epochs + 1 /\ epochs # 0
    BY <1>1 DEF Register, PendingInv, Accounted, Epochs
  <2>2. QED
    BY <2>1, RestartedAccounted
<1>2. ASSUME NEW c \in Cursors, Unregister(c) PROVE PendingInv'
  <2>1. Restarted(c, 0) /\ epochs' = epochs
    BY <1>2 DEF Unregister
  <2>2. QED
    BY <2>1, RestartedAccounted
<1>3. ASSUME NEW c \in Cursors, Restart(c) PROVE PendingInv'
  <2>1. Restarted(c, epochs) /\ epochs' = epochs + 1 /\ epochs # 0
    BY <1>3 DEF Restart, PendingInv, Accounted, Epochs
  <2>2. QED
    BY <2>1, RestartedAccounted
<1>4. ASSUME NEW c \in Cursors, NEW id \in CallIds, Result(c, id) PROVE PendingInv'
  <2>1. UNCHANGED epochs
    BY <1>4 DEF Result
  <2>2. QED
    BY <1>4, <2>1, ResultAccounted
<1>5. ASSUME NEW c \in Cursors, NEW id \in CallIds, NEW call \in Calls, InsertCall(c, id, call)
      PROVE  PendingInv'
  BY <1>5, CallAccounted
<1>6. CASE UNCHANGED pendingVars
  BY <1>6, PendingStutters
<1>7. QED
  BY <1>1, <1>2, <1>3, <1>4, <1>5, <1>6 DEF PendingNext

(* The accounts, the limits and the admitted losses hold together.          *)
THEOREM PendingInvariance == PendingSpec => []PendingInv
<1>1. PendingInv /\ [PendingNext]_pendingVars => PendingInv'
  BY PendingStep
<1>2. QED
  BY <1>1, PendingInitially, PTL DEF PendingSpec

(* Whatever is evicted, rebased, made ambiguous or closed, the accounts of  *)
(* the pending store are those of its entries and its limits hold           *)
(* (AccountsExact).                                                         *)
THEOREM AccountsExactCorrect == PendingSpec => []AccountsExact
<1>1. PendingInv => AccountsExact
  <2> SUFFICES ASSUME PendingInv PROVE AccountsExact
    OBVIOUS
  <2>1. Sound(Registered, Store) /\ Limits(Registered, Store)
    BY DEF PendingInv, Accounted
  <2>2. /\ Store.entries = entries /\ Store.order = order /\ Store.owned = owned /\ Store.total = total
        /\ Store.coverage = coverage /\ Store.next = next
        /\ \A c : OfCursor(Store, c) = Held(c)
    BY StoreIs
  <2>3. owned \in [Registered -> Nat]
    BY <2>1, <2>2, StoreFields
  <2>4. QED
    BY <2>1, <2>2, <2>3 DEF Sound, Limits, AccountsExact
<1>2. QED
  BY <1>1, PendingInvariance, PTL

(* A call that waits for its result is held as it was said, or its          *)
(* transcript admits a loss; no two transcripts share an epoch              *)
(* (LossAdmitted).                                                          *)
THEOREM LossAdmittedCorrect == PendingSpec => []LossAdmitted
<1>1. PendingInv => LossAdmitted
  <2> SUFFICES ASSUME PendingInv PROVE LossAdmitted
    OBVIOUS
  <2>1. Epochs(Registered, Store, epochs) /\ Admits(Registered, Store, awaited)
    BY DEF PendingInv, Accounted
  <2>2. Store.entries = entries /\ Store.coverage = coverage
    BY StoreIs
  <2>3. \A c \in Registered : \A a \in awaited[c] :
          (\E e \in entries : Says(e, c, a[1], a[2])) \/ coverage[c].lost > 0
    BY <2>1, <2>2 DEF Admits
  <2>4. \A c, d \in Registered : c # d => coverage[c].epoch # coverage[d].epoch
    BY <2>1, <2>2 DEF Epochs
  <2>5. QED
    BY <2>3, <2>4 DEF LossAdmitted, Says, Named, Held, HasLoss
<1>2. QED
  BY <1>1, PendingInvariance, PTL

-----------------------------------------------------------------------------
(* Where the lines of a transcript end and start, which of them are kept,  *)
(* and the one that ends somewhere.                                        *)
EndsOf(bytes) == {i \in 1..Len(bytes) : bytes[i] = Newline}
StartOf(bytes, i) == 1 + Max({j \in EndsOf(bytes) : j < i} \cup {0})
KeptOf(bytes) == {i \in EndsOf(bytes) : i - StartOf(bytes, i) \in 1..MaxLine}
LineAt(bytes, i) == SubSeq(bytes, StartOf(bytes, i), i - 1)
Nth(S, n) == CHOOSE i \in S : Cardinality({j \in S : j <= i}) = n

LEMMA LinesAre ==
  ASSUME NEW bytes
  PROVE  LinesOf(bytes) = [n \in 1..Cardinality(KeptOf(bytes)) |-> LineAt(bytes, Nth(KeptOf(bytes), n))]
BY DEF LinesOf, EndsOf, StartOf, KeptOf, Nth, LineAt

(* A greater number does not change which is the nth.                      *)
LEMMA NthSame ==
  ASSUME NEW S \in SUBSET Nat, IsFiniteSet(S), NEW e \in Nat, \A i \in S : i < e
  PROVE  /\ \A n \in 1..Cardinality(S) : Nth(S \cup {e}, n) = Nth(S, n)
         /\ Nth(S \cup {e}, Cardinality(S) + 1) = e
         /\ Cardinality(S \cup {e}) = Cardinality(S) + 1 /\ Cardinality(S) \in Nat
<1>0. Cardinality(S) \in Nat
  BY FS_CardinalityType
<1>1. \A i \in S : {j \in S \cup {e} : j <= i} = {j \in S : j <= i}
  OBVIOUS
<1>2. {j \in S \cup {e} : j <= e} = S \cup {e}
  <2>1. ASSUME NEW j \in S \cup {e} PROVE j <= e
    OBVIOUS
  <2>2. QED
    BY <2>1
<1>3. Cardinality(S \cup {e}) = Cardinality(S) + 1
  <2>1. e \notin S
    OBVIOUS
  <2>2. QED
    BY <2>1, FS_AddElement
<1>4. ASSUME NEW i \in S PROVE Cardinality({j \in S : j <= i}) \in Nat /\ Cardinality({j \in S : j <= i}) <= Cardinality(S)
  <2>1. {j \in S : j <= i} \subseteq S
    OBVIOUS
  <2>2. QED
    BY <2>1, FS_Subset, FS_CardinalityType
<1>5. ASSUME NEW n \in 1..Cardinality(S) PROVE Nth(S \cup {e}, n) = Nth(S, n)
  <2>1. Cardinality({j \in S \cup {e} : j <= e}) # n
    BY <1>0, <1>2, <1>3
  <2>2. \A i : (i \in S \cup {e} /\ Cardinality({j \in S \cup {e} : j <= i}) = n)
               <=> (i \in S /\ Cardinality({j \in S : j <= i}) = n)
    BY <1>1, <2>1
  <2>3. QED
    BY <2>2 DEF Nth
<1>6. Nth(S \cup {e}, Cardinality(S) + 1) = e
  <2>1. Cardinality({j \in S \cup {e} : j <= e}) = Cardinality(S) + 1
    BY <1>2, <1>3
  <2>2. ASSUME NEW i \in S \cup {e}, Cardinality({j \in S \cup {e} : j <= i}) = Cardinality(S) + 1
        PROVE  i = e
    <3>1. CASE i \in S
      <4>1. Cardinality({j \in S : j <= i}) = Cardinality(S) + 1
        BY <1>1, <2>2, <3>1
      <4>2. QED
        BY <1>0, <1>4, <3>1, <4>1
    <3>2. QED
      BY <3>1
  <2>3. QED
    BY <2>1, <2>2 DEF Nth
<1>7. QED
  BY <1>0, <1>3, <1>5, <1>6

(* A line starts behind the end of the line before it.                     *)
LEMMA StartIs ==
  ASSUME NEW bytes \in Seq(Bytes), NEW i \in 1..(Len(bytes) + 1)
  PROVE  /\ StartOf(bytes, i) \in 1..i
         /\ \A j \in EndsOf(bytes) : j < i => j < StartOf(bytes, i)
<1> DEFINE S == {j \in EndsOf(bytes) : j < i} \cup {0}
<1>0. Len(bytes) \in Nat /\ i \in Nat /\ i > 0
  OBVIOUS
<1>1. S # {} /\ \A x \in S : x \in Nat /\ x <= i - 1
  BY <1>0 DEF EndsOf
<1>2. i - 1 \in Nat
  BY <1>0
<1>3. Max(S) \in S /\ \A x \in S : x <= Max(S)
  <2> HIDE DEF S
  <2>1. QED
    BY <1>1, <1>2, GreatestOf
<1>4. Max(S) \in Nat /\ Max(S) <= i - 1
  <2> HIDE DEF S
  <2>1. QED
    BY <1>1, <1>3
<1>5. StartOf(bytes, i) = 1 + Max(S)
  BY DEF StartOf
<1>6. ASSUME NEW j \in EndsOf(bytes), j < i PROVE j < 1 + Max(S)
  <2>1. j \in S /\ j \in Nat
    BY <1>6 DEF EndsOf
  <2> HIDE DEF S
  <2>2. QED
    BY <1>3, <1>4, <2>1
<1> HIDE DEF S
<1>7. QED
  BY <1>0, <1>4, <1>5, <1>6

(* One more byte ends one more line or none; it moves no line.             *)
LEMMA OneMoreByte ==
  ASSUME NEW bytes \in Seq(Bytes), NEW b \in Bytes
  PROVE  LET ext == Append(bytes, b)
             n == Len(bytes)
         IN /\ EndsOf(ext) = IF b = Newline THEN EndsOf(bytes) \cup {n + 1} ELSE EndsOf(bytes)
            /\ \A i \in 1..(n + 1) : StartOf(ext, i) = StartOf(bytes, i)
            /\ \A i \in 1..(n + 1) : LineAt(ext, i) = LineAt(bytes, i)
            /\ StartOf(ext, n + 2) = IF b = Newline THEN n + 2 ELSE StartOf(bytes, n + 1)
<1> DEFINE ext == Append(bytes, b)
           n == Len(bytes)
<1>0. n \in Nat
  OBVIOUS
<1>1. /\ ext \in Seq(Bytes) /\ Len(ext) = n + 1
      /\ \A i \in 1..n : ext[i] = bytes[i]
      /\ ext[n + 1] = b
  BY AppendProperties
<1>2. EndsOf(ext) = IF b = Newline THEN EndsOf(bytes) \cup {n + 1} ELSE EndsOf(bytes)
  <2> HIDE DEF ext
  <2>1. ASSUME NEW i \in 1..(n + 1), i # n + 1 PROVE i \in 1..n
    BY <1>0, <2>1
  <2>2. 1..(n + 1) = (1..n) \cup {n + 1}
    BY <1>0
  <2>3. QED
    BY <1>0, <1>1, <2>2 DEF EndsOf
<1>3. ASSUME NEW i \in 1..(n + 1) PROVE StartOf(ext, i) = StartOf(bytes, i)
  <2>1. {j \in EndsOf(ext) : j < i} = {j \in EndsOf(bytes) : j < i}
    <3>1. ~(n + 1 < i)
      BY <1>0
    <3>2. QED
      BY <1>2, <3>1
  <2>2. QED
    BY <2>1 DEF StartOf
<1>4. ASSUME NEW i \in 1..(n + 1) PROVE LineAt(ext, i) = LineAt(bytes, i)
  <2>1. StartOf(bytes, i) \in 1..i
    BY StartIs
  <2> DEFINE m == StartOf(bytes, i)
  <2>2. \A k \in m..(i - 1) : k \in 1..n /\ ext[k] = bytes[k] /\ bytes[k] \in Bytes
    <3>1. ASSUME NEW k \in m..(i - 1) PROVE k \in 1..n
      BY <1>0, <2>1
    <3>2. QED
      BY <1>1, <3>1, ElementOfSeq
  <2>3. SubSeq(ext, m, i - 1) = SubSeq(bytes, m, i - 1)
    <3>0. m \in Int /\ i - 1 \in Int
      BY <2>1
    <3> HIDE DEF ext, m
    <3>1. /\ SubSeq(ext, m, i - 1) \in Seq(Bytes)
          /\ Len(SubSeq(ext, m, i - 1)) = IF m <= i - 1 THEN (i - 1) - m + 1 ELSE 0
          /\ \A k \in 1..((i - 1) - m + 1) : SubSeq(ext, m, i - 1)[k] = ext[m + k - 1]
      BY <3>0, <2>2, SubSeqProperties
    <3>2. /\ SubSeq(bytes, m, i - 1) \in Seq(Bytes)
          /\ Len(SubSeq(bytes, m, i - 1)) = IF m <= i - 1 THEN (i - 1) - m + 1 ELSE 0
          /\ \A k \in 1..((i - 1) - m + 1) : SubSeq(bytes, m, i - 1)[k] = bytes[m + k - 1]
      BY <3>0, <2>2, SubSeqProperties
    <3>3. ASSUME NEW k \in 1..Len(SubSeq(ext, m, i - 1)) PROVE SubSeq(ext, m, i - 1)[k] = SubSeq(bytes, m, i - 1)[k]
      <4>1. k \in 1..((i - 1) - m + 1) /\ m + k - 1 \in m..(i - 1)
        BY <3>0, <3>1
      <4>2. QED
        BY <2>2, <3>1, <3>2, <4>1
    <3>4. QED
      BY <3>1, <3>2, <3>3, SeqEqual
  <2>4. LineAt(ext, i) = SubSeq(ext, m, i - 1) /\ LineAt(bytes, i) = SubSeq(bytes, m, i - 1)
    BY <1>3 DEF LineAt
  <2>5. QED
    BY <2>3, <2>4
<1>5. StartOf(ext, n + 2) = IF b = Newline THEN n + 2 ELSE StartOf(bytes, n + 1)
  <2> HIDE DEF ext
  <2>1. CASE b = Newline
    <3>1. n + 1 \in EndsOf(ext) /\ n + 1 < n + 2
      BY <1>0, <1>2, <2>1
    <3>2. StartOf(ext, n + 2) \in 1..(n + 2) /\ n + 1 < StartOf(ext, n + 2)
      <4>1. n + 2 \in 1..(Len(ext) + 1)
        BY <1>0, <1>1
      <4>2. QED
        BY <1>1, <3>1, <4>1, StartIs
    <3>3. QED
      BY <1>0, <2>1, <3>2
  <2>2. CASE b # Newline
    <3>1. {j \in EndsOf(ext) : j < n + 2} = {j \in EndsOf(bytes) : j < n + 1}
      <4>1. \A j \in EndsOf(bytes) : j < n + 1 /\ j < n + 2
        BY <1>0 DEF EndsOf
      <4>2. QED
        BY <1>2, <2>2, <4>1
    <3>2. QED
      BY <2>2, <3>1 DEF StartOf
  <2>3. QED
    BY <2>1, <2>2
<1>6. QED
  BY <1>2, <1>3, <1>4, <1>5

-----------------------------------------------------------------------------
(* What the reader holds between two bytes.                                *)
Reader == [pending : Seq(Bytes), out : Seq(Seq(Bytes)), discarding : BOOLEAN]

(* There is a line of each number.                                         *)
Ranked(bytes) ==
  \A m \in 1..Cardinality(KeptOf(bytes)) : Nth(KeptOf(bytes), m) \in KeptOf(bytes)

(* It has read these bytes: their lines are out, what follows the last     *)
(* newline is pending, or discarded if it is too long.                     *)
HasRead(st, bytes) ==
  LET from == StartOf(bytes, Len(bytes) + 1)
      long == Len(bytes) + 1 - from > MaxLine
  IN /\ st \in Reader /\ Ranked(bytes)
     /\ st.out = LinesOf(bytes) /\ st.discarding = long
     /\ st.pending = IF long THEN <<>> ELSE SubSeq(bytes, from, Len(bytes))

LEMMA NothingRead ==
  HasRead([pending |-> <<>>, out |-> <<>>, discarding |-> FALSE], <<>>)
<1>1. EndsOf(<<>>) = {} /\ KeptOf(<<>>) = {}
  BY DEF EndsOf, KeptOf
<1>2. LinesOf(<<>>) = <<>>
  <2>1. Cardinality(KeptOf(<<>>)) = 0
    BY <1>1, FS_EmptySet
  <2>2. LinesOf(<<>>) = [n \in 1..0 |-> LineAt(<<>>, Nth(KeptOf(<<>>), n))]
    BY <2>1, LinesAre
  <2>3. QED
    BY <2>2
<1>3. StartOf(<<>>, 1) = 1
  <2>1. <<>> \in Seq(Bytes) /\ Len(<<>>) = 0
    OBVIOUS
  <2>2. StartOf(<<>>, 1) \in 1..1
    <3>1. 1 \in 1..(Len(<<>>) + 1)
      BY <2>1
    <3>2. QED
      BY <2>1, <3>1, StartIs
  <2>3. QED
    BY <2>2
<1>4. SubSeq(<<>>, 1, 0) = <<>>
  BY SubSeqEmpty
<1>5. Ranked(<<>>)
  BY <1>1, FS_EmptySet DEF Ranked
<1> DEFINE st == [pending |-> <<>>, out |-> <<>>, discarding |-> FALSE]
<1>6. st \in Reader
  BY DEF Reader
<1>7. Len(<<>>) = 0 /\ MaxLine \in Nat /\ MaxLine > 0
  BY TailAssumption
<1>8. StartOf(<<>>, Len(<<>>) + 1) = 1 /\ ~(Len(<<>>) + 1 - 1 > MaxLine)
  BY <1>3, <1>7
<1>9. st.pending = <<>> /\ st.out = <<>> /\ st.discarding = FALSE
  OBVIOUS
<1> HIDE DEF st
<1>10. HasRead(st, <<>>)
  <2> DEFINE from == StartOf(<<>>, Len(<<>>) + 1)
             long == Len(<<>>) + 1 - from > MaxLine
  <2>1. from = 1 /\ long = FALSE
    BY <1>8
  <2>2. st.pending = IF long THEN <<>> ELSE SubSeq(<<>>, from, Len(<<>>))
    <3>1. SubSeq(<<>>, from, Len(<<>>)) = <<>>
      BY <1>4, <1>7, <2>1
    <3>2. QED
      BY <1>9, <3>1
  <2>3. st.discarding = long /\ st.out = LinesOf(<<>>)
    BY <1>2, <1>9, <2>1
  <2> HIDE DEF long, from
  <2>4. QED
    BY <1>5, <1>6, <2>2, <2>3 DEF HasRead, long, from
<1>11. QED
  BY <1>10 DEF st

(* The kept lines when one more line ends, or none.                        *)
LEMMA LinesGrow ==
  ASSUME NEW bytes \in Seq(Bytes), Ranked(bytes), NEW b \in Bytes
  PROVE  LET n == Len(bytes)
             from == StartOf(bytes, n + 1)
         IN /\ Ranked(Append(bytes, b))
            /\ LinesOf(bytes) \in Seq(Seq(Bytes))
            /\ LinesOf(Append(bytes, b)) =
                 IF b = Newline /\ n + 1 - from \in 1..MaxLine
                 THEN Append(LinesOf(bytes), SubSeq(bytes, from, n)) ELSE LinesOf(bytes)
<1> DEFINE ext == Append(bytes, b)
           n == Len(bytes)
           from == StartOf(bytes, n + 1)
           K == KeptOf(bytes)
           c == Cardinality(K)
<1>0. n \in Nat /\ n + 1 \in 1..(n + 1)
  OBVIOUS
<1>1. /\ EndsOf(ext) = IF b = Newline THEN EndsOf(bytes) \cup {n + 1} ELSE EndsOf(bytes)
      /\ \A i \in 1..(n + 1) : StartOf(ext, i) = StartOf(bytes, i) /\ LineAt(ext, i) = LineAt(bytes, i)
  BY OneMoreByte
<1>2. K \in SUBSET Nat /\ IsFiniteSet(K) /\ \A i \in K : i \in 1..n
  <2>1. K \subseteq 1..n
    BY DEF KeptOf, EndsOf
  <2>2. IsFiniteSet(1..n)
    BY <1>0, FS_Interval
  <2>3. QED
    BY <1>0, <2>1, <2>2, FS_Subset
<1>3. KeptOf(ext) = IF b = Newline /\ n + 1 - from \in 1..MaxLine THEN K \cup {n + 1} ELSE K
  <2>1. \A i \in EndsOf(bytes) : i \in 1..(n + 1) /\ i # n + 1
    BY <1>0 DEF EndsOf
  <2> HIDE DEF ext
  <2>2. \A i \in EndsOf(bytes) : i - StartOf(ext, i) = i - StartOf(bytes, i)
    BY <1>1, <2>1
  <2>3. StartOf(ext, n + 1) = from
    BY <1>0, <1>1
  <2>4. CASE b = Newline
    <3>1. EndsOf(ext) = EndsOf(bytes) \cup {n + 1}
      BY <1>1, <2>4
    <3>2. \A i \in EndsOf(bytes) : i \in KeptOf(ext) <=> i \in K
      BY <2>2, <3>1 DEF KeptOf
    <3>3. n + 1 \in KeptOf(ext) <=> n + 1 - from \in 1..MaxLine
      <4> DEFINE e == n + 1
      <4>1. e \in EndsOf(ext) /\ StartOf(ext, e) = from
        BY <2>3, <3>1
      <4>2. from \in Int
        BY <1>0, StartIs
      <4> HIDE DEF e, from
      <4>3. e \in KeptOf(ext) <=> e - from \in 1..MaxLine
        BY <4>1 DEF KeptOf
      <4> HIDE DEF n
      <4>4. n \in Nat
        BY <1>0 DEF n
      <4>5. e - from = n + 1 - from
        BY <4>2, <4>4 DEF e
      <4>6. QED
        BY <4>3, <4>5 DEF e
    <3>4. KeptOf(ext) \subseteq EndsOf(bytes) \cup {n + 1} /\ K \subseteq EndsOf(bytes)
      BY <3>1 DEF KeptOf
    <3> HIDE DEF n, K, from
    <3>5. QED
      BY <2>4, <3>2, <3>3, <3>4
  <2>5. CASE b # Newline
    BY <1>1, <2>2, <2>5 DEF KeptOf
  <2>6. QED
    BY <2>4, <2>5
<1>4. \A i \in 1..(n + 1) : LineAt(bytes, i) \in Seq(Bytes)
  <2>1. ASSUME NEW i \in 1..(n + 1) PROVE LineAt(bytes, i) \in Seq(Bytes)
    <3>1. StartOf(bytes, i) \in 1..i
      BY StartIs
    <3>2. \A k \in StartOf(bytes, i)..(i - 1) : bytes[k] \in Bytes
      <4>1. ASSUME NEW k \in StartOf(bytes, i)..(i - 1) PROVE k \in 1..n
        BY <1>0, <3>1
      <4>2. QED
        BY <4>1, ElementOfSeq
    <3>3. StartOf(bytes, i) \in Int /\ i - 1 \in Int
      BY <3>1
    <3>4. QED
      BY <3>2, <3>3, SubSeqProperties DEF LineAt
  <2>2. QED
    BY <2>1
<1>5. LinesOf(bytes) = [m \in 1..c |-> LineAt(bytes, Nth(K, m))] /\ c \in Nat
  BY <1>2, LinesAre, FS_CardinalityType
<1>6. \A m \in 1..c : Nth(K, m) \in 1..n
  BY <1>2 DEF Ranked
<1>7. LinesOf(bytes) \in Seq(Seq(Bytes)) /\ Len(LinesOf(bytes)) = c
  <2>1. \A m \in 1..c : LineAt(bytes, Nth(K, m)) \in Seq(Bytes)
    BY <1>0, <1>4, <1>6
  <2> HIDE DEF K, c
  <2>2. QED
    BY <1>5, <2>1
<1>8. CASE b = Newline /\ n + 1 - from \in 1..MaxLine
  <2>1. KeptOf(ext) = K \cup {n + 1}
    BY <1>3, <1>8
  <2>2. /\ \A m \in 1..c : Nth(K \cup {n + 1}, m) = Nth(K, m)
        /\ Nth(K \cup {n + 1}, c + 1) = n + 1
        /\ Cardinality(K \cup {n + 1}) = c + 1
    <3>1. n + 1 \in Nat /\ \A i \in K : i < n + 1
      BY <1>0, <1>2
    <3> HIDE DEF K, n
    <3>2. QED
      BY <1>2, <3>1, NthSame
  <2>3. Ranked(ext)
    <3>1. ASSUME NEW m \in 1..(c + 1) PROVE Nth(K \cup {n + 1}, m) \in K \cup {n + 1}
      <4>1. m \in 1..c \/ m = c + 1
        BY <1>5
      <4>2. QED
        BY <2>2, <4>1 DEF Ranked
    <3>2. QED
      BY <2>1, <2>2, <3>1 DEF Ranked
  <2>4. LineAt(ext, n + 1) = SubSeq(bytes, from, n)
    <3>1. LineAt(ext, n + 1) = LineAt(bytes, n + 1)
      BY <1>0, <1>1
    <3>2. (n + 1) - 1 = n
      BY <1>0
    <3>3. QED
      BY <3>1, <3>2 DEF LineAt
  <2>5. LinesOf(ext) = [m \in 1..(c + 1) |-> LineAt(ext, Nth(K \cup {n + 1}, m))]
    BY <2>1, <2>2, LinesAre
  <2>6. \A m \in 1..c : LinesOf(ext)[m] = LinesOf(bytes)[m]
    <3>1. ASSUME NEW m \in 1..c PROVE LinesOf(ext)[m] = LinesOf(bytes)[m]
      <4>1. m \in 1..(c + 1)
        BY <1>5
      <4>2. LinesOf(ext)[m] = LineAt(ext, Nth(K, m))
        BY <2>2, <2>5, <4>1
      <4>3. Nth(K, m) \in 1..(n + 1)
        BY <1>0, <1>6
      <4>4. QED
        BY <1>1, <1>5, <4>2, <4>3
    <3>2. QED
      BY <3>1
  <2>7. LinesOf(ext)[c + 1] = SubSeq(bytes, from, n)
    <3>1. c + 1 \in 1..(c + 1)
      BY <1>5
    <3>2. LinesOf(ext)[c + 1] = LineAt(ext, n + 1)
      <4> HIDE DEF ext, K, c, n
      <4>1. QED
        BY <2>2, <2>5, <3>1
    <3>3. QED
      BY <2>4, <3>2
  <2>8. SubSeq(bytes, from, n) \in Seq(Bytes)
    <3>1. SubSeq(bytes, from, n) = LineAt(bytes, n + 1)
      <4>1. (n + 1) - 1 = n
        BY <1>0
      <4>2. QED
        BY <4>1 DEF LineAt
    <3>2. QED
      BY <1>0, <1>4, <3>1
  <2>9. LinesOf(ext) = Append(LinesOf(bytes), SubSeq(bytes, from, n))
    <3> DEFINE L == LinesOf(bytes)
               x == SubSeq(bytes, from, n)
               M == LinesOf(ext)
    <3>1. /\ Append(L, x) \in Seq(Seq(Bytes)) /\ Len(Append(L, x)) = c + 1
          /\ \A m \in 1..c : Append(L, x)[m] = L[m]
          /\ Append(L, x)[c + 1] = x
      <4> HIDE DEF L, x, c
      <4>1. QED
        <5>1. L \in Seq(Seq(Bytes)) /\ Len(L) = c /\ x \in Seq(Bytes)
          BY <1>7, <2>8 DEF L, x, c
        <5>2. QED
          BY <5>1, AppendProperties
    <3>2. DOMAIN M = 1..(c + 1) /\ M = [m \in 1..(c + 1) |-> M[m]]
      BY <2>5
    <3>3. Append(L, x) = [m \in 1..(c + 1) |-> Append(L, x)[m]]
      <4> HIDE DEF L, x, c
      <4>1. QED
        BY <3>1, LenProperties
    <3>4. \A m \in 1..(c + 1) : M[m] = Append(L, x)[m]
      <4>1. ASSUME NEW m \in 1..(c + 1) PROVE m \in 1..c \/ m = c + 1
        BY <1>5
      <4> HIDE DEF M, L, x
      <4>2. QED
        BY <2>6, <2>7, <3>1, <4>1 DEF M, L, x
    <3> HIDE DEF M, L, x
    <3>5. M = Append(L, x)
      BY <3>2, <3>3, <3>4
    <3>6. QED
      BY <3>5 DEF M, L, x
  <2>10. QED
    BY <1>7, <1>8, <2>3, <2>9
<1>9. CASE ~(b = Newline /\ n + 1 - from \in 1..MaxLine)
  <2>1. KeptOf(ext) = K
    BY <1>3, <1>9
  <2>2. Ranked(ext)
    BY <2>1 DEF Ranked
  <2>3. LinesOf(ext) = [m \in 1..c |-> LineAt(ext, Nth(K, m))]
    BY <2>1, LinesAre
  <2>4. \A m \in 1..c : LineAt(ext, Nth(K, m)) = LineAt(bytes, Nth(K, m))
    BY <1>0, <1>1, <1>6
  <2>5. LinesOf(ext) = LinesOf(bytes)
    <3> HIDE DEF ext, K, c
    <3>1. QED
      BY <1>5, <2>3, <2>4
  <2>6. QED
    BY <1>7, <1>9, <2>2, <2>5
<1>10. QED
  BY <1>8, <1>9

(* The reader goes on by one byte.                                         *)
LEMMA ByteConsumed ==
  ASSUME NEW bytes \in Seq(Bytes), NEW st, HasRead(st, bytes), NEW b \in Bytes
  PROVE  HasRead(Consumed(st, b), Append(bytes, b))
<1> DEFINE ext == Append(bytes, b)
           n == Len(bytes)
           from == StartOf(bytes, n + 1)
           rest == SubSeq(bytes, from, n)
           after == Consumed(st, b)
<1>0. n \in Nat /\ MaxLine \in Nat /\ MaxLine > 0 /\ n + 1 \in 1..(n + 1)
  BY TailAssumption
<1>1. from \in 1..(n + 1)
  BY <1>0, StartIs
<1> DEFINE r == n + 1 - from
<1>2. /\ st \in Reader /\ Ranked(bytes) /\ st.out = LinesOf(bytes)
      /\ r > MaxLine => st.discarding = TRUE /\ st.pending = <<>>
      /\ ~(r > MaxLine) => st.discarding = FALSE /\ st.pending = rest
  <2>1. /\ st \in Reader /\ Ranked(bytes) /\ st.out = LinesOf(bytes)
        /\ st.discarding = (r > MaxLine)
        /\ st.pending = IF r > MaxLine THEN <<>> ELSE rest
    BY DEF HasRead
  <2> DEFINE long == r > MaxLine
  <2> HIDE DEF r, rest
  <2>2. long \in BOOLEAN
    OBVIOUS
  <2>3. /\ long => st.discarding = TRUE /\ st.pending = <<>>
        /\ ~long => st.discarding = FALSE /\ st.pending = rest
    <3> HIDE DEF long
    <3>1. st.discarding = long /\ st.pending = IF long THEN <<>> ELSE rest
      BY <2>1 DEF long
    <3>2. QED
      BY <2>2, <3>1
  <2>4. QED
    BY <2>1, <2>3
<1>r. r \in Nat
  BY <1>0, <1>1
<1>3. ext \in Seq(Bytes) /\ Len(ext) = n + 1
  BY AppendProperties
<1>4. StartOf(ext, n + 2) = IF b = Newline THEN n + 2 ELSE from
  BY OneMoreByte
<1>5. /\ Ranked(ext) /\ LinesOf(bytes) \in Seq(Seq(Bytes))
      /\ LinesOf(ext) = IF b = Newline /\ r \in 1..MaxLine
                        THEN Append(LinesOf(bytes), rest) ELSE LinesOf(bytes)
  BY <1>2, LinesGrow
<1>6. rest \in Seq(Bytes) /\ Len(rest) = r
  <2>1. \A k \in from..n : bytes[k] \in Bytes
    <3>1. ASSUME NEW k \in from..n PROVE k \in 1..n
      BY <1>0, <1>1
    <3>2. QED
      BY <3>1, ElementOfSeq
  <2>2. from \in Int /\ n \in Int
    BY <1>0, <1>1
  <2> HIDE DEF from, n
  <2>3. rest \in Seq(Bytes) /\ Len(rest) = IF from <= n THEN n - from + 1 ELSE 0
    BY <2>1, <2>2, SubSeqProperties
  <2>4. QED
    BY <1>0, <1>1, <2>2, <2>3
<1>7. st.pending \in Seq(Bytes) /\ st.out \in Seq(Seq(Bytes)) /\ st.discarding \in BOOLEAN
  BY <1>2 DEF Reader
<1>8. CASE b = Newline
  <2>1. after = [pending |-> <<>>, discarding |-> FALSE,
                out |-> IF ~st.discarding /\ st.pending # <<>> THEN Append(st.out, st.pending) ELSE st.out]
    BY <1>8 DEF Consumed
  <2>2. after.out = LinesOf(ext)
    <3> HIDE DEF ext, r, rest
    <3>0. after.out = IF ~st.discarding /\ st.pending # <<>> THEN Append(st.out, st.pending) ELSE st.out
      BY <2>1
    <3> HIDE DEF after
    <3>1. CASE r \in 1..MaxLine
      <4>1. st.discarding = FALSE /\ st.pending = rest /\ rest # <<>>
        <5>1. ~(r > MaxLine) /\ Len(rest) # 0
          BY <1>0, <1>r, <1>6, <3>1
        <5>2. rest # <<>>
          BY <5>1
        <5>3. QED
          BY <1>2, <5>1, <5>2
      <4>2. QED
        BY <1>2, <1>5, <1>8, <3>0, <3>1, <4>1
    <3>2. CASE r > MaxLine
      <4>1. st.discarding = TRUE /\ ~(r \in 1..MaxLine)
        BY <1>0, <1>r, <1>2, <3>2
      <4>2. QED
        BY <1>2, <1>5, <3>0, <4>1
    <3>3. CASE r = 0
      <4>1. st.pending = <<>> /\ ~(r \in 1..MaxLine)
        <5>1. rest = <<>>
          BY <1>6, <3>3
        <5>2. QED
          BY <1>2, <3>3, <5>1
      <4>2. QED
        BY <1>2, <1>5, <3>0, <4>1
    <3>4. r \in 1..MaxLine \/ r > MaxLine \/ r = 0
      BY <1>0, <1>r
    <3>5. QED
      BY <3>1, <3>2, <3>3, <3>4
  <2>3. after \in Reader
    BY <1>7, <2>1, AppendProperties DEF Reader
  <2>4. StartOf(ext, Len(ext) + 1) = Len(ext) + 1
    BY <1>0, <1>3, <1>4, <1>8
  <2>5. ~(Len(ext) + 1 - (Len(ext) + 1) > MaxLine)
    BY <1>0, <1>3
  <2>6. SubSeq(ext, Len(ext) + 1, Len(ext)) = <<>>
    BY <1>0, <1>3, SubSeqEmpty
  <2> HIDE DEF ext, after
  <2>7. after.pending = <<>> /\ after.discarding = FALSE
    BY <2>1
  <2>8. HasRead(after, ext)
    <3> DEFINE start == StartOf(ext, Len(ext) + 1)
               long == Len(ext) + 1 - start > MaxLine
    <3>1. long = FALSE
      BY <2>4, <2>5
    <3>2. after.pending = IF long THEN <<>> ELSE SubSeq(ext, start, Len(ext))
      BY <2>4, <2>6, <2>7
    <3>3. after.discarding = long
      BY <2>7, <3>1
    <3> HIDE DEF start, long
    <3>4. QED
      BY <1>5, <2>2, <2>3, <3>2, <3>3 DEF HasRead, start, long
  <2>9. QED
    BY <2>8 DEF ext, after
<1>9. CASE b # Newline
  <2>1. LinesOf(ext) = LinesOf(bytes)
    BY <1>5, <1>9
  <2>2. StartOf(ext, Len(ext) + 1) = from
    BY <1>0, <1>3, <1>4, <1>9
  <2> DEFINE more == r + 1 > MaxLine
  <2>3. (Len(ext) + 1 - from > MaxLine) = more
    BY <1>0, <1>1, <1>3
  <2>m. MaxLine \in Nat /\ r \in Nat
    BY <1>0, <1>r
  <2>4. SubSeq(ext, from, Len(ext)) = Append(rest, b)
    <3>1. ext = bytes \o <<b>>
      BY AppendIsConcat
    <3>2. from \in 1..Len(ext) /\ Len(ext) \in from..Len(ext) /\ ext[Len(ext)] = b
      BY <1>0, <1>1, <1>3, AppendProperties
    <3>3. SubSeq(ext, from, Len(ext)) = SubSeq(ext, from, Len(ext) - 1) \o <<ext[Len(ext)]>>
      <4> HIDE DEF ext, from
      <4>1. QED
        BY <1>3, <3>2, SubSeqRecursiveSecond
    <3>4. SubSeq(ext, from, Len(ext) - 1) = rest
      <4>1. LineAt(ext, n + 1) = LineAt(bytes, n + 1) /\ StartOf(ext, n + 1) = from
        BY <1>0, OneMoreByte
      <4>2. (n + 1) - 1 = n /\ Len(ext) - 1 = n
        BY <1>0, <1>3
      <4> HIDE DEF ext, from
      <4>3. QED
        BY <4>1, <4>2 DEF LineAt, from
    <3>5. Append(rest, b) = rest \o <<b>>
      <4> HIDE DEF rest
      <4>1. QED
        BY <1>6, AppendIsConcat
    <3>6. QED
      BY <3>2, <3>3, <3>4, <3>5
  <2>5. /\ after \in Reader /\ after.out = st.out
        /\ after.discarding = more
        /\ after.pending = IF more THEN <<>> ELSE Append(rest, b)
    <3> HIDE DEF r, rest, ext
    <3>1. CASE r > MaxLine
      <4>1. after = st /\ more = TRUE
        <5>1. st.discarding = TRUE
          BY <1>2, <3>1
        <5>2. more
          BY <2>m, <3>1
        <5>3. QED
          BY <1>9, <5>1, <5>2 DEF Consumed
      <4>2. QED
        BY <1>2, <3>1, <4>1
    <3>2. CASE r = MaxLine
      <4>1. st.discarding = FALSE /\ st.pending = rest /\ ~(Len(st.pending) < MaxLine)
        <5>1. ~(r > MaxLine)
          BY <2>m, <3>2
        <5>2. QED
          BY <2>m, <1>2, <1>6, <3>2, <5>1
      <4>2. after = [st EXCEPT !.pending = <<>>, !.discarding = TRUE]
        BY <1>9, <4>1 DEF Consumed
      <4>3. more
        BY <2>m, <3>2
      <4>4. after \in Reader /\ after.out = st.out /\ after.discarding = TRUE /\ after.pending = <<>>
        <5>1. <<>> \in Seq(Bytes)
          OBVIOUS
        <5>2. QED
          BY <1>2, <4>2, <5>1 DEF Reader
      <4>5. QED
        BY <4>3, <4>4
    <3>3. CASE r < MaxLine
      <4>1. st.discarding = FALSE /\ st.pending = rest /\ Len(st.pending) < MaxLine
        <5>1. ~(r > MaxLine)
          BY <2>m, <3>3
        <5>2. QED
          BY <2>m, <1>2, <1>6, <3>3, <5>1
      <4>2. after = [st EXCEPT !.pending = Append(rest, b)]
        BY <1>9, <4>1 DEF Consumed
      <4>3. ~more
        BY <2>m, <3>3
      <4>4. Append(rest, b) \in Seq(Bytes)
        BY <1>6, AppendProperties
      <4>5. after \in Reader /\ after.out = st.out /\ after.discarding = FALSE /\ after.pending = Append(rest, b)
        BY <1>2, <4>1, <4>2, <4>4 DEF Reader
      <4>6. more = FALSE
        BY <4>3
      <4> HIDE DEF more
      <4>7. QED
        BY <4>5, <4>6
    <3>4. r > MaxLine \/ r = MaxLine \/ r < MaxLine
      BY <2>m
    <3>5. QED
      BY <3>1, <3>2, <3>3, <3>4
  <2> HIDE DEF ext, after, rest, more, from
  <2>6. HasRead(after, ext)
    BY <1>2, <1>5, <2>1, <2>2, <2>3, <2>4, <2>5 DEF HasRead
  <2>7. QED
    BY <2>6 DEF ext, after
<1>10. QED
  BY <1>8, <1>9

-----------------------------------------------------------------------------
(* One step of the fold over the bytes of a chunk.                         *)
Folds(st, chunk, f, S) ==
  \A s \in SUBSET S :
    f[s] = IF s = {} THEN st ELSE Consumed(f[s \ {Max(s)}], chunk[Max(s)])

LEMMA FoldExists ==
  ASSUME NEW st, NEW chunk, NEW n \in Nat
  PROVE  \E f : f = [s \in SUBSET (1..n) |-> f[s]] /\ Folds(st, chunk, f, 1..n)
<1> DEFINE Good(f, k) == f = [s \in SUBSET (1..k) |-> f[s]] /\ Folds(st, chunk, f, 1..k)
           bad == {k \in Nat : ~\E f : Good(f, k)}
<1>1. ASSUME bad # {} PROVE FALSE
  <2>1. PICK m \in bad : \A k \in bad : m <= k
    BY <1>1, LeastOf
  <2>2. m \in Nat /\ ~\E f : Good(f, m)
    BY <2>1
  <2>3. CASE m = 0
    <3> DEFINE f == [s \in SUBSET (1..0) |-> st]
    <3>1. \A s \in SUBSET (1..0) : s = {}
      OBVIOUS
    <3>2. Folds(st, chunk, f, 1..0)
      BY <3>1 DEF Folds
    <3>3. f = [s \in SUBSET (1..0) |-> f[s]]
      OBVIOUS
    <3> HIDE DEF f
    <3>4. Good(f, 0)
      BY <3>2, <3>3
    <3>5. QED
      BY <2>2, <2>3, <3>4
  <2>4. CASE m # 0
    <3>1. m - 1 \in Nat /\ m - 1 \notin bad
      <4> HIDE DEF bad
      <4>1. QED
        BY <2>1, <2>2, <2>4
    <3>2. PICK g : Good(g, m - 1)
      BY <3>1
    <3> DEFINE f == [s \in SUBSET (1..m) |->
                       IF m \in s THEN Consumed(g[s \ {m}], chunk[m]) ELSE g[s]]
    <3>3. ASSUME NEW s \in SUBSET (1..m) PROVE m \notin s => s \in SUBSET (1..(m - 1))
      BY <2>2
    <3>4. ASSUME NEW s \in SUBSET (1..m), m \in s PROVE Max(s) = m /\ s \ {m} \in SUBSET (1..(m - 1)) /\ m \notin s \ {m}
      <4>1. s # {} /\ \A x \in s : x \in Nat /\ x <= m
        BY <2>2, <3>4
      <4>2. Max(s) \in s /\ \A x \in s : x <= Max(s)
        BY <2>2, <4>1, GreatestOf
      <4>3. Max(s) = m
        BY <2>2, <3>4, <4>1, <4>2
      <4>4. QED
        BY <2>2, <4>3
    <3>5. ASSUME NEW s \in SUBSET (1..m), s # {} PROVE Max(s) \in s
      <4>1. \A x \in s : x \in Nat /\ x <= m
        BY <2>2
      <4>2. QED
        BY <2>2, <3>5, <4>1, GreatestOf
    <3>6. ASSUME NEW s \in SUBSET (1..m)
          PROVE  f[s] = IF s = {} THEN st ELSE Consumed(f[s \ {Max(s)}], chunk[Max(s)])
      <4>1. CASE m \in s
        <5>1. f[s] = Consumed(g[s \ {m}], chunk[m])
          BY <4>1
        <5>2. s \ {m} \in SUBSET (1..m) /\ m \notin s \ {m}
          OBVIOUS
        <5>3. f[s \ {m}] = g[s \ {m}]
          BY <5>2
        <5> HIDE DEF f
        <5>4. Max(s) = m /\ s # {}
          BY <3>4, <4>1
        <5>5. QED
          BY <5>1, <5>3, <5>4
      <4>2. CASE m \notin s
        <5>1. s \in SUBSET (1..(m - 1))
          BY <3>3, <4>2
        <5>2. f[s] = g[s]
          BY <4>2
        <5>3. g[s] = IF s = {} THEN st ELSE Consumed(g[s \ {Max(s)}], chunk[Max(s)])
          BY <3>2, <5>1 DEF Folds
        <5>4. s \ {Max(s)} \in SUBSET (1..m) /\ m \notin s \ {Max(s)}
          BY <4>2
        <5>5. f[s \ {Max(s)}] = g[s \ {Max(s)}]
          BY <5>4
        <5> HIDE DEF f
        <5>6. QED
          BY <5>2, <5>3, <5>5
      <4>3. QED
        BY <4>1, <4>2
    <3>7. f = [s \in SUBSET (1..m) |-> f[s]]
      OBVIOUS
    <3> HIDE DEF f
    <3>8. Good(f, m)
      BY <3>6, <3>7 DEF Folds
    <3>9. QED
      BY <2>2, <3>8
  <2>5. QED
    BY <2>3, <2>4
<1>2. n \notin bad
  BY <1>1
<1>3. QED
  BY <1>2

(* A chunk is consumed byte by byte.                                       *)
LEMMA FoldIs ==
  ASSUME NEW st, NEW chunk \in Seq(Bytes)
  PROVE  \E f : /\ Folds(st, chunk, f, 1..Len(chunk))
                /\ FoldLeft(Consumed, st, chunk) = f[1..Len(chunk)]
<1> DEFINE n == Len(chunk)
           Is(f) == f = [s \in SUBSET (1..n) |->
                           IF s = {} THEN st
                           ELSE LET x == Max(s) IN Consumed(f[s \ {x}], chunk[x])]
<1>1. n \in Nat /\ DOMAIN chunk = 1..n
  OBVIOUS
<1>2. PICK g : g = [s \in SUBSET (1..n) |-> g[s]] /\ Folds(st, chunk, g, 1..n)
  <2> HIDE DEF n
  <2>1. QED
    BY <1>1, FoldExists
<1>3. Is(g)
  BY <1>2 DEF Folds
<1> DEFINE iter == CHOOSE f : Is(f)
<1>4. Is(iter)
  <2> HIDE DEF Is
  <2>1. QED
    BY <1>3
<1>5. FoldLeft(Consumed, st, chunk) = iter[1..n]
  BY <1>1 DEF FoldLeft, MapThenFoldSet
<1>6. Folds(st, chunk, iter, 1..n)
  <2> HIDE DEF iter
  <2>1. QED
    BY <1>4 DEF Folds
<1> HIDE DEF iter
<1>7. QED
  BY <1>5, <1>6

(* The reader goes on by a chunk.                                          *)
LEMMA ChunkConsumed ==
  ASSUME NEW bytes \in Seq(Bytes), NEW st, HasRead(st, bytes), NEW chunk \in Seq(Bytes)
  PROVE  HasRead(FoldLeft(Consumed, st, chunk), bytes \o chunk)
<1> DEFINE n == Len(chunk)
<1>0. n \in Nat
  OBVIOUS
<1>1. PICK f : Folds(st, chunk, f, 1..n) /\ FoldLeft(Consumed, st, chunk) = f[1..n]
  BY FoldIs
<1> DEFINE Good(k) == HasRead(f[1..k], bytes \o SubSeq(chunk, 1, k))
           bad == {k \in 0..n : ~Good(k)}
<1>2. ASSUME bad # {} PROVE FALSE
  <2>1. bad \in SUBSET Nat
    BY <1>0
  <2>2. PICK m \in bad : \A k \in bad : m <= k
    <3> HIDE DEF bad
    <3>1. QED
      BY <1>2, <2>1, LeastOf
  <2>3. m \in 0..n /\ ~Good(m)
    BY <2>2
  <2>4. CASE m = 0
    <3>1. f[1..0] = st
      <4>1. 1..0 = {} /\ {} \in SUBSET (1..n)
        OBVIOUS
      <4>2. QED
        BY <1>1, <4>1 DEF Folds
    <3>2. SubSeq(chunk, 1, 0) = <<>>
      BY SubSeqEmpty
    <3>3. bytes \o <<>> = bytes
      BY ConcatEmptySeq
    <3>4. Good(0)
      BY <3>1, <3>2, <3>3
    <3>5. QED
      BY <2>3, <2>4, <3>4
  <2>5. CASE m # 0
    <3>0. m \in 1..n /\ m \in Nat /\ m - 1 \in 0..n
      BY <1>0, <2>3, <2>5
    <3>1. Good(m - 1)
      BY <1>0, <2>2, <3>0
    <3>2. f[1..m] = Consumed(f[1..(m - 1)], chunk[m])
      <4>1. 1..m \in SUBSET (1..n) /\ 1..m # {} /\ \A x \in 1..m : x \in Nat /\ x <= m
        <5>1. m \in 1..m
          BY <3>0
        <5>2. ASSUME NEW x \in 1..m PROVE x \in 1..n /\ x \in Nat /\ x <= m
          BY <1>0, <3>0
        <5>3. QED
          BY <5>1, <5>2
      <4>2. Max(1..m) \in 1..m /\ \A x \in 1..m : x <= Max(1..m)
        BY <3>0, <4>1, GreatestOf
      <4>3. Max(1..m) = m
        BY <3>0, <4>2
      <4>4. (1..m) \ {m} = 1..(m - 1)
        BY <3>0
      <4>5. QED
        BY <1>1, <4>1, <4>3, <4>4 DEF Folds
    <3>3. SubSeq(chunk, 1, m - 1) \in Seq(Bytes) /\ chunk[m] \in Bytes
      <4>1. \A k \in 1..(m - 1) : chunk[k] \in Bytes
        BY <1>0, <3>0, ElementOfSeq
      <4>2. QED
        BY <3>0, <4>1, ElementOfSeq, SubSeqProperties
    <3> DEFINE front == SubSeq(chunk, 1, m - 1)
    <3>4. SubSeq(chunk, 1, m) = front \o <<chunk[m]>>
      <4>1. 1 \in 1..Len(chunk) /\ m \in 1..Len(chunk)
        BY <1>0, <3>0
      <4>2. QED
        BY <4>1, SubSeqRecursiveSecond
    <3>5. bytes \o SubSeq(chunk, 1, m) = Append(bytes \o front, chunk[m])
      <4> HIDE DEF front
      <4>1. front \in Seq(Bytes) /\ <<chunk[m]>> \in Seq(Bytes)
        BY <3>3 DEF front
      <4>2. (bytes \o front) \o <<chunk[m]>> = bytes \o (front \o <<chunk[m]>>)
        <5> DEFINE one == <<chunk[m]>>
        <5>1. front \in Seq(Bytes) /\ one \in Seq(Bytes) /\ bytes \in Seq(Bytes)
          BY <4>1
        <5> HIDE DEF one
        <5>2. (bytes \o front) \o one = bytes \o (front \o one)
          BY <5>1, ConcatAssociative, SMTT(30)
        <5>3. QED
          BY <5>2 DEF one
      <4>3. bytes \o front \in Seq(Bytes)
        BY <4>1, ConcatProperties
      <4>4. Append(bytes \o front, chunk[m]) = (bytes \o front) \o <<chunk[m]>>
        BY <3>3, <4>3, AppendIsConcat
      <4>5. QED
        BY <3>4, <4>2, <4>4
    <3>6. bytes \o front \in Seq(Bytes)
      BY <3>3, ConcatProperties
    <3>7. HasRead(Consumed(f[1..(m - 1)], chunk[m]), Append(bytes \o front, chunk[m]))
      <4> HIDE DEF front
      <4>1. HasRead(f[1..(m - 1)], bytes \o front)
        BY <3>1 DEF front
      <4>2. QED
        BY <3>3, <3>6, <4>1, ByteConsumed
    <3>8. Good(m)
      BY <3>2, <3>5, <3>7
    <3>9. QED
      BY <2>3, <3>8
  <2>6. QED
    BY <2>4, <2>5
<1>3. Good(n)
  BY <1>0, <1>2
<1>4. SubSeq(chunk, 1, n) = chunk
  BY SubSeqFull
<1>5. QED
  BY <1>1, <1>3, <1>4

-----------------------------------------------------------------------------
LEMMA TailIs ==
  ASSUME NEW bytes \in Seq(Bytes), NEW o \in 0..Len(bytes)
  PROVE  LET from == IF o > TailSize THEN o - TailSize ELSE 0
         IN /\ from \in Nat /\ from <= o /\ (o > 0 => from < o)
            /\ TailAt(bytes, o) \in Seq(Bytes)
            /\ Len(TailAt(bytes, o)) = o - from
            /\ \A k \in 1..(o - from) : TailAt(bytes, o)[k] = bytes[from + k]
<1> DEFINE from == IF o > TailSize THEN o - TailSize ELSE 0
           t == SubSeq(bytes, from + 1, o)
<1>1. Len(bytes) \in Nat /\ o \in Nat /\ o <= Len(bytes) /\ TailSize \in Nat /\ TailSize > 0
  BY TailAssumption
<1>2. from \in Nat /\ from <= o /\ (o > 0 => from < o)
  BY <1>1
<1>3. \A i \in (from + 1)..o : bytes[i] \in Bytes
  <2>1. \A i \in (from + 1)..o : i \in 1..Len(bytes)
    BY <1>1, <1>2
  <2>2. QED
    BY <2>1, ElementOfSeq
<1>4. TailAt(bytes, o) = t
  BY DEF TailAt
<1>5. /\ t \in Seq(Bytes)
      /\ Len(t) = IF from + 1 <= o THEN o - (from + 1) + 1 ELSE 0
      /\ \A k \in 1..(o - (from + 1) + 1) : t[k] = bytes[(from + 1) + k - 1]
  <2>1. from + 1 \in Int /\ o \in Int
    BY <1>1, <1>2
  <2> HIDE DEF from
  <2>2. QED
    BY <1>3, <2>1, SubSeqProperties
<1> HIDE DEF from, t
<1>6. Len(t) = o - from
  BY <1>1, <1>2, <1>5
<1>7. ASSUME NEW k \in 1..(o - from) PROVE t[k] = bytes[from + k]
  <2>1. k \in 1..(o - (from + 1) + 1) /\ (from + 1) + k - 1 = from + k
    BY <1>1, <1>2
  <2>2. QED
    BY <1>5, <2>1
<1>8. QED
  BY <1>2, <1>4, <1>5, <1>6, <1>7 DEF from

(* What was consumed agrees with the file as far as the tail tells.        *)
Agrees(read, bytes, o) == o <= Len(bytes) /\ TailAt(read, o) = TailAt(bytes, o)

LEMMA AgreesIs ==
  ASSUME NEW read \in Seq(Bytes), NEW bytes \in Seq(Bytes), NEW o \in 0..Len(read), o <= Len(bytes)
  PROVE  Agrees(read, bytes, o) <=> \A i \in 1..o : i + TailSize > o => read[i] = bytes[i]
<1> DEFINE from == IF o > TailSize THEN o - TailSize ELSE 0
           s == TailAt(read, o)
           t == TailAt(bytes, o)
<1>0. o \in Nat /\ o \in 0..Len(bytes) /\ TailSize \in Nat
  BY TailAssumption
<1>1. /\ from \in Nat /\ from <= o
      /\ s \in Seq(Bytes) /\ Len(s) = o - from /\ \A k \in 1..(o - from) : s[k] = read[from + k]
      /\ t \in Seq(Bytes) /\ Len(t) = o - from /\ \A k \in 1..(o - from) : t[k] = bytes[from + k]
  BY <1>0, TailIs
<1>f. \A i \in 1..o : i + TailSize > o <=> i > from
  BY <1>0
<1> HIDE DEF from
<1>2. ASSUME s = t, NEW i \in 1..o, i + TailSize > o PROVE read[i] = bytes[i]
  <2> DEFINE k == i - from
  <2> HIDE DEF s, t
  <2>0. i > from
    BY <1>2, <1>f
  <2>1. k \in 1..(o - from) /\ i = from + k
    BY <1>0, <1>1, <2>0
  <2> HIDE DEF k
  <2>2. s[k] = read[i] /\ t[k] = bytes[i]
    BY <1>1, <2>1
  <2>3. QED
    BY <1>2, <2>2
<1>3. ASSUME \A i \in 1..o : i + TailSize > o => read[i] = bytes[i] PROVE s = t
  <2>1. ASSUME NEW k \in 1..(o - from) PROVE s[k] = t[k]
    <3>1. from + k \in 1..o /\ from + k > from
      BY <1>0, <1>1
    <3>2. read[from + k] = bytes[from + k]
      BY <1>3, <1>f, <3>1
    <3> HIDE DEF s, t
    <3>3. QED
      BY <1>1, <3>2
  <2> HIDE DEF s, t
  <2>2. QED
    BY <1>1, <2>1, SeqEqual
<1>4. QED
  BY <1>2, <1>3 DEF Agrees

(* A chunk that was read keeps the agreement.                              *)
LEMMA AgreesOn ==
  ASSUME NEW read \in Seq(Bytes), NEW bytes \in Seq(Bytes), Agrees(read, bytes, Len(read)),
         NEW n \in Nat, Len(read) + n <= Len(bytes)
  PROVE  LET chunk == SubSeq(bytes, Len(read) + 1, Len(read) + n)
         IN /\ chunk \in Seq(Bytes) /\ Len(chunk) = n
            /\ Agrees(read \o chunk, bytes, Len(read) + n)
<1> DEFINE o == Len(read)
           chunk == SubSeq(bytes, o + 1, o + n)
           more == read \o chunk
<1>0. o \in Nat /\ Len(bytes) \in Nat /\ TailSize \in Nat
  BY TailAssumption
<1>1. chunk \in Seq(Bytes) /\ Len(chunk) = n /\ \A k \in 1..n : chunk[k] = bytes[o + k]
  <2>1. \A i \in (o + 1)..(o + n) : bytes[i] \in Bytes
    <3>1. \A i \in (o + 1)..(o + n) : i \in 1..Len(bytes)
      BY <1>0
    <3>2. QED
      BY <3>1, ElementOfSeq
  <2> HIDE DEF o
  <2>2. /\ chunk \in Seq(Bytes)
        /\ Len(chunk) = IF o + 1 <= o + n THEN (o + n) - (o + 1) + 1 ELSE 0
        /\ \A k \in 1..((o + n) - (o + 1) + 1) : chunk[k] = bytes[(o + 1) + k - 1]
    BY <1>0, <2>1, SubSeqProperties
  <2> HIDE DEF chunk
  <2>3. Len(chunk) = n
    BY <1>0, <2>2
  <2>4. ASSUME NEW k \in 1..n PROVE chunk[k] = bytes[o + k]
    <3>1. k \in 1..((o + n) - (o + 1) + 1) /\ (o + 1) + k - 1 = o + k
      BY <1>0
    <3>2. QED
      BY <2>2, <3>1
  <2>5. QED
    BY <2>2, <2>3, <2>4
<1> HIDE DEF chunk
<1>2. /\ more \in Seq(Bytes) /\ Len(more) = o + n
      /\ \A i \in 1..(o + n) : more[i] = IF i <= o THEN read[i] ELSE chunk[i - o]
  BY <1>1, ConcatProperties
<1>3. \A i \in 1..o : i + TailSize > o => read[i] = bytes[i]
  <2>1. o \in 0..Len(read) /\ o <= Len(bytes)
    BY <1>0
  <2>2. QED
    BY <2>1, AgreesIs
<1>4. ASSUME NEW i \in 1..(o + n), i + TailSize > o + n PROVE more[i] = bytes[i]
  <2>1. CASE i <= o
    <3>1. i \in 1..o /\ i + TailSize > o
      BY <1>0, <1>4, <2>1
    <3>2. QED
      BY <1>2, <1>3, <2>1, <3>1
  <2>2. CASE ~(i <= o)
    <3>1. i - o \in 1..n /\ o + (i - o) = i
      BY <1>0, <2>2
    <3> HIDE DEF more, o
    <3>2. more[i] = chunk[i - o]
      BY <1>2, <2>2
    <3>3. chunk[i - o] = bytes[o + (i - o)]
      BY <1>1, <3>1
    <3>4. QED
      BY <3>1, <3>2, <3>3
  <2>3. QED
    BY <2>1, <2>2
<1>5. Agrees(more, bytes, o + n)
  <2> HIDE DEF more
  <2>1. o + n \in 0..Len(more) /\ o + n <= Len(bytes)
    BY <1>0, <1>2
  <2> HIDE DEF o
  <2>2. QED
    BY <1>2, <1>4, <2>1, AgreesIs
<1>6. QED
  BY <1>1, <1>5 DEF chunk

(* A byte that is appended to the file does not touch it.                  *)
LEMMA AgreesStill ==
  ASSUME NEW read \in Seq(Bytes), NEW bytes \in Seq(Bytes), Agrees(read, bytes, Len(read)), NEW b \in Bytes
  PROVE  Agrees(read, Append(bytes, b), Len(read))
<1> DEFINE o == Len(read)
           ext == Append(bytes, b)
<1>0. o \in Nat /\ Len(bytes) \in Nat /\ o \in 0..Len(read) /\ o <= Len(bytes)
  BY DEF Agrees
<1>1. ext \in Seq(Bytes) /\ Len(ext) = Len(bytes) + 1 /\ \A i \in 1..Len(bytes) : ext[i] = bytes[i]
  BY AppendProperties
<1>2. \A i \in 1..o : i + TailSize > o => read[i] = bytes[i]
  BY <1>0, AgreesIs
<1>3. \A i \in 1..o : i + TailSize > o => read[i] = ext[i]
  <2>1. \A i \in 1..o : i \in 1..Len(bytes)
    BY <1>0
  <2> HIDE DEF ext
  <2>2. QED
    BY <1>1, <1>2, <2>1
<1>4. o <= Len(ext)
  BY <1>0, <1>1
<1> HIDE DEF ext
<1>5. QED
  BY <1>0, <1>1, <1>3, <1>4, AgreesIs DEF ext

-----------------------------------------------------------------------------
FileCursor == [offset : Nat, pending : Seq(Bytes), discarding : BOOLEAN,
               identity : Nat \cup {NoFile}, modified : Nat \cup {NoFile}, checkpoint : Seq(Bytes)]

TailTyped ==
  /\ file \in [inode : Nat, mtime : Nat, bytes : Seq(Bytes)]
  /\ held \in [inode : Nat, bytes : Seq(Bytes)] /\ held.inode <= file.inode
  /\ cursor \in FileCursor /\ consumed \in Seq(Bytes) /\ Len(consumed) = cursor.offset
  /\ trust \in {"sound", "changed", "lost"}

(* The lines that were parsed are those of what was consumed.              *)
ReadSoFar ==
  HasRead([pending |-> cursor.pending, out |-> lines, discarding |-> cursor.discarding], consumed)

(* While nothing was written anew, what was consumed is the file's: between *)
(* polls, unless the file is known to be another one; and of a file whose  *)
(* metadata were read.  A poll that reads on has compared.                 *)
Waiting ==
  pc = "idle" /\ trust = "sound" =>
    Agrees(consumed, file.bytes, cursor.offset) \/ (cursor.identity \in Nat /\ cursor.identity < file.inode)
Examined ==
  pc = "open" => /\ cursor.identity \in Nat /\ cursor.identity <= file.inode
                 /\ cursor.identity = file.inode =>
                      /\ cursor.offset <= Len(file.bytes)
                      /\ trust = "sound" => Agrees(consumed, file.bytes, cursor.offset)
Reading ==
  pc = "read" => /\ trust = "sound" => held.inode = file.inode
                 /\ IF cursor.identity \in {held.inode, NoFile}
                    THEN trust # "lost" => Agrees(consumed, Readable, cursor.offset)
                    ELSE cursor.identity \in Nat /\ cursor.identity < held.inode

TailInv == TailTyped /\ ReadSoFar /\ Waiting /\ Examined /\ Reading

(* Of nothing, all is there.                                               *)
LEMMA AgreesNothing ==
  ASSUME NEW read \in Seq(Bytes), NEW bytes \in Seq(Bytes), NEW o, o = 0
  PROVE  Agrees(read, bytes, o)
<1>1. Len(bytes) \in Nat /\ Len(read) \in Nat /\ 0 \in 0..Len(read) /\ 0 <= Len(bytes)
  OBVIOUS
<1>2. \A i \in 1..0 : FALSE
  OBVIOUS
<1>3. QED
  BY <1>1, <1>2, AgreesIs

(* What the invariant says of the readable file.                           *)
LEMMA ReadableTyped == TailTyped => Readable \in Seq(Bytes)
BY DEF TailTyped, Readable

LEMMA TailInitially == TailInit => TailInv
<1> SUFFICES ASSUME TailInit PROVE TailInv
  OBVIOUS
<1>1. PICK n \in 0..MaxBytes : \E bytes \in [1..n -> Bytes] : file = [inode |-> 1, mtime |-> 1, bytes |-> bytes]
  BY DEF TailInit
<1>2. PICK bytes \in [1..n -> Bytes] : file = [inode |-> 1, mtime |-> 1, bytes |-> bytes]
  BY <1>1
<1>3. n \in Nat /\ bytes \in Seq(Bytes)
  <2>1. n \in Nat
    BY <1>1, TailAssumption
  <2>2. QED
    BY <2>1
<1>4. /\ held = [inode |-> 0, bytes |-> <<>>] /\ pc = "idle"
      /\ cursor = NewCursor /\ consumed = <<>> /\ lines = <<>> /\ trust = "sound"
  BY DEF TailInit, Closed
<1>5. <<>> \in Seq(Bytes) /\ Len(<<>>) = 0
  OBVIOUS
<1>6. cursor \in FileCursor /\ cursor.offset = 0 /\ cursor.pending = <<>> /\ cursor.discarding = FALSE
  BY <1>4, <1>5 DEF NewCursor, FileCursor
<1>7. TailTyped
  BY <1>2, <1>3, <1>4, <1>5, <1>6 DEF TailTyped
<1>8. ReadSoFar
  BY <1>4, <1>6, NothingRead DEF ReadSoFar
<1>9. Waiting /\ Examined /\ Reading
  <2>1. Agrees(consumed, file.bytes, cursor.offset)
    BY <1>6, <1>7, AgreesNothing DEF TailTyped
  <2>2. QED
    BY <1>4, <2>1 DEF Waiting, Examined, Reading
<1>10. QED
  BY <1>7, <1>8, <1>9 DEF TailInv

(* After a reset nothing was read.                                         *)
LEMMA ResetForgets ==
  ASSUME Reset
  PROVE  /\ cursor' \in FileCursor /\ cursor'.offset = 0 /\ cursor'.identity = NoFile
         /\ consumed' \in Seq(Bytes) /\ Len(consumed') = 0 /\ ReadSoFar' /\ trust' = "sound"
<1>1. cursor' = NewCursor /\ consumed' = <<>> /\ lines' = <<>> /\ trust' = "sound"
  BY DEF Reset
<1>2. <<>> \in Seq(Bytes) /\ Len(<<>>) = 0
  OBVIOUS
<1>3. /\ cursor' \in FileCursor /\ cursor'.offset = 0 /\ cursor'.pending = <<>> /\ cursor'.discarding = FALSE
      /\ cursor'.identity = NoFile
  BY <1>1, <1>2 DEF NewCursor, FileCursor
<1>4. ReadSoFar'
  BY <1>1, <1>3, NothingRead DEF ReadSoFar
<1>5. QED
  BY <1>1, <1>2, <1>3, <1>4

(* The writer.                                                             *)
LEMMA AppendedKeeps ==
  ASSUME TailInv, NEW m \in MTimes, NEW b \in Bytes, Appended(b, m)
  PROVE  TailInv'
<1>1. /\ file' = [file EXCEPT !.bytes = Append(@, b), !.mtime = m]
      /\ UNCHANGED <<held, readerVars, trust>>
  BY DEF Appended
<1>2. /\ held' = held /\ pc' = pc /\ cursor' = cursor /\ consumed' = consumed /\ lines' = lines
      /\ trust' = trust
  BY <1>1 DEF readerVars
<1>3. TailTyped /\ Append(file.bytes, b) \in Seq(Bytes) /\ Len(Append(file.bytes, b)) = Len(file.bytes) + 1
      /\ Len(file.bytes) \in Nat
  BY AppendProperties DEF TailInv, TailTyped
<1>4. /\ file' \in [inode : Nat, mtime : Nat, bytes : Seq(Bytes)]
      /\ file'.inode = file.inode /\ file'.bytes = Append(file.bytes, b)
  <2> DEFINE more == Append(file.bytes, b)
  <2>1. m \in Nat
    BY DEF MTimes
  <2>2. file \in [inode : Nat, mtime : Nat, bytes : Seq(Bytes)]
    BY <1>3 DEF TailTyped
  <2>3. file' = [file EXCEPT !.bytes = more, !.mtime = m] /\ more \in Seq(Bytes)
    BY <1>1, <1>3
  <2> HIDE DEF more
  <2>4. file' \in [inode : Nat, mtime : Nat, bytes : Seq(Bytes)] /\ file'.inode = file.inode /\ file'.bytes = more
    BY <2>1, <2>2, <2>3
  <2>5. QED
    BY <2>4 DEF more
<1>5. TailTyped'
  BY <1>2, <1>3, <1>4 DEF TailTyped
<1>6. ReadSoFar'
  BY <1>2 DEF ReadSoFar, TailInv
<1>7. Agrees(consumed, file.bytes, cursor.offset) => Agrees(consumed', file'.bytes, cursor'.offset)
  <2>1. file.bytes \in Seq(Bytes) /\ consumed \in Seq(Bytes) /\ cursor.offset = Len(consumed)
    BY <1>3 DEF TailTyped
  <2>2. QED
    BY <1>2, <1>4, <2>1, AgreesStill
<1>8. Waiting' /\ Examined'
  <2>1. cursor.offset \in Nat
    BY <1>3 DEF TailTyped, FileCursor
  <2>2. cursor.offset <= Len(file.bytes) => cursor.offset <= Len(file'.bytes)
    BY <1>3, <1>4, <2>1
  <2>3. QED
    BY <1>2, <1>4, <1>7, <2>2 DEF Waiting, Examined, TailInv
<1>9. Reading'
  <2>1. Readable' = Readable \/ Readable' = Append(Readable, b)
    BY <1>2, <1>4 DEF Readable
  <2>2. Agrees(consumed, Readable, cursor.offset) => Agrees(consumed, Readable', cursor.offset)
    <3>1. Readable \in Seq(Bytes) /\ consumed \in Seq(Bytes) /\ cursor.offset = Len(consumed)
      BY <1>3, ReadableTyped DEF TailTyped
    <3>2. QED
      BY <2>1, <3>1, AgreesStill
  <2>3. QED
    BY <1>2, <1>4, <2>2 DEF Reading, TailInv
<1>10. QED
  BY <1>5, <1>6, <1>8, <1>9 DEF TailInv

LEMMA ReplaceKeeps ==
  ASSUME TailInv, NEW m \in MTimes, NEW s \in Contents, Replace(s, m)
  PROVE  TailInv'
<1>1. /\ file' = [inode |-> file.inode + 1, mtime |-> m, bytes |-> s]
      /\ held' = [held EXCEPT !.bytes = Readable]
      /\ pc' = pc /\ cursor' = cursor /\ consumed' = consumed /\ lines' = lines
  BY DEF Replace, readerVars
<1>2. TailTyped /\ s \in Seq(Bytes) /\ Readable \in Seq(Bytes)
  BY TailAssumption, ReadableTyped DEF TailInv
<1>t. trust' # "sound" /\ (trust' # "lost" => trust # "lost") /\ trust' \in {"sound", "changed", "lost"}
  <2>1. trust' = Suspect
    <3>1. Replace(s, m)
      OBVIOUS
    <3>2. QED
      BY <3>1, Zenon DEF Replace
  <2>2. QED
    BY <2>1, Zenon DEF Suspect
<1>3. held' \in [inode : Nat, bytes : Seq(Bytes)] /\ held'.inode = held.inode /\ held'.bytes = Readable
  BY <1>1, <1>2 DEF TailTyped
<1>4. /\ file' \in [inode : Nat, mtime : Nat, bytes : Seq(Bytes)] /\ file'.inode = file.inode + 1
      /\ file.inode \in Nat /\ held.inode \in Nat /\ held.inode <= file.inode
  BY <1>1, <1>2 DEF TailTyped, MTimes
<1>5. TailTyped'
  BY <1>1, <1>2, <1>3, <1>4, <1>t DEF TailTyped
<1>6. ReadSoFar'
  BY <1>1 DEF ReadSoFar, TailInv
<1>7. Waiting'
  BY <1>t DEF Waiting
<1>8. Examined'
  <2>1. cursor.identity \in Nat /\ cursor.identity <= file.inode =>
          cursor.identity <= file'.inode /\ cursor.identity # file'.inode
    BY <1>4
  <2>2. QED
    BY <1>1, <2>1 DEF Examined, TailInv
<1>9. Readable' = Readable
  <2>1. held'.inode # file'.inode
    BY <1>3, <1>4
  <2>2. QED
    BY <1>3, <2>1 DEF Readable
<1>10. Reading'
  BY <1>1, <1>3, <1>9, <1>t DEF Reading, TailInv
<1>11. QED
  BY <1>5, <1>6, <1>7, <1>8, <1>10 DEF TailInv

LEMMA RewriteKeeps ==
  ASSUME TailInv, NEW m \in MTimes, NEW s \in Contents, Rewrite(s, m)
  PROVE  TailInv'
<1>1. /\ pc = "idle" /\ file' = [file EXCEPT !.bytes = s, !.mtime = m]
      /\ held' = held /\ pc' = pc /\ cursor' = cursor /\ consumed' = consumed /\ lines' = lines
  BY DEF Rewrite, readerVars
<1>t. trust' # "sound" /\ trust' \in {"sound", "changed", "lost"}
  <2>1. trust' = Suspect
    <3>1. Rewrite(s, m)
      OBVIOUS
    <3>2. QED
      BY <3>1, Zenon DEF Rewrite
  <2>2. QED
    BY <2>1, Zenon DEF Suspect
<1>2. TailTyped /\ s \in Seq(Bytes)
  BY TailAssumption DEF TailInv
<1>3. file' \in [inode : Nat, mtime : Nat, bytes : Seq(Bytes)] /\ file'.inode = file.inode
  <2>1. m \in Nat
    BY DEF MTimes
  <2>2. file \in [inode : Nat, mtime : Nat, bytes : Seq(Bytes)]
    BY <1>2 DEF TailTyped
  <2>3. QED
    BY <1>1, <1>2, <2>1, <2>2
<1>4. TailTyped'
  BY <1>1, <1>2, <1>3, <1>t DEF TailTyped
<1>5. ReadSoFar'
  BY <1>1 DEF ReadSoFar, TailInv
<1>6. Waiting'
  BY <1>t DEF Waiting
<1>7. Examined' /\ Reading'
  BY <1>1 DEF Examined, Reading
<1>8. QED
  BY <1>4, <1>5, <1>6, <1>7 DEF TailInv

(* The reader.                                                             *)
LEMMA StatKeeps ==
  ASSUME TailInv, Stat
  PROVE  TailInv'
<1>1. /\ pc = "idle" /\ pc' = "open" /\ file' = file /\ held' = held
      /\ cursor' = [(IF Replaced THEN NewCursor ELSE cursor) EXCEPT !.identity = file.inode, !.modified = file.mtime]
      /\ consumed' = (IF Replaced THEN <<>> ELSE consumed)
      /\ lines' = (IF Replaced THEN <<>> ELSE lines)
      /\ trust' = (IF Replaced THEN "sound" ELSE trust)
  BY DEF Stat
<1>2. TailTyped /\ ReadSoFar /\ Waiting
  BY DEF TailInv
<1>3. file.inode \in Nat /\ file.mtime \in Nat /\ cursor \in FileCursor /\ cursor.offset \in Nat
      /\ Len(file.bytes) \in Nat
  BY <1>2 DEF TailTyped, FileCursor
<1>4. Waiting' /\ Reading'
  BY <1>1 DEF Waiting, Reading
<1>5. CASE Replaced
  <2>1. <<>> \in Seq(Bytes) /\ Len(<<>>) = 0
    OBVIOUS
  <2>2. NewCursor \in FileCursor
    BY <2>1 DEF NewCursor, FileCursor
  <2>3. /\ cursor' \in FileCursor /\ cursor'.identity = file.inode /\ cursor'.offset = 0
        /\ cursor'.pending = <<>> /\ cursor'.discarding = FALSE
    BY <1>1, <1>3, <1>5, <2>2 DEF NewCursor, FileCursor
  <2>4. TailTyped'
    BY <1>1, <1>2, <1>5, <2>1, <2>3 DEF TailTyped
  <2>5. ReadSoFar'
    BY <1>1, <1>5, <2>3, NothingRead DEF ReadSoFar
  <2>6. Examined'
    <3>1. consumed' \in Seq(Bytes) /\ file'.bytes \in Seq(Bytes)
      BY <2>4 DEF TailTyped
    <3>2. Agrees(consumed', file'.bytes, cursor'.offset)
      BY <2>3, <3>1, AgreesNothing
    <3>3. QED
      BY <1>1, <1>3, <2>3, <3>2 DEF Examined
  <2>7. QED
    BY <1>4, <2>4, <2>5, <2>6 DEF TailInv
<1>6. CASE ~Replaced
  <2>1. cursor' = [cursor EXCEPT !.identity = file.inode, !.modified = file.mtime] /\ consumed' = consumed /\ lines' = lines
        /\ trust' = trust
    BY <1>1, <1>6
  <2>2. /\ cursor' \in FileCursor /\ cursor'.identity = file.inode
        /\ cursor'.offset = cursor.offset /\ cursor'.pending = cursor.pending
        /\ cursor'.discarding = cursor.discarding /\ cursor'.checkpoint = cursor.checkpoint
    BY <1>3, <2>1 DEF FileCursor
  <2>3. TailTyped'
    BY <1>1, <1>2, <2>1, <2>2 DEF TailTyped
  <2>4. ReadSoFar'
    BY <1>2, <2>1, <2>2 DEF ReadSoFar
  <2>5. cursor.identity \in {NoFile, file.inode} /\ cursor.offset <= Len(file.bytes)
    BY <1>3, <1>6 DEF Replaced
  <2>6. trust = "sound" => Agrees(consumed, file.bytes, cursor.offset)
    <3>1. ~(cursor.identity \in Nat /\ cursor.identity < file.inode)
      BY <1>3, <2>5, TailAssumption
    <3>2. QED
      BY <1>1, <1>2, <3>1 DEF Waiting
  <2>7. Examined'
    BY <1>1, <1>3, <2>1, <2>2, <2>5, <2>6 DEF Examined
  <2>8. QED
    BY <1>4, <2>3, <2>4, <2>7 DEF TailInv
<1>7. QED
  BY <1>5, <1>6

LEMMA OpenFileKeeps ==
  ASSUME TailInv, OpenFile
  PROVE  TailInv'
<1>1. PICK readable \in BOOLEAN :
        /\ IF readable /\ TailDiffers THEN Reset
           ELSE /\ trust' = IF trust # "changed" THEN trust
                            ELSE IF Vouched(readable) THEN "sound"
                            ELSE IF length = cursor.offset THEN "changed" ELSE "lost"
                /\ UNCHANGED <<cursor, consumed, lines>>
        /\ \/ length = cursor'.offset /\ Return
           \/ /\ length # cursor'.offset
              /\ pc' = "read" /\ held' = [inode |-> file.inode, bytes |-> <<>>] /\ UNCHANGED length
  BY DEF OpenFile
<1>2. TailTyped /\ ReadSoFar /\ Examined /\ pc = "open" /\ file' = file
  BY DEF TailInv, OpenFile
<1>3. /\ file.inode \in Nat /\ file.bytes \in Seq(Bytes) /\ <<>> \in Seq(Bytes)
      /\ \/ pc' = "idle" /\ held' = [inode |-> 0, bytes |-> <<>>] /\ length = cursor'.offset
         \/ pc' = "read" /\ held' = [inode |-> file.inode, bytes |-> <<>>] /\ length # cursor'.offset
  <2>1. <<>> \in Seq(Bytes)
    OBVIOUS
  <2>2. QED
    BY <1>1, <1>2, <2>1 DEF TailTyped, Return, Closed
<1>4. held' \in [inode : Nat, bytes : Seq(Bytes)] /\ held'.inode <= file.inode
  <2>1. CASE held' = [inode |-> 0, bytes |-> <<>>]
    BY <1>3, <2>1
  <2>2. CASE held' = [inode |-> file.inode, bytes |-> <<>>]
    BY <1>3, <2>2
  <2>3. QED
    BY <1>3, <2>1, <2>2
<1>5. pc' = "read" => held'.inode = file.inode /\ Readable' = file.bytes
  BY <1>2, <1>3 DEF Readable
<1>6. Examined'
  BY <1>3 DEF Examined
<1>7. CASE readable /\ TailDiffers
  <2>1. /\ cursor' \in FileCursor /\ cursor'.offset = 0 /\ cursor'.identity = NoFile
        /\ consumed' \in Seq(Bytes) /\ Len(consumed') = 0 /\ ReadSoFar' /\ trust' = "sound"
    BY <1>1, <1>7, ResetForgets
  <2>2. TailTyped'
    BY <1>2, <1>4, <2>1 DEF TailTyped
  <2>3. Agrees(consumed', file.bytes, cursor'.offset)
    BY <1>3, <2>1, AgreesNothing
  <2>4. Waiting' /\ Reading'
    BY <1>2, <1>5, <2>1, <2>3 DEF Waiting, Reading
  <2>5. QED
    BY <1>6, <2>1, <2>2, <2>4 DEF TailInv
<1>8. CASE ~(readable /\ TailDiffers)
  <2>1. /\ cursor' = cursor /\ consumed' = consumed /\ lines' = lines
        /\ trust' = IF trust # "changed" THEN trust
                    ELSE IF Vouched(readable) THEN "sound"
                    ELSE IF length = cursor.offset THEN "changed" ELSE "lost"
    BY <1>1, <1>8
  <2>2. TailTyped'
    BY <1>2, <1>4, <2>1 DEF TailTyped
  <2>3. ReadSoFar'
    BY <1>2, <2>1 DEF ReadSoFar
  <2>4. /\ cursor.identity \in Nat /\ cursor.identity <= file.inode
        /\ cursor.identity = file.inode =>
             /\ cursor.offset <= Len(file.bytes)
             /\ trust = "sound" => Agrees(consumed, file.bytes, cursor.offset)
    BY <1>2 DEF Examined
  <2>5. cursor.offset \in Nat /\ Len(consumed) = cursor.offset /\ consumed \in Seq(Bytes)
    BY <1>2 DEF TailTyped, FileCursor
  <2>6. ASSUME cursor.identity = file.inode, Vouched(readable) PROVE Agrees(consumed, file.bytes, cursor.offset)
    <3>1. CASE cursor.offset = 0
      BY <1>3, <2>5, <3>1, AgreesNothing
    <3>2. CASE cursor.offset > 0
      <4>1. readable /\ cursor.checkpoint = TailAt(consumed, cursor.offset) /\ cursor.offset <= Len(file.bytes)
        BY <2>4, <2>6, <3>2 DEF Vouched
      <4>2. TailAt(consumed, cursor.offset) # <<>>
        <5>1. cursor.offset \in 0..Len(consumed)
          BY <2>5
        <5>2. Len(TailAt(consumed, cursor.offset)) # 0
          BY <2>5, <3>2, <5>1, TailIs
        <5>3. QED
          BY <5>2
      <4>3. TailAt(file.bytes, cursor.offset) = cursor.checkpoint
        BY <1>8, <3>2, <4>1, <4>2 DEF TailDiffers
      <4>4. QED
        BY <4>1, <4>3 DEF Agrees
    <3>3. QED
      BY <2>5, <3>1, <3>2
  <2>7. ASSUME cursor.identity = file.inode, trust' = "sound" PROVE Agrees(consumed, file.bytes, cursor.offset)
    BY <2>1, <2>4, <2>6, <2>7
  <2>8. cursor.identity # file.inode => cursor.identity < file.inode
    BY <1>3, <2>4
  <2>9. Waiting'
    BY <1>2, <2>1, <2>4, <2>7, <2>8 DEF Waiting
  <2>10. Reading'
    <3>1. cursor.identity \in {file.inode, NoFile} => cursor.identity = file.inode
      BY <2>4, TailAssumption
    <3>2. pc' = "read" /\ trust' # "lost" => trust' = "sound"
      BY <1>2, <1>3, <2>1 DEF TailTyped
    <3>3. QED
      BY <1>2, <1>5, <2>1, <2>4, <2>7, <2>8, <3>1, <3>2 DEF Reading
  <2>11. QED
    BY <1>6, <2>2, <2>3, <2>9, <2>10 DEF TailInv
<1>9. QED
  BY <1>7, <1>8

LEMMA FailKeeps ==
  ASSUME TailInv, Fail
  PROVE  TailInv'
<1>1. /\ pc = "open" /\ pc' = "idle" /\ held' = [inode |-> 0, bytes |-> <<>>] /\ file' = file
      /\ cursor' = cursor /\ consumed' = consumed /\ lines' = lines /\ trust' = trust
  BY DEF Fail, Return, Closed
<1>2. <<>> \in Seq(Bytes)
  OBVIOUS
<1>3. TailTyped'
  BY <1>1, <1>2 DEF TailInv, TailTyped
<1>4. ReadSoFar'
  BY <1>1 DEF TailInv, ReadSoFar
<1>5. Waiting'
  <2>1. cursor.identity \in Nat /\ cursor.identity <= file.inode /\ file.inode \in Nat
    BY <1>1 DEF TailInv, TailTyped, Examined
  <2>2. cursor.identity = file.inode \/ cursor.identity < file.inode
    BY <2>1
  <2>3. QED
    BY <1>1, <2>1, <2>2 DEF TailInv, Examined, Waiting
<1>6. QED
  BY <1>1, <1>3, <1>4, <1>5 DEF TailInv, Examined, Reading

LEMMA ReadChunkKeeps ==
  ASSUME TailInv, ReadChunk
  PROVE  TailInv'
<1>1. pc = "read" /\ pc' = pc /\ file' = file /\ held' = held /\ trust' = trust
  BY DEF ReadChunk
<1>2. TailTyped /\ ReadSoFar /\ Reading /\ Readable \in Seq(Bytes)
  BY ReadableTyped DEF TailInv
<1> DEFINE st == [pending |-> cursor.pending, out |-> lines, discarding |-> cursor.discarding]
           o == cursor.offset
<1>3. PICK n \in 1..ChunkSize :
        /\ o + n <= Len(Readable)
        /\ LET chunk == SubSeq(Readable, o + 1, o + n)
               end == FoldLeft(Consumed, st, chunk)
           IN /\ cursor' = [cursor EXCEPT !.offset = @ + n, !.pending = end.pending, !.discarding = end.discarding]
              /\ lines' = end.out /\ consumed' = consumed \o chunk
  <2>1. ReadChunk
    OBVIOUS
  <2>2. QED
    BY <2>1, Zenon DEF ReadChunk
<1> DEFINE chunk == SubSeq(Readable, o + 1, o + n)
           end == FoldLeft(Consumed, st, chunk)
<1>4. /\ n \in Nat /\ o \in Nat /\ Len(consumed) = o /\ consumed \in Seq(Bytes) /\ cursor \in FileCursor
      /\ Len(Readable) \in Nat
  BY <1>2, TailAssumption DEF TailTyped, FileCursor
<1>5. chunk \in Seq(Bytes) /\ Len(chunk) = n
  <2>1. \A i \in (o + 1)..(o + n) : Readable[i] \in Bytes
    <3>0. o + n <= Len(Readable)
      BY <1>3
    <3> HIDE DEF o
    <3>1. \A i \in (o + 1)..(o + n) : i \in 1..Len(Readable)
      BY <1>4, <3>0
    <3>2. QED
      BY <1>2, <3>1, ElementOfSeq
  <2> HIDE DEF o
  <2>2. chunk \in Seq(Bytes) /\ Len(chunk) = IF o + 1 <= o + n THEN (o + n) - (o + 1) + 1 ELSE 0
    BY <1>4, <2>1, SubSeqProperties
  <2>3. QED
    BY <1>4, <2>2
<1>6. HasRead(end, consumed \o chunk)
  <2>1. HasRead(st, consumed)
    BY <1>2 DEF ReadSoFar
  <2> HIDE DEF st, chunk
  <2>2. QED
    BY <1>4, <1>5, <2>1, ChunkConsumed
<1> HIDE DEF end, chunk, st
<1>7. /\ cursor' = [cursor EXCEPT !.offset = o + n, !.pending = end.pending, !.discarding = end.discarding]
      /\ lines' = end.out /\ consumed' = consumed \o chunk
  BY <1>3 DEF end, chunk
<1>8. end \in Reader
  BY <1>6 DEF HasRead
<1>9. /\ cursor' \in FileCursor /\ cursor'.offset = o + n /\ cursor'.identity = cursor.identity
      /\ cursor'.pending = end.pending /\ cursor'.discarding = end.discarding
  <2>1. end.pending \in Seq(Bytes) /\ end.discarding \in BOOLEAN
    BY <1>8 DEF Reader
  <2>2. o + n \in Nat
    BY <1>4
  <2> HIDE DEF o
  <2>3. QED
    BY <1>4, <1>7, <2>1, <2>2 DEF FileCursor
<1>10. consumed' \in Seq(Bytes) /\ Len(consumed') = o + n
  BY <1>4, <1>5, <1>7, ConcatProperties
<1>11. TailTyped'
  BY <1>1, <1>2, <1>9, <1>10 DEF TailTyped
<1>12. ReadSoFar'
  <2>1. end = [pending |-> end.pending, out |-> end.out, discarding |-> end.discarding]
    BY <1>8 DEF Reader
  <2>2. QED
    BY <1>6, <1>7, <1>9, <2>1 DEF ReadSoFar
<1>13. Readable' = Readable
  BY <1>1 DEF Readable
<1>14. ASSUME Agrees(consumed, Readable, o) PROVE Agrees(consumed', Readable, o + n)
  <2>1. Agrees(consumed, Readable, Len(consumed)) /\ Len(consumed) + n <= Len(Readable)
    BY <1>3, <1>4, <1>14
  <2>2. chunk = SubSeq(Readable, Len(consumed) + 1, Len(consumed) + n)
    BY <1>4 DEF chunk
  <2> HIDE DEF o
  <2>3. Agrees(consumed \o chunk, Readable, Len(consumed) + n)
    BY <1>2, <1>4, <2>1, <2>2, AgreesOn
  <2>4. QED
    BY <1>4, <1>7, <2>3
<1>15. Reading'
  BY <1>1, <1>2, <1>9, <1>13, <1>14 DEF Reading
<1>16. Waiting' /\ Examined'
  BY <1>1 DEF Waiting, Examined
<1>17. QED
  BY <1>11, <1>12, <1>15, <1>16 DEF TailInv

(* However a reading ends, the file is what was read of it.                *)
LEMMA ReturnKeeps ==
  ASSUME TailInv, pc = "read", Return, UNCHANGED <<file, consumed, lines, trust>>,
         cursor' \in FileCursor, cursor'.offset = cursor.offset, cursor'.identity = cursor.identity,
         cursor'.pending = cursor.pending, cursor'.discarding = cursor.discarding
  PROVE  TailInv'
<1>1. pc' = "idle" /\ held' = [inode |-> 0, bytes |-> <<>>]
  BY DEF Return, Closed
<1>2. TailTyped /\ ReadSoFar /\ Reading
  BY DEF TailInv
<1>3. <<>> \in Seq(Bytes)
  OBVIOUS
<1>4. TailTyped'
  BY <1>1, <1>2, <1>3 DEF TailTyped
<1>5. ReadSoFar'
  BY <1>2 DEF ReadSoFar
<1>6. Waiting'
  <2> SUFFICES ASSUME trust = "sound"
               PROVE  Agrees(consumed, file.bytes, cursor.offset)
                      \/ (cursor.identity \in Nat /\ cursor.identity < file.inode)
    BY DEF Waiting
  <2>1. held.inode = file.inode /\ Readable = file.bytes
    BY <1>2 DEF Reading, Readable
  <2>2. QED
    BY <1>2, <2>1 DEF Reading
<1>7. Examined' /\ Reading'
  BY <1>1 DEF Examined, Reading
<1>8. QED
  BY <1>4, <1>5, <1>6, <1>7 DEF TailInv

LEMMA FinishKeeps ==
  ASSUME TailInv, Finish
  PROVE  TailInv'
<1>1. PICK tail \in {<<>>} \cup {TailAt(Readable, o) : o \in {cursor.offset} \cap 0..Len(Readable)} :
        cursor' = [cursor EXCEPT !.checkpoint = tail]
  BY DEF Finish
<1>2. Readable \in Seq(Bytes) /\ cursor \in FileCursor /\ <<>> \in Seq(Bytes)
  <2>1. <<>> \in Seq(Bytes)
    OBVIOUS
  <2>2. QED
    BY <2>1, ReadableTyped DEF TailInv, TailTyped
<1>3. tail \in Seq(Bytes)
  BY <1>1, <1>2, TailIs
<1>4. /\ cursor' \in FileCursor /\ cursor'.offset = cursor.offset /\ cursor'.identity = cursor.identity
      /\ cursor'.pending = cursor.pending /\ cursor'.discarding = cursor.discarding
  BY <1>1, <1>2, <1>3 DEF FileCursor
<1>5. pc = "read" /\ Return /\ UNCHANGED <<file, consumed, lines, trust>>
  BY DEF Finish
<1>6. QED
  BY <1>4, <1>5, ReturnKeeps

LEMMA BreakKeeps ==
  ASSUME TailInv, Break
  PROVE  TailInv'
<1>1. pc = "read" /\ Return /\ UNCHANGED <<file, cursor, consumed, lines, trust>>
  BY DEF Break
<1>2. cursor' \in FileCursor
  BY <1>1 DEF TailInv, TailTyped
<1>3. QED
  BY <1>1, <1>2, ReturnKeeps

LEMMA TailStep == TailInv /\ [TailNext]_tailVars => TailInv'
<1> SUFFICES ASSUME TailInv, [TailNext]_tailVars PROVE TailInv'
  OBVIOUS
<1>1. ASSUME NEW m \in MTimes, NEW b \in Bytes, Appended(b, m) PROVE TailInv'
  BY <1>1, AppendedKeeps
<1>2. ASSUME NEW m \in MTimes, NEW s \in Contents, Replace(s, m) \/ Rewrite(s, m) PROVE TailInv'
  BY <1>2, ReplaceKeeps, RewriteKeeps
<1>3. CASE Stat \/ OpenFile \/ Fail
  BY <1>3, StatKeeps, OpenFileKeeps, FailKeeps
<1>4. CASE ReadChunk \/ Finish \/ Break
  BY <1>4, ReadChunkKeeps, FinishKeeps, BreakKeeps
<1>5. CASE UNCHANGED tailVars
  <2>1. file' = file /\ held' = held /\ pc' = pc /\ cursor' = cursor /\ consumed' = consumed /\ lines' = lines
        /\ trust' = trust
    BY <1>5 DEF tailVars
  <2>2. QED
    BY <2>1 DEF TailInv, TailTyped, ReadSoFar, Waiting, Examined, Reading, Readable
<1>6. QED
  BY <1>1, <1>2, <1>3, <1>4, <1>5 DEF TailNext

(* The reader of a transcript keeps TailInv, whatever the writer does.     *)
THEOREM TailInvariance == TailSpec => []TailInv
BY TailInitially, TailStep, PTL DEF TailSpec

(* TailExact (read_file): whatever the writer does and wherever a read     *)
(* ends or fails, what was parsed are the lines of what was read, and at   *)
(* the end of the examined file that is the file, as far as the tail tells *)
(* and unless it was written anew where no tail could be compared.         *)
THEOREM TailExactCorrect == TailSpec => []TailExact
<1>1. TailInv => TailExact
  <2> SUFFICES ASSUME TailInv PROVE TailExact
    OBVIOUS
  <2>1. lines = LinesOf(consumed)
    <3> DEFINE st == [pending |-> cursor.pending, out |-> lines, discarding |-> cursor.discarding]
    <3>1. HasRead(st, consumed) /\ st.out = lines
      BY DEF TailInv, ReadSoFar
    <3> HIDE DEF st
    <3>2. QED
      BY <3>1 DEF HasRead
  <2>2. Len(consumed) = cursor.offset /\ consumed \in Seq(Bytes) /\ cursor.offset \in Nat /\ Readable \in Seq(Bytes)
    BY ReadableTyped DEF TailInv, TailTyped, FileCursor
  <2>3. ASSUME pc = "read", cursor.offset = Len(Readable), cursor.identity \in {held.inode, NoFile},
               trust # "lost"
        PROVE  /\ TailAt(consumed, cursor.offset) = TailAt(Readable, cursor.offset)
               /\ cursor.offset <= TailSize => consumed = Readable
    <3>1. TailAt(consumed, cursor.offset) = TailAt(Readable, cursor.offset)
      BY <2>3 DEF TailInv, Reading, Agrees
    <3>2. ASSUME cursor.offset <= TailSize PROVE consumed = Readable
      <4>1. ~(cursor.offset > TailSize) /\ 0 + 1 = 1
        BY <2>2, <3>2, TailAssumption
      <4>2. TailAt(consumed, cursor.offset) = SubSeq(consumed, 1, cursor.offset)
            /\ TailAt(Readable, cursor.offset) = SubSeq(Readable, 1, cursor.offset)
        BY <4>1 DEF TailAt
      <4>3. QED
        BY <2>2, <2>3, <3>1, <4>2, SubSeqFull
    <3>3. QED
      BY <3>1, <3>2
  <2>4. QED
    BY <2>1, <2>2, <2>3 DEF TailExact
<1>2. QED
  BY TailInvariance, <1>1, PTL

=============================================================================
