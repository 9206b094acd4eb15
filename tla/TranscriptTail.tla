--------------------------- MODULE TranscriptTail ---------------------------
(***************************************************************************)
(* How the Claude collector follows one transcript (theywork-collect,      *)
(* claude.rs, read_file) while its writer appends to it or replaces it at  *)
(* any moment, and rewrites it in place between polls.                     *)
(***************************************************************************)
EXTENDS Naturals, Sequences, SequencesExt

CONSTANTS
  Bytes, Newline,  \* what a transcript is made of
  ChunkSize,       \* of one read
  MaxLine,         \* MAX_LINE_BYTES
  TailSize,        \* of the checkpoint, 4096 bytes
  MaxBytes,        \* bound: length of a transcript
  Contents,        \* bound: what it is replaced by
  MaxInode,        \* bound: replacements
  NoFile           \* no identity, no modification time

ASSUME TailAssumption ==
  /\ Newline \in Bytes /\ ChunkSize \in Nat \ {0} /\ MaxLine \in Nat \ {0}
  /\ TailSize \in Nat \ {0} /\ MaxBytes \in Nat /\ Contents \subseteq Seq(Bytes) /\ MaxInode \in Nat /\ NoFile \notin Nat

VARIABLES
  file,     \* [inode, mtime, bytes]
  held,     \* [inode, bytes] of the opened file; bytes once it is unlinked
  pc,       \* idle, open, read
  length,   \* metadata.len()
  cursor,   \* FileCursor
  consumed, \* ghost: bytes that were read since the last reset
  lines,    \* ghost: lines that were parsed since the last reset
  trust     \* ghost: "sound", "changed" when the file was written anew since,
            \* "lost" when reading went on without a comparison

tailVars == <<file, held, pc, length, cursor, consumed, lines, trust>>
readerVars == <<pc, length, cursor, consumed, lines>>

MTimes == {1, 2}
Closed == [inode |-> 0, bytes |-> <<>>]
NewCursor == [offset |-> 0, pending |-> <<>>, discarding |-> FALSE, identity |-> NoFile,
          modified |-> NoFile, checkpoint |-> <<>>]

TailInit ==
  /\ \E n \in 0..MaxBytes : \E bytes \in [1..n -> Bytes] :
       file = [inode |-> 1, mtime |-> 1, bytes |-> bytes]
  /\ held = Closed /\ pc = "idle" /\ length = 0
  /\ cursor = NewCursor /\ consumed = <<>> /\ lines = <<>> /\ trust = "sound"

(* The last bytes before the offset.                                       *)
TailAt(bytes, offset) ==
  SubSeq(bytes, (IF offset > TailSize THEN offset - TailSize ELSE 0) + 1, offset)

Readable == IF held.inode = file.inode THEN file.bytes ELSE held.bytes

-----------------------------------------------------------------------------
(* The writer.  A modification time is as coarse as the file system makes  *)
(* it: two changes may share it.                                           *)
Appended(byte, m) ==
  /\ Len(file.bytes) < MaxBytes
  /\ file' = [file EXCEPT !.bytes = Append(@, byte), !.mtime = m]
  /\ UNCHANGED <<held, readerVars, trust>>

Suspect == IF trust = "lost" THEN "lost" ELSE "changed"

(* Another file is renamed over it; one that is open stays readable.  Its  *)
(* inode is not reused.                                                    *)
Replace(bytes, m) ==
  /\ file.inode < MaxInode
  /\ file' = [inode |-> file.inode + 1, mtime |-> m, bytes |-> bytes]
  /\ held' = [held EXCEPT !.bytes = Readable]
  /\ trust' = Suspect
  /\ UNCHANGED readerVars

(* Truncated and written again in place, with no poll in between.          *)
Rewrite(bytes, m) ==
  /\ pc = "idle"
  /\ file' = [file EXCEPT !.bytes = bytes, !.mtime = m]
  /\ trust' = Suspect
  /\ UNCHANGED <<held, readerVars>>

-----------------------------------------------------------------------------
Reset == cursor' = NewCursor /\ consumed' = <<>> /\ lines' = <<>> /\ trust' = "sound"

(* The metadata show that the file is not the one that was read.           *)
Replaced ==
  \/ cursor.identity # NoFile /\ cursor.identity # file.inode
  \/ Len(file.bytes) < cursor.offset
  \/ /\ cursor.offset > 0 /\ cursor.modified \notin {NoFile, file.mtime}
     /\ Len(file.bytes) <= cursor.offset

(* read_file, up to the metadata.                                          *)
Stat ==
  /\ pc = "idle" /\ pc' = "open" /\ length' = Len(file.bytes)
  /\ LET kept == IF Replaced THEN NewCursor ELSE cursor
     IN cursor' = [kept EXCEPT !.identity = file.inode, !.modified = file.mtime]
  /\ consumed' = (IF Replaced THEN <<>> ELSE consumed)
  /\ lines' = (IF Replaced THEN <<>> ELSE lines)
  /\ trust' = (IF Replaced THEN "sound" ELSE trust)
  /\ UNCHANGED <<file, held>>

(* Wrong: nothing is compared.                                             *)
TailDiffersNever == FALSE

(* read_checkpoint of a file that is now shorter fails, which is no        *)
(* difference.                                                             *)
TailDiffers ==
  /\ cursor.offset > 0 /\ cursor.checkpoint # <<>> /\ cursor.offset <= Len(file.bytes)
  /\ TailAt(file.bytes, cursor.offset) # cursor.checkpoint

(* read_file returns: what it examined is forgotten.                       *)
Return == pc' = "idle" /\ held' = Closed /\ length' = 0

(* The comparison tells whether what was read is still there: not when the *)
(* tail cannot be read, and not when an earlier reading broke off, so that *)
(* the checkpoint is that of another offset, or none.                      *)
Vouched(readable) ==
  cursor.offset = 0 \/ (readable /\ cursor.checkpoint = TailAt(consumed, cursor.offset))

(* The file is opened and its tail compared, if it can be read; a file     *)
(* that is as long as before has nothing new.                              *)
OpenFile ==
  /\ pc = "open"
  /\ \E readable \in BOOLEAN :
       /\ IF readable /\ TailDiffers THEN Reset
          ELSE /\ trust' = IF trust # "changed" THEN trust
                          ELSE IF Vouched(readable) THEN "sound"
                          ELSE IF length = cursor.offset THEN "changed" ELSE "lost"
               /\ UNCHANGED <<cursor, consumed, lines>>
       /\ \/ length = cursor'.offset /\ Return
          \/ /\ length # cursor'.offset
             /\ pc' = "read" /\ held' = [inode |-> file.inode, bytes |-> <<>>] /\ UNCHANGED length
  /\ UNCHANGED file

(* It cannot be opened: the next poll tries again.                         *)
Fail == pc = "open" /\ Return /\ UNCHANGED <<file, cursor, consumed, lines, trust>>

(* consume_bytes, of one byte: an empty line and one that is too long are  *)
(* skipped.                                                                *)
Consumed(state, byte) ==
  IF byte = Newline
  THEN [pending |-> <<>>, discarding |-> FALSE,
        out |-> IF ~state.discarding /\ state.pending # <<>>
                THEN Append(state.out, state.pending) ELSE state.out]
  ELSE IF state.discarding THEN state
  ELSE IF Len(state.pending) < MaxLine THEN [state EXCEPT !.pending = Append(@, byte)]
  ELSE [state EXCEPT !.pending = <<>>, !.discarding = TRUE]

(* One read, and its bytes consumed.                                       *)
ReadChunk ==
  /\ pc = "read" /\ cursor.offset < Len(Readable)
  /\ \E n \in 1..ChunkSize :
       /\ cursor.offset + n <= Len(Readable)
       /\ LET chunk == SubSeq(Readable, cursor.offset + 1, cursor.offset + n)
              end == FoldLeft(Consumed, [pending |-> cursor.pending, out |-> lines,
                                         discarding |-> cursor.discarding], chunk)
          IN /\ cursor' = [cursor EXCEPT !.offset = @ + n, !.pending = end.pending,
                                         !.discarding = end.discarding]
             /\ lines' = end.out
             /\ consumed' = consumed \o chunk
  /\ UNCHANGED <<file, held, pc, length, trust>>

(* The end of the file: what was read last is remembered, if it can be     *)
(* read once more.                                                         *)
Finish ==
  /\ pc = "read" /\ cursor.offset >= Len(Readable) /\ Return
  /\ \E tail \in {<<>>} \cup {TailAt(Readable, o) : o \in {cursor.offset} \cap 0..Len(Readable)} :
       cursor' = [cursor EXCEPT !.checkpoint = tail]
  /\ UNCHANGED <<file, consumed, lines, trust>>

(* The file cannot be read any further, or not from its offset: what was   *)
(* read stays, and no checkpoint is kept of it.                            *)
Break == pc = "read" /\ Return /\ UNCHANGED <<file, cursor, consumed, lines, trust>>

TailNext ==
  \/ \E m \in MTimes : \/ \E b \in Bytes : Appended(b, m)
                       \/ \E s \in Contents : Replace(s, m) \/ Rewrite(s, m)
  \/ Stat \/ OpenFile \/ Fail \/ ReadChunk \/ Finish \/ Break

TailSpec == TailInit /\ [][TailNext]_tailVars

-----------------------------------------------------------------------------
(* What a transcript says: its complete lines, but for empty ones and for  *)
(* those that are too long.                                                *)
LinesOf(bytes) ==
  LET ends == {i \in 1..Len(bytes) : bytes[i] = Newline}
      start(i) == 1 + Max({j \in ends : j < i} \cup {0})
      kept == {i \in ends : i - start(i) \in 1..MaxLine}
      nth(n) == CHOOSE i \in kept : Cardinality({j \in kept : j <= i}) = n
  IN [n \in 1..Cardinality(kept) |-> SubSeq(bytes, start(nth(n)), nth(n) - 1)]

(* Whatever the writer does and wherever a read ends or fails, the lines   *)
(* that were parsed are those of the bytes that were read; and a poll that *)
(* reaches the end of the file it examined has read exactly that file: of  *)
(* one that was replaced or rewritten nothing old remains and nothing is   *)
(* skipped, as far as the tail of TailSize bytes tells.  Not so (trust is  *)
(* lost) when a file was written anew after a reading that broke off, or   *)
(* when its tail could not be read: what was read of it may then stay.     *)
TailExact ==
  /\ lines = LinesOf(consumed) /\ Len(consumed) = cursor.offset
  /\ /\ pc = "read" /\ cursor.offset = Len(Readable)
     /\ cursor.identity \in {held.inode, NoFile} /\ trust # "lost"
     => /\ TailAt(consumed, cursor.offset) = TailAt(Readable, cursor.offset)
        /\ cursor.offset <= TailSize => consumed = Readable

=============================================================================
