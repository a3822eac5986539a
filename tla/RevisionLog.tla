---------------------------- MODULE RevisionLog ----------------------------
(***************************************************************************)
(* The write-ahead log of revisions and the object store beside it, through *)
(* failed writes, process crashes and power losses (store/log.rs,           *)
(* store/object.rs, and commit_prepared and open of kb.rs).                 *)
(*                                                                         *)
(* The file is modelled token by token: the line of a revision is a head, a *)
(* rest and a newline, so a write can be cut inside the JSON text, right    *)
(* before the newline, or between lines.                                    *)
(***************************************************************************)
EXTENDS Naturals, Sequences, FiniteSets

CONSTANTS
  Object,        \* snapshots a revision can refer to
  NoObject,      \* a revision without a snapshot
  Fsync,         \* KbConfig.fsync
  MaxRevisions,  \* bound on commits
  MaxFailures,   \* bound on failed writes and syncs
  MaxStops       \* bound on crashes and power losses

ASSUME LogAssumption ==
  /\ NoObject \notin Object
  /\ Fsync \in BOOLEAN
  /\ MaxRevisions \in Nat
  /\ MaxFailures \in Nat
  /\ MaxStops \in Nat

VARIABLES
  file,      \* the tokens of revisions.jsonl, those in the page cache included
  synced,    \* how many of them are on the disk for certain
  buffer,    \* the tokens in the BufWriter
  serving,   \* whether a process has the store open
  memory,    \* the revisions it has applied
  pending,   \* the objects that the request in progress has stored
  objects,   \* the state of each object's file
  acked,     \* the revisions whose commit returned Ok, in order
  issued,    \* how many commits were tried; the id of the last revision
  failures,  \* how many writes or syncs failed
  stops      \* how many crashes and power losses there were

vars ==
  <<file, synced, buffer, serving, memory, pending, objects, acked, issued, failures, stops>>

disk == <<file, synced>>

counters == <<failures, stops>>

Revision ==
  [id : 1..MaxRevisions, seq : 1..MaxRevisions, object : Object \cup {NoObject}]

Newline == [part |-> "newline"]

HeadOf(r) == [part |-> "head", rev |-> r]

RestOf(r) == [part |-> "rest", rev |-> r]

Token == {Newline} \cup {HeadOf(r) : r \in Revision} \cup {RestOf(r) : r \in Revision}

Line(r) == <<HeadOf(r), RestOf(r), Newline>>

\* An object's file is not there, renamed into place but possibly lost by a power
\* failure, or on the disk.
ObjectState == {"absent", "cached", "durable"}

MaxOf(S) == CHOOSE x \in S : \A y \in S : y <= x

Prefix(s, n) == SubSeq(s, 1, n)

Suffix(s, n) == SubSeq(s, n + 1, Len(s))

-----------------------------------------------------------------------------
(* Reading the file.                                                        *)

\* The revisions read from the first n tokens of a readable file.
RevisionsInFirst(tokens, n) ==
  LET read[m \in 0..n] ==
        IF m = 0 THEN <<>>
          ELSE IF tokens[m].part = "rest" THEN Append(read[m - 1], tokens[m].rev)
          ELSE read[m - 1]
  IN  read[n]

RevisionsIn(tokens) == RevisionsInFirst(tokens, Len(tokens))

\* read_all succeeds: every line is empty or one whole revision.
StartsLine(tokens, i) == i = 1 \/ tokens[i - 1] = Newline

EndsLine(tokens, i) == i = Len(tokens) \/ tokens[i + 1] = Newline

Readable(tokens) ==
  \A i \in 1..Len(tokens) :
    \/ tokens[i] = Newline
    \/ /\ tokens[i].part = "head"
       /\ StartsLine(tokens, i)
       /\ i < Len(tokens)
       /\ tokens[i + 1] = RestOf(tokens[i].rev)
    \/ /\ tokens[i].part = "rest"
       /\ EndsLine(tokens, i)
       /\ i > 1
       /\ tokens[i - 1] = HeadOf(tokens[i].rev)

\* recover_tail completes an unterminated last line if it is a revision, and
\* else cuts it off.
LastNewline(tokens) == MaxOf({0} \cup {i \in 1..Len(tokens) : tokens[i] = Newline})

Torn(tokens) == Suffix(tokens, LastNewline(tokens))

IsWhole(line) ==
  /\ Len(line) = 2
  /\ line[1].part = "head"
  /\ line[2] = RestOf(line[1].rev)

RecoveredTail(tokens) ==
  IF Torn(tokens) = <<>>
    THEN tokens
    ELSE IF IsWhole(Torn(tokens))
           THEN Append(tokens, Newline)
           ELSE Prefix(tokens, LastNewline(tokens))

-----------------------------------------------------------------------------
(* Committing.                                                              *)

\* head_seq: register_revision keeps the largest seq.
HeadSeq == MaxOf({0} \cup {memory[i].seq : i \in 1..Len(memory)})

\* With a fault: the seq of the head is given out again.
SeqOfHead == HeadSeq

NextSeq == HeadSeq + 1

\* A commit of the request in progress: it may refer to an object it has stored.
NewRevision(o) ==
  /\ serving
  /\ issued < MaxRevisions
  /\ o \in pending \cup {NoObject}

TheRevision(o) == [id |-> issued + 1, seq |-> NextSeq, object |-> o]

\* The end of a request, by an answer or by a crash.
RequestEnds == pending' = {}

\* With a fault: the data is not synced.
SyncSkipped(tokens) == synced

\* How much is on the disk after sync_data.
SyncedLength(tokens) == IF Fsync THEN Len(tokens) ELSE synced

\* The line reaches the file, behind what an earlier failed flush left in the
\* buffer; the commit is acknowledged and applied.
Commit(o) ==
  LET r == TheRevision(o)
  IN  /\ NewRevision(o)
      /\ file' = file \o buffer \o Line(r)
      /\ buffer' = <<>>
      /\ synced' = SyncedLength(file')
      /\ memory' = Append(memory, r)
      /\ acked' = Append(acked, r)
      /\ issued' = issued + 1
      /\ RequestEnds
      /\ UNCHANGED <<serving, objects, counters>>

\* A refused commit is not applied, and the next one takes the same seq.
Refused ==
  /\ failures < MaxFailures
  /\ failures' = failures + 1
  /\ issued' = issued + 1
  /\ RequestEnds
  /\ UNCHANGED <<serving, memory, objects, acked, stops>>

\* flush fails after n tokens.  The BufWriter keeps the rest for the next flush.
FlushFails(o, n) ==
  LET queued == buffer \o Line(TheRevision(o))
  IN  /\ NewRevision(o)
      /\ n < Len(queued)
      /\ file' = file \o Prefix(queued, n)
      /\ buffer' = Suffix(queued, n)
      /\ Refused
      /\ UNCHANGED synced

\* A line longer than the BufWriter's capacity is not buffered: what is queued is
\* flushed first, then the text is written through, and a failure inside it
\* leaves its beginning in the file and nothing in the buffer.
WriteThroughFails(o, n) ==
  LET text == Prefix(Line(TheRevision(o)), n)
  IN  /\ NewRevision(o)
      /\ n \in {0, 1}
      /\ file' = file \o buffer \o text
      /\ buffer' = <<>>
      /\ Refused
      /\ UNCHANGED synced

\* The flush of what is queued fails already: the long line is not written at all.
FlushBeforeFails(o, n) ==
  /\ NewRevision(o)
  /\ n < Len(buffer)
  /\ file' = file \o Prefix(buffer, n)
  /\ buffer' = Suffix(buffer, n)
  /\ Refused
  /\ UNCHANGED synced

\* sync_data fails: the line is in the file all the same.
SyncFails(o) ==
  /\ Fsync
  /\ NewRevision(o)
  /\ file' = file \o buffer \o Line(TheRevision(o))
  /\ buffer' = <<>>
  /\ Refused
  /\ UNCHANGED synced

\* FsObjectStore::put.  An object that is there already is left as it is; a new one
\* is synced, renamed into place, and its directory synced.
PutObject(o) ==
  /\ serving
  /\ o \notin pending
  /\ objects' = IF objects[o] = "absent"
                  THEN [objects EXCEPT ![o] = IF Fsync THEN "durable" ELSE "cached"]
                  ELSE objects
  /\ pending' = pending \cup {o}
  /\ UNCHANGED <<disk, buffer, serving, memory, acked, issued, counters>>

\* put returns an error when the directory cannot be synced, after the rename.
PutFails(o) ==
  /\ Fsync
  /\ serving
  /\ objects[o] = "absent"
  /\ failures < MaxFailures
  /\ failures' = failures + 1
  /\ objects' = [objects EXCEPT ![o] = "cached"]
  /\ RequestEnds
  /\ UNCHANGED <<disk, buffer, serving, memory, acked, issued, stops>>

-----------------------------------------------------------------------------
(* Stopping and opening.                                                    *)

Stops ==
  /\ stops < MaxStops
  /\ stops' = stops + 1
  /\ serving' = FALSE
  /\ memory' = <<>>
  /\ buffer' = <<>>
  /\ RequestEnds
  /\ UNCHANGED <<acked, failures>>

\* The process ends; on an orderly exit the BufWriter flushes what it can.
Exit(n) ==
  /\ serving
  /\ n <= Len(buffer)
  /\ file' = file \o Prefix(buffer, n)
  /\ Stops
  /\ UNCHANGED <<synced, objects, issued>>

\* The process is killed inside a commit, after n tokens.
ExitInCommit(o, n) ==
  LET queued == buffer \o Line(TheRevision(o))
  IN  /\ NewRevision(o)
      /\ n <= Len(queued)
      /\ file' = file \o Prefix(queued, n)
      /\ issued' = issued + 1
      /\ Stops
      /\ UNCHANGED <<synced, objects>>

\* The process is killed inside put, between the rename and the directory's sync.
ExitInPut(o) ==
  /\ serving
  /\ objects[o] = "absent"
  /\ objects' = [objects EXCEPT ![o] = "cached"]
  /\ Stops
  /\ UNCHANGED <<disk, issued>>

\* The power fails: the file keeps at least what was synced, and any of the
\* objects whose directory entry was not synced may be gone.
PowerLoss(n, lost) ==
  /\ n \in synced..Len(file)
  /\ \A o \in lost : objects[o] = "cached"
  /\ file' = Prefix(file, n)
  /\ synced' = n
  /\ objects' = [o \in Object |-> IF o \in lost THEN "absent"
                                ELSE IF objects[o] = "cached" THEN "durable"
                                ELSE objects[o]]
  /\ Stops
  /\ UNCHANGED issued

\* KnowledgeBase::open: repair the tail, read the log and apply it.  A tail that
\* needed no repair is not synced.  A line that cannot be read is an error, and
\* the store stays closed.
Open ==
  LET tokens == RecoveredTail(file)
  IN  /\ ~ serving
      /\ file' = tokens
      /\ synced' = IF tokens = file THEN synced ELSE Len(tokens)
      /\ serving' = Readable(tokens)
      /\ memory' = IF Readable(tokens) THEN RevisionsIn(tokens) ELSE <<>>
      /\ UNCHANGED <<buffer, pending, objects, acked, issued, counters>>

-----------------------------------------------------------------------------
Init ==
  /\ file = <<>>
  /\ synced = 0
  /\ buffer = <<>>
  /\ serving = FALSE
  /\ memory = <<>>
  /\ pending = {}
  /\ objects = [o \in Object |-> "absent"]
  /\ acked = <<>>
  /\ issued = 0
  /\ failures = 0
  /\ stops = 0

\* The tokens a flush may have to write: a line and what is left of earlier ones.
MaxQueued == 3 * MaxRevisions

Next ==
  \/ \E o \in Object \cup {NoObject} :
       \/ Commit(o)
       \/ SyncFails(o)
       \/ \E n \in 0..MaxQueued : FlushFails(o, n)
       \/ \E n \in 0..MaxQueued : WriteThroughFails(o, n) \/ FlushBeforeFails(o, n)
       \/ \E n \in 0..MaxQueued : ExitInCommit(o, n)
  \/ \E o \in Object : PutObject(o) \/ PutFails(o) \/ ExitInPut(o)
  \/ \E n \in 0..MaxQueued : Exit(n)
  \/ \E n \in 0..MaxQueued, lost \in SUBSET Object : PowerLoss(n, lost)
  \/ Open

Spec == Init /\ [][Next]_vars

-----------------------------------------------------------------------------
(* Properties.                                                              *)

\* Every variable has its type; at most the whole file is synced.
TypeOK ==
  /\ file \in Seq(Token)
  /\ synced \in 0..Len(file)
  /\ buffer \in Seq(Token)
  /\ serving \in BOOLEAN
  /\ memory \in Seq(Revision)
  /\ pending \subseteq Object
  /\ objects \in [Object -> ObjectState]
  /\ acked \in Seq(Revision)
  /\ issued \in 0..MaxRevisions
  /\ failures \in 0..MaxFailures
  /\ stops \in 0..MaxStops

\* The seqs of the applied revisions increase without a gap (Revision::seq), also
\* through crashes between the write and the answer and through replays.  A failed
\* write may leave a revision behind that was refused, whose seq is used again.
SeqsIncrease == failures = 0 => \A i \in 1..Len(memory) : memory[i].seq = i

\* Whatever happens, the log can be opened again, and it then holds every
\* acknowledged revision, in order.  Stated of the worst the disk can keep: the
\* synced part of the file (KbConfig::fsync).
Holds(rs, r) == \E i \in 1..Len(rs) : rs[i] = r

WorstCase == RecoveredTail(Prefix(file, synced))

AckedSurvive ==
  /\ Readable(WorstCase)
  /\ \A i \in 1..Len(acked) : Holds(RevisionsIn(WorstCase), acked[i])

\* Failed writes, in whatever mixture with crashes, do not make the log forget
\* single acknowledged revisions: it holds them all as long as it can be opened.
AckedOrClosed ==
  Readable(WorstCase) =>
    \A i \in 1..Len(acked) : Holds(RevisionsIn(WorstCase), acked[i])

\* The log, as the store's promise about revisions: the synced lines are
\* committed and the others doubtful.
Durable ==
  INSTANCE DurableLog WITH
    committed <- RevisionsIn(Prefix(file, synced)),
    doubtful  <- RevisionsIn(Suffix(file, synced)),
    shown     <- memory

\* As long as no write or sync failed, every step of the log, of its recovery and
\* of the crashes is one the promise allows: an acknowledged revision stays, in its
\* place, and what the store shows is what the file holds.
KeepsPromise == Durable!Init /\ [][failures' > 0 \/ Durable!Next]_(Durable!vars)
=============================================================================
