------------------------ MODULE ConversationHistory ------------------------
(***************************************************************************)
(* Conversation events and the keys their texts are encrypted with:        *)
(* record_events with its resends, the text index, the key vault beside the *)
(* log, shredding, and the replay of all this when the store is opened      *)
(* (write.rs, history.rs, crypto.rs, kb.rs).                                *)
(*                                                                         *)
(* A commit is in the log for good (RevisionLog with fsync and no failed    *)
(* write); keys.json is written beside it and never synced.  The fields of  *)
(* an event other than its conversation and sequence stand or fall with     *)
(* these in a resend, and are left out; so are anonymous callers, which     *)
(* are refused.                                                             *)
(***************************************************************************)
EXTENDS Naturals, Sequences

CONSTANTS
  Owner,           \* whom an event belongs to: the caller, or the one who delegated
  EventId,         \* ids the clients choose
  Conversation,    \* conversation ids the clients choose
  Sequence,        \* sequence numbers in a conversation
  Text,            \* contents that are UTF-8
  Binary,          \* contents that are not
  Key,             \* key ids
  NoKey,           \* an event that is not encrypted
  MaxBatch,        \* bound on the events of a request (1000 in the code)
  MaxCommits,      \* bound on commits
  MaxKills,        \* bound on kills
  MaxPowerLosses,  \* bound on power losses
  MaxFailures      \* bound on failed writes of keys.json

ASSUME HistoryAssumption ==
  /\ Sequence \subseteq Nat
  /\ Text \cap Binary = {}
  /\ NoKey \notin Key
  /\ MaxBatch \in Nat
  /\ MaxCommits \in Nat
  /\ MaxKills \in Nat
  /\ MaxPowerLosses \in Nat
  /\ MaxFailures \in Nat

VARIABLES
  log,        \* the commands of the committed revisions
  history,    \* HistoryStore.events
  index,      \* per event: "text" if its text is indexed, else the reason why not
  keys,       \* KeyVault.keys: key id -> key material, None if there is none
  shredded,   \* KeyVault.shredded
  keyFile,    \* the keys in keys.json
  older,      \* earlier versions of keys.json that a power loss may bring back
  generated,  \* how many key materials were generated
  serving,    \* whether a process has the store open
  answered,   \* the events a client was told are recorded
  kills,
  losses,
  failures

vars == <<log, history, index, keys, shredded, keyFile, older, generated, serving,
          answered, kills, losses, failures>>

memory == <<history, index, keys, shredded>>

disk == <<keyFile, older, generated>>

counters == <<kills, losses, failures>>

None == 0

Content == Text \cup Binary

KeyFile == [Key -> Nat]

NoKeys == [k \in Key |-> None]

-----------------------------------------------------------------------------
(* Events and their sources.                                                *)

\* A request's visibility for a conversation: public, the owner's own, or not given,
\* which means the owner's own.
Visibility == {"public", "private"}

AskedVisibility == Visibility \cup {"default"}

Given(v) == IF v = "default" THEN "private" ELSE v

\* Locator::scoped_key: a public source is shared, a private one is its owner's.
ScopedKey(o, c, v) ==
  [conversation |-> c, scope |-> IF v = "public" THEN {} ELSE {o}]

Source == [conversation : Conversation, scope : {{}} \cup {{o} : o \in Owner}]

\* material is what the snapshot was encrypted with.
Event ==
  [owner        : Owner,
   id           : EventId,
   conversation : Conversation,
   sequence     : Sequence,
   content      : Content,
   source       : Source,
   key          : Key \cup {NoKey},
   material     : Nat]

Input ==
  [id           : EventId,
   conversation : Conversation,
   sequence     : Sequence,
   content      : Content,
   visibility   : AskedVisibility,
   key          : Key \cup {NoKey}]

Command ==
  [op : {"record"}, events : Seq(Event)] \cup [op : {"create_key", "shred_key"}, key : Key]

\* What a client knows of an event it has sent.
FactOf(o, in) ==
  [owner |-> o, id |-> in.id, conversation |-> in.conversation,
   sequence |-> in.sequence, content |-> in.content]

Fact ==
  [owner : Owner, id : EventId, conversation : Conversation,
   sequence : Sequence, content : Content]

EventsOf(cmd) == IF cmd.op = "record" THEN cmd.events ELSE <<>>

\* The events of the first n commands, in recording order.
EventsOfFirst(cmds, n) ==
  LET events[m \in 0..n] ==
        IF m = 0 THEN <<>> ELSE events[m - 1] \o EventsOf(cmds[m])
  IN  events[n]

\* The events of the log.
LoggedEvents == EventsOfFirst(log, Len(log))

CreatedKeys == {log[n].key : n \in {m \in 1..Len(log) : log[m].op = "create_key"}}

ShreddedKeys == {log[n].key : n \in {m \in 1..Len(log) : log[m].op = "shred_key"}}

-----------------------------------------------------------------------------
(* Applying a command, at its commit and in a replay.  The state it changes *)
(* is passed as a record, and persists says whether keys.json can be        *)
(* written.                                                                 *)

Current ==
  [history |-> history, index |-> index, keys |-> keys, shredded |-> shredded,
   keyFile |-> keyFile, older |-> older, generated |-> generated]

\* KeyVault::open, and nothing replayed yet.
Opened ==
  [history |-> <<>>, index |-> <<>>, keys |-> keyFile, shredded |-> {},
   keyFile |-> keyFile, older |-> older, generated |-> generated]

\* read_snapshot: an event is readable if the vault has the key it was encrypted with.
ReadableWith(ks, e) == e.key \in Key => ks[e.key] # None /\ ks[e.key] = e.material

\* Whether an event's text can be indexed, and the reason if it can not.
IndexEntry(ks, e) ==
  IF ~ ReadableWith(ks, e) THEN "shredded"
    ELSE IF e.content \in Text THEN "text" ELSE "not_utf8"

WithEvents(st, events) ==
  [st EXCEPT !.history = @ \o events,
             !.index = @ \o [i \in 1..Len(events) |-> IndexEntry(st.keys, events[i])]]

Persisted(st, persists) ==
  IF persists
    THEN [st EXCEPT !.keyFile = st.keys, !.older = @ \cup {st.keyFile}]
    ELSE st

\* With a fault: a key that exists is generated again.
KeyReplaced(st, k, persists) ==
  IF k \in st.shredded
    THEN st
    ELSE Persisted([st EXCEPT !.keys[k] = st.generated + 1, !.generated = @ + 1], persists)

\* ensure_key generates a key unless there is one or it was shredded.
KeyEnsured(st, k, persists) ==
  IF st.keys[k] # None \/ k \in st.shredded
    THEN st
    ELSE Persisted([st EXCEPT !.keys[k] = st.generated + 1, !.generated = @ + 1], persists)

\* With a fault: the material stays in the vault.
MarkedShredded(st, k, persists) ==
  Persisted([st EXCEPT !.shredded = @ \cup {k}], persists)

\* With a fault: keys.json is not written.
RemovedInMemory(st, k, persists) ==
  [st EXCEPT !.keys[k] = None, !.shredded = @ \cup {k}]

KeyRemoved(st, k, persists) ==
  Persisted([st EXCEPT !.keys[k] = None, !.shredded = @ \cup {k}], persists)

\* With a fault: the texts stay indexed.
IndexKept(st, k) == st

\* HistoryStore::shred.
TextsRemoved(st, k) ==
  [st EXCEPT !.index = [d \in DOMAIN st.index |->
                          IF st.history[d].key = k THEN "shredded" ELSE st.index[d]]]

Applied(st, cmd, persists) ==
  CASE cmd.op = "record"     -> WithEvents(st, cmd.events)
    [] cmd.op = "create_key" -> KeyEnsured(st, cmd.key, persists)
    [] cmd.op = "shred_key"  -> TextsRemoved(KeyRemoved(st, cmd.key, persists), cmd.key)

\* The replay of the first n revisions.
Replayed(n, persists) ==
  LET state[m \in 0..n] ==
        IF m = 0 THEN Opened ELSE Applied(state[m - 1], log[m], persists)
  IN  state[n]

Becomes(st) ==
  /\ history' = st.history
  /\ index' = st.index
  /\ keys' = st.keys
  /\ shredded' = st.shredded
  /\ keyFile' = st.keyFile
  /\ older' = st.older
  /\ generated' = st.generated

Forgotten ==
  /\ serving' = FALSE
  /\ history' = <<>>
  /\ index' = <<>>
  /\ keys' = NoKeys
  /\ shredded' = {}

-----------------------------------------------------------------------------
(* Commits.                                                                 *)

Counted(persists) ==
  /\ persists \/ failures < MaxFailures
  /\ failures' = IF persists THEN failures ELSE failures + 1

\* The command reaches the log and is applied, or the process is killed in between.
Commits(cmd, persists) ==
  /\ Len(log) < MaxCommits
  /\ log' = Append(log, cmd)
  /\ Becomes(Applied(Current, cmd, persists))
  /\ Counted(persists)
  /\ UNCHANGED <<serving, kills, losses>>

KilledInCommit(cmd) ==
  /\ Len(log) < MaxCommits
  /\ log' = Append(log, cmd)
  /\ kills < MaxKills
  /\ kills' = kills + 1
  /\ Forgotten
  /\ UNCHANGED <<disk, answered, losses, failures>>

\* A new key; its id is generated.
CreateKey(k, persists) ==
  /\ serving
  /\ k \notin CreatedKeys
  /\ Commits([op |-> "create_key", key |-> k], persists)
  /\ UNCHANGED answered

\* For curators.  A key can be shredded twice.
ShredKey(k, persists) ==
  /\ serving
  /\ k \in CreatedKeys
  /\ Commits([op |-> "shred_key", key |-> k], persists)
  /\ UNCHANGED answered

-----------------------------------------------------------------------------
(* record_events.                                                           *)

Recorded(o, id) == {d \in 1..Len(history) : history[d].owner = o /\ history[d].id = id}

InConversation(o, c) ==
  {d \in 1..Len(history) : history[d].owner = o /\ history[d].conversation = c}

SameFields(e, in) == e.conversation = in.conversation /\ e.sequence = in.sequence

\* With a fault: the contents are not compared.
SameMetadata(e, in) == SameFields(e, in)

\* check_resend: an encrypted event is compared by its text, which must be readable.
SameAsRecorded(e, in) ==
  SameFields(e, in) /\ ReadableWith(keys, e) /\ e.content = in.content

SameInput(a, b) == SameFields(a, b) /\ a.content = b.content

\* The inputs of a batch whose id is neither recorded nor earlier in the batch.
NewIn(o, batch) ==
  {i \in 1..Len(batch) :
     /\ Recorded(o, batch[i].id) = {}
     /\ \A j \in 1..(i - 1) : batch[j].id # batch[i].id}

\* With a fault: only recorded events are looked at.
SequenceUnrecorded(o, batch, new, i) ==
  \A d \in InConversation(o, batch[i].conversation) : history[d].sequence # batch[i].sequence

SequenceFree(o, batch, new, i) ==
  /\ \A d \in InConversation(o, batch[i].conversation) : history[d].sequence # batch[i].sequence
  /\ \A j \in new : j < i => ~ SameFields(batch[j], batch[i])

\* With a fault: every event makes or finds the source that its own visibility asks for.
OwnSource(o, batch, new, i) ==
  ScopedKey(o, batch[i].conversation, Given(batch[i].visibility))

\* The source of a new event: that of the conversation's first event, or the one
\* which the first new event of the conversation in the batch makes or finds.
SourceOf(o, batch, new, i) ==
  LET c     == batch[i].conversation
      first == CHOOSE j \in new :
                 /\ batch[j].conversation = c
                 /\ \A l \in new : batch[l].conversation = c => j <= l
  IN  IF InConversation(o, c) # {}
        THEN history[CHOOSE d \in InConversation(o, c) :
                       \A f \in InConversation(o, c) :
                         history[d].sequence <= history[f].sequence].source
        ELSE ScopedKey(o, c, Given(batch[first].visibility))

\* The visibility is compared only if the source exists before the request.
VisibilityAgrees(o, batch, new, i) ==
  LET source == SourceOf(o, batch, new, i)
  IN  \/ batch[i].visibility = "default"
      \/ \A d \in 1..Len(history) : history[d].source # source
      \/ source = ScopedKey(o, batch[i].conversation, batch[i].visibility)

Encryptable(in) == in.key \in Key => keys[in.key] # None

InputAccepted(o, batch, new, i) ==
  IF i \in new
    THEN /\ SequenceFree(o, batch, new, i)
         /\ VisibilityAgrees(o, batch, new, i)
         /\ Encryptable(batch[i])
    ELSE /\ \A d \in Recorded(o, batch[i].id) : SameAsRecorded(history[d], batch[i])
         /\ \A j \in new : batch[j].id = batch[i].id => SameInput(batch[j], batch[i])

\* One conflict refuses the whole request.
BatchAccepted(o, batch) ==
  LET new == NewIn(o, batch)
  IN  \A i \in 1..Len(batch) : InputAccepted(o, batch, new, i)

NewEvent(o, batch, i) ==
  [owner        |-> o,
   id           |-> batch[i].id,
   conversation |-> batch[i].conversation,
   sequence     |-> batch[i].sequence,
   content      |-> batch[i].content,
   source       |-> SourceOf(o, batch, NewIn(o, batch), i),
   key          |-> batch[i].key,
   material     |-> IF batch[i].key = NoKey THEN None ELSE keys[batch[i].key]]

\* The new events of a batch, in its order.
NewEvents(o, batch) ==
  LET events[i \in 0..Len(batch)] ==
        IF i = 0 THEN <<>>
          ELSE IF i \in NewIn(o, batch) THEN Append(events[i - 1], NewEvent(o, batch, i))
          ELSE events[i - 1]
  IN  events[Len(batch)]

Answered(o, batch) == answered' = answered \cup {FactOf(o, batch[i]) : i \in 1..Len(batch)}

RecordEvents(o, batch) ==
  /\ serving
  /\ BatchAccepted(o, batch)
  /\ NewIn(o, batch) # {}
  /\ Commits([op |-> "record", events |-> NewEvents(o, batch)], TRUE)
  /\ Answered(o, batch)

\* A request of nothing but resends commits nothing.
ResendEvents(o, batch) ==
  /\ serving
  /\ BatchAccepted(o, batch)
  /\ NewIn(o, batch) = {}
  /\ Answered(o, batch)
  /\ UNCHANGED <<log, memory, disk, serving, counters>>

-----------------------------------------------------------------------------
(* Stopping and opening.                                                    *)

Kill ==
  /\ serving
  /\ kills < MaxKills
  /\ kills' = kills + 1
  /\ Forgotten
  /\ UNCHANGED <<log, disk, answered, losses, failures>>

KillInCommit ==
  /\ serving
  /\ \/ \E k \in Key \ CreatedKeys : KilledInCommit([op |-> "create_key", key |-> k])
     \/ \E k \in CreatedKeys : KilledInCommit([op |-> "shred_key", key |-> k])

KillInRecord(o, batch) ==
  /\ serving
  /\ BatchAccepted(o, batch)
  /\ NewIn(o, batch) # {}
  /\ KilledInCommit([op |-> "record", events |-> NewEvents(o, batch)])

\* A power loss brings back keys.json or any version of it since the last one.
PowerLoss(ks) ==
  /\ losses < MaxPowerLosses
  /\ losses' = losses + 1
  /\ ks \in older \cup {keyFile}
  /\ keyFile' = ks
  /\ older' = {}
  /\ Forgotten
  /\ UNCHANGED <<log, generated, answered, kills, failures>>

\* KnowledgeBase::open replays the log.
Open(persists) ==
  /\ ~ serving
  /\ serving' = TRUE
  /\ Becomes(Replayed(Len(log), persists))
  /\ Counted(persists)
  /\ UNCHANGED <<log, answered, kills, losses>>

\* The process is killed after it has replayed n revisions.
KillInOpen(n) ==
  /\ ~ serving
  /\ kills < MaxKills
  /\ kills' = kills + 1
  /\ LET st == Replayed(n, TRUE)
     IN  /\ keyFile' = st.keyFile
         /\ older' = st.older
         /\ generated' = st.generated
  /\ Forgotten
  /\ UNCHANGED <<log, answered, losses, failures>>

-----------------------------------------------------------------------------
Init ==
  /\ log = <<>>
  /\ history = <<>>
  /\ index = <<>>
  /\ keys = NoKeys
  /\ shredded = {}
  /\ keyFile = NoKeys
  /\ older = {}
  /\ generated = 0
  /\ serving = FALSE
  /\ answered = {}
  /\ kills = 0
  /\ losses = 0
  /\ failures = 0

Batch == UNION {[1..n -> Input] : n \in 1..MaxBatch}

Next ==
  \/ \E o \in Owner, batch \in Batch :
       RecordEvents(o, batch) \/ ResendEvents(o, batch) \/ KillInRecord(o, batch)
  \/ \E k \in Key, persists \in BOOLEAN : CreateKey(k, persists) \/ ShredKey(k, persists)
  \/ Kill
  \/ KillInCommit
  \/ \E ks \in older \cup {keyFile} : PowerLoss(ks)
  \/ \E persists \in BOOLEAN : Open(persists)
  \/ \E n \in 1..Len(log) : KillInOpen(n)

Spec == Init /\ [][Next]_vars

-----------------------------------------------------------------------------
(* Properties.                                                              *)

\* Every variable has its type, and every event has an entry in the index.
TypeOK ==
  /\ log \in Seq(Command)
  /\ history \in Seq(Event)
  /\ index \in Seq({"text", "not_utf8", "shredded"})
  /\ Len(index) = Len(history)
  /\ keys \in KeyFile
  /\ shredded \subseteq Key
  /\ keyFile \in KeyFile
  /\ older \subseteq KeyFile
  /\ generated \in Nat
  /\ serving \in BOOLEAN
  /\ answered \subseteq Fact
  /\ kills \in 0..MaxKills
  /\ losses \in 0..MaxPowerLosses
  /\ failures \in 0..MaxFailures

\* record_events, resends, kills and replays keep the promise of the ledger: each
\* event is recorded once, under one id and one sequence number, a request adds
\* all its new events or none, and an open store shows them all in that order.
Ledger ==
  INSTANCE HistoryLedger WITH
    recorded <- LoggedEvents,
    shown    <- history

KeepsLedger == Ledger!Spec

\* A client that was answered, for the first time or to a resend, finds the event
\* in the log as it has sent it, however often it was sent and the process killed.
AnsweredIsKept ==
  LET events == LoggedEvents
  IN  \A f \in answered :
        \E d \in 1..Len(events) :
          /\ events[d].owner = f.owner
          /\ events[d].id = f.id
          /\ events[d].conversation = f.conversation
          /\ events[d].sequence = f.sequence
          /\ events[d].content = f.content

\* All events of an owner's conversation belong to one source, so that they are
\* visible to the same principals (record_events).
OneSourcePerConversation ==
  \A d, f \in 1..Len(history) :
    /\ history[d].owner = history[f].owner
    /\ history[d].conversation = history[f].conversation
    => history[d].source = history[f].source

\* The index tells the truth (history.rs): an event's text is indexed exactly if
\* it can be read, through shredding, lost keys and the replay.
IndexIsTrue ==
  \A d \in 1..Len(history) :
    /\ index[d] = "shredded" <=> ~ ReadableWith(keys, history[d])
    /\ index[d] = "text" => history[d].content \in Text

\* An event is unreadable for ever after its key was shredded, whatever version of
\* keys.json a restart finds: the replay shreds it again (KeyVault::shred).
ShreddedForGood ==
  serving =>
    \A d \in 1..Len(history) :
      history[d].key \in ShreddedKeys => ~ ReadableWith(keys, history[d])

\* Committed events stay readable until their key is shredded (KbConfig::fsync).
ReadableUnlessShredded ==
  serving =>
    \A d \in 1..Len(history) :
      history[d].key \notin ShreddedKeys => ReadableWith(keys, history[d])

\* Nothing that was encrypted with a shredded key can be decrypted with what is on
\* disk either, once the store is open again, unless keys.json could not be written
\* (crypto.rs: a shredded key makes the values in the log undecryptable).
ShreddedOffDisk ==
  serving /\ failures = 0 => \A k \in ShreddedKeys : keyFile[k] = None

\* They stay so as long as keys.json is written without failures and no power loss
\* takes it back: neither kills in a commit or in a replay nor repeated openings
\* lose a key that encrypts an event.
ReadableWhileKeysKept == losses = 0 /\ failures = 0 => ReadableUnlessShredded
=============================================================================
