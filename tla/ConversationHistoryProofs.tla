--------------------- MODULE ConversationHistoryProofs ---------------------
(***************************************************************************)
(* What holds of ConversationHistory for any owners, keys and bounds.       *)
(*                                                                         *)
(* The invariant HInv ties the four copies of what the system knows to one  *)
(* another: the memory of an open store is what the log's commands make of  *)
(* a vault (Tracks), keys.json follows the vault while it can be written,   *)
(* it holds the keys of all events that were not shredded while no power    *)
(* loss takes it back, and the log itself is consistent.  That a replay     *)
(* gives the same memory is an induction over the revisions; the index is   *)
(* true after it because a key that is generated anew has a material ahead  *)
(* of every one that an event was encrypted with.                           *)
(***************************************************************************)
EXTENDS ConversationHistory, Counting, SequenceTheorems

-----------------------------------------------------------------------------
(* The inductive invariant.                                                 *)

\* The keys that the first n commands shred.
ShreddedBy(cmds, n) == {cmds[m].key : m \in {l \in 1..n : cmds[l].op = "shred_key"}}

TrueIndex(ks, events, ix) ==
  /\ Len(ix) = Len(events)
  /\ \A d \in 1..Len(events) :
       /\ ix[d] = "shredded" <=> ~ ReadableWith(ks, events[d])
       /\ ix[d] = "text" => events[d].content \in Text

\* st is what n commands make of any vault: their events, their shredded keys without
\* material, and an index that is true for the keys of the moment.
Tracks(st, cmds, n) ==
  /\ st.history = EventsOfFirst(cmds, n)
  /\ st.shredded = ShreddedBy(cmds, n)
  /\ \A k \in st.shredded : st.keys[k] = None
  /\ TrueIndex(st.keys, st.history, st.index)

KeysUpTo(ks, g) == \A k \in Key : ks[k] <= g

MaterialsUpTo(events, g) == \A d \in 1..Len(events) : events[d].material <= g

OneSource(events) ==
  \A d, f \in 1..Len(events) :
    /\ events[d].owner = events[f].owner
    /\ events[d].conversation = events[f].conversation
    => events[d].source = events[f].source

HeldBy(ks, events, gone) ==
  \A d \in 1..Len(events) : events[d].key \notin gone => ReadableWith(ks, events[d])

\* No key is generated twice, so that a lost key never comes back as another that
\* happens to be the same.
NothingAheadOf(st) ==
  /\ KeysUpTo(st.keys, st.generated)
  /\ KeysUpTo(st.keyFile, st.generated)
  /\ \A ks \in st.older : KeysUpTo(ks, st.generated)

LogSound ==
  /\ Ledger!Consistent(LoggedEvents)
  /\ OneSource(LoggedEvents)
  /\ MaterialsUpTo(LoggedEvents, generated)

MemoryFollowsLog ==
  /\ serving => Tracks(Current, log, Len(log))
  /\ ~ serving => history = <<>> /\ index = <<>> /\ keys = NoKeys /\ shredded = {}

DiskFollowsMemory == serving /\ failures = 0 => keyFile = keys

DiskHoldsKeys == losses = 0 /\ failures = 0 => HeldBy(keyFile, LoggedEvents, ShreddedKeys)

HInv ==
  /\ TypeOK
  /\ LogSound
  /\ AnsweredIsKept
  /\ NothingAheadOf(Current)
  /\ MemoryFollowsLog
  /\ DiskFollowsMemory
  /\ DiskHoldsKeys

\* An element of a concatenation is of the one or of the other sequence.
LEMMA ConcatElements ==
  ASSUME NEW T, NEW s \in Seq(T), NEW t \in Seq(T)
  PROVE  /\ Len(s \o t) = Len(s) + Len(t)
         /\ \A d \in 1..Len(s) : d \in 1..Len(s \o t) /\ (s \o t)[d] = s[d]
         /\ \A e \in 1..Len(t) :
              Len(s) + e \in 1..Len(s \o t) /\ (s \o t)[Len(s) + e] = t[e]
         /\ \A d \in 1..Len(s \o t) :
              d \in 1..Len(s) \/ \E e \in 1..Len(t) : d = Len(s) + e
<1>1. Len(s) \in Nat /\ Len(t) \in Nat
  OBVIOUS
<1>2. /\ Len(s \o t) = Len(s) + Len(t)
      /\ \A i \in 1..(Len(s) + Len(t)) :
           (s \o t)[i] = IF i <= Len(s) THEN s[i] ELSE t[i - Len(s)]
  BY ConcatProperties
<1> DEFINE m == Len(s)
           n == Len(t)
           all == s \o t
<1> HIDE DEF m, n, all
<1>3. /\ m \in Nat /\ n \in Nat /\ Len(all) = m + n
      /\ \A i \in 1..(m + n) : all[i] = IF i <= m THEN s[i] ELSE t[i - m]
  BY <1>1, <1>2 DEF m, n, all
<1>4. \A d \in 1..m : d \in 1..Len(all) /\ all[d] = s[d]
  BY <1>3
<1>5. ASSUME NEW e \in 1..n
      PROVE  m + e \in 1..Len(all) /\ all[m + e] = t[e]
  <2>1. m + e \in 1..(m + n) /\ ~ (m + e <= m) /\ (m + e) - m = e
    BY <1>3
  <2> QED
    BY <1>3, <2>1
<1>6. ASSUME NEW d \in 1..Len(all)
      PROVE  d \in 1..m \/ \E e \in 1..n : d = m + e
  <2>1. CASE d <= m
    BY <1>3, <2>1
  <2>2. CASE ~ (d <= m)
    <3>1. d - m \in 1..n /\ d = m + (d - m)
      BY <1>3, <2>2
    <3> QED
      BY <3>1
  <2> QED
    BY <2>1, <2>2
<1> QED
  BY <1>3, <1>4, <1>5, <1>6 DEF m, n, all

-----------------------------------------------------------------------------
(* The events of the log's prefixes.                                        *)

\* A command's events are a sequence of events.
LEMMA EventsOfType ==
  ASSUME NEW cmd \in Command
  PROVE  EventsOf(cmd) \in Seq(Event)
BY DEF Command, EventsOf

\* The recursion that EventsOfFirst is defined by has a solution, one step per command.
LEMMA EventsTake ==
  ASSUME NEW cmds \in Seq(Command), NEW n \in 0..Len(cmds)
  PROVE  \E f \in [0..n -> Seq(Event)] :
           /\ f[0] = <<>>
           /\ \A m \in 1..n : f[m] = f[m - 1] \o EventsOf(cmds[m])
           /\ EventsOfFirst(cmds, n) = f[n]
<1> DEFINE next == [p \in (1..n) \X Seq(Event) |-> p[2] \o EventsOf(cmds[p[1]])]
           Body(f) == [m \in 0..n |-> IF m = 0 THEN <<>> ELSE f[m - 1] \o EventsOf(cmds[m])]
           events == CHOOSE f : f = Body(f)
<1>1. next \in [(1..n) \X Seq(Event) -> Seq(Event)]
  <2>1. ASSUME NEW p \in (1..n) \X Seq(Event)
        PROVE  p[2] \o EventsOf(cmds[p[1]]) \in Seq(Event)
    <3>1. cmds[p[1]] \in Command /\ p[2] \in Seq(Event)
      OBVIOUS
    <3> QED
      BY <3>1, EventsOfType
  <2> QED
    BY <2>1
<1>2. <<>> \in Seq(Event)
  OBVIOUS
<1>3. n \in Nat
  OBVIOUS
<1> HIDE DEF Body, events
<1>4. PICK g \in [0..n -> Seq(Event)] : Steps(g, n, <<>>, next)
  <2> DEFINE A == Seq(Event)
  <2> HIDE DEF next, A
  <2>1. next \in [(1..n) \X A -> A] /\ <<>> \in A
    BY <1>1, <1>2 DEF A
  <2>2. \E f \in [0..n -> A] : Steps(f, n, <<>>, next)
    BY <1>3, <2>1, StepsExist
  <2> QED
    BY <2>2 DEF A
<1>5. ASSUME NEW m \in 1..n
      PROVE  g[m] = g[m - 1] \o EventsOf(cmds[m])
  <2>1. g[m - 1] \in Seq(Event) /\ <<m, g[m - 1]>> \in (1..n) \X Seq(Event)
    OBVIOUS
  <2>2. g[m] = next[<<m, g[m - 1]>>]
    BY <1>4 DEF Steps
  <2> QED
    BY <2>1, <2>2
<1>6. g[0] = <<>>
  BY <1>4 DEF Steps
<1>7. ASSUME NEW f
      PROVE  Body(f)[0] = <<>> /\ \A m \in 1..n : Body(f)[m] = f[m - 1] \o EventsOf(cmds[m])
  <2>1. Body(f)[0] = <<>>
    BY <1>3 DEF Body
  <2>2. ASSUME NEW m \in 1..n
        PROVE  Body(f)[m] = f[m - 1] \o EventsOf(cmds[m])
    <3>1. m \in 0..n /\ m # 0
      OBVIOUS
    <3> QED
      BY <3>1 DEF Body
  <2> QED
    BY <2>1, <2>2
<1>8. g = Body(g)
  <2>1. Body(g) = [m \in 0..n |-> Body(g)[m]]
    BY DEF Body
  <2>2. g = [m \in 0..n |-> g[m]]
    OBVIOUS
  <2> QED
    <3>1. ASSUME NEW m \in 0..n
          PROVE  Body(g)[m] = g[m]
      <4>1. CASE m = 0
        BY <1>6, <1>7, <4>1
      <4>2. CASE m \in 1..n
        BY <1>5, <1>7, <4>2
      <4> QED
        BY <4>1, <4>2
    <3> QED
      BY <3>1, <2>1, <2>2
<1>9. events = Body(events)
  BY <1>8 DEF events
<1>10. events[0] = <<>> /\ \A m \in 1..n : events[m] = events[m - 1] \o EventsOf(cmds[m])
  BY <1>7, <1>9
<1>11. 0..n \subseteq {m \in 0..n : events[m] \in Seq(Event)}
  <2> DEFINE S == {m \in 0..n : events[m] \in Seq(Event)}
  <2>1. 0 \in S
    <3>1. events[0] = <<>> /\ 0 \in 0..n
      BY <1>3, <1>10
    <3> QED
      BY <1>2, <3>1
  <2>2. ASSUME NEW m \in 1..n, m - 1 \in S
        PROVE  m \in S
    <3>1. events[m - 1] \in Seq(Event) /\ cmds[m] \in Command
      BY <2>2
    <3>2. events[m - 1] \o EventsOf(cmds[m]) \in Seq(Event)
      BY <3>1, EventsOfType
    <3>3. events[m] = events[m - 1] \o EventsOf(cmds[m])
      BY <1>10
    <3>4. events[m] \in Seq(Event)
      BY <3>2, <3>3
    <3>5. m \in 0..n
      OBVIOUS
    <3> QED
      BY <3>4, <3>5
  <2> HIDE DEF S
  <2>3. 0..n \subseteq S
    BY <1>3, <2>1, <2>2, InductionUpTo
  <2> QED
    BY <2>3 DEF S
<1>12. events \in [0..n -> Seq(Event)]
  <2>1. events = [m \in 0..n |-> events[m]]
    <3>1. Body(events) = [m \in 0..n |-> Body(events)[m]]
      BY DEF Body
    <3> QED
      BY <1>9, <3>1
  <2> QED
    BY <1>11, <2>1
<1>13. EventsOfFirst(cmds, n) = events[n]
  BY DEF EventsOfFirst, events, Body
<1> QED
  BY <1>10, <1>12, <1>13

\* The events of the first n commands are those of the first n - 1 and of the nth.
LEMMA EventsStep ==
  ASSUME NEW cmds \in Seq(Command), NEW n \in 0..Len(cmds)
  PROVE  /\ EventsOfFirst(cmds, n) \in Seq(Event)
         /\ n = 0 => EventsOfFirst(cmds, n) = <<>>
         /\ n # 0 => EventsOfFirst(cmds, n) = EventsOfFirst(cmds, n - 1) \o EventsOf(cmds[n])
<1>1. PICK f \in [0..n -> Seq(Event)] :
        /\ f[0] = <<>>
        /\ \A m \in 1..n : f[m] = f[m - 1] \o EventsOf(cmds[m])
        /\ EventsOfFirst(cmds, n) = f[n]
  BY EventsTake
<1>2. n \in Nat /\ n \in 0..n
  OBVIOUS
<1>3. ASSUME n # 0
      PROVE  EventsOfFirst(cmds, n) = EventsOfFirst(cmds, n - 1) \o EventsOf(cmds[n])
  <2>1. n \in 1..n /\ n - 1 \in 0..Len(cmds) /\ n - 1 \in Nat
    BY <1>3
  <2>2. PICK g \in [0..(n - 1) -> Seq(Event)] :
          /\ g[0] = <<>>
          /\ \A m \in 1..(n - 1) : g[m] = g[m - 1] \o EventsOf(cmds[m])
          /\ EventsOfFirst(cmds, n - 1) = g[n - 1]
    BY <2>1, EventsTake
  <2> DEFINE S == {m \in 0..(n - 1) : f[m] = g[m]}
  <2>3. 0 \in S
    BY <1>1, <2>1, <2>2
  <2>4. ASSUME NEW m \in 1..(n - 1), m - 1 \in S
        PROVE  m \in S
    <3>1. f[m - 1] = g[m - 1]
      BY <2>4
    <3>2. f[m] = f[m - 1] \o EventsOf(cmds[m]) /\ g[m] = g[m - 1] \o EventsOf(cmds[m])
      <4>1. m \in 1..n
        BY <2>1
      <4> QED
        BY <1>1, <2>2, <4>1
    <3>3. m \in 0..(n - 1)
      OBVIOUS
    <3> QED
      BY <3>1, <3>2, <3>3
  <2> HIDE DEF S
  <2>5. n - 1 \in S
    <3>1. 0..(n - 1) \subseteq S
      BY <2>1, <2>3, <2>4, InductionUpTo
    <3> QED
      BY <2>1, <3>1
  <2> QED
    BY <1>1, <2>1, <2>2, <2>5 DEF S
<1> QED
  BY <1>1, <1>2, <1>3

\* They are the same whatever comes after.
LEMMA EventsKept ==
  ASSUME NEW cmds \in Seq(Command), NEW cmd \in Command, NEW n \in 0..Len(cmds)
  PROVE  EventsOfFirst(Append(cmds, cmd), n) = EventsOfFirst(cmds, n)
<1> DEFINE longer == Append(cmds, cmd)
           S == {m \in 0..Len(cmds) : EventsOfFirst(longer, m) = EventsOfFirst(cmds, m)}
<1>1. /\ longer \in Seq(Command)
      /\ Len(longer) = Len(cmds) + 1
      /\ \A m \in 1..Len(cmds) : longer[m] = cmds[m]
  OBVIOUS
<1>2. Len(cmds) \in Nat /\ 0..Len(cmds) \subseteq 0..Len(longer)
  BY <1>1
<1> HIDE DEF longer
<1>3. 0 \in S
  BY <1>1, <1>2, EventsStep
<1>4. ASSUME NEW m \in 1..Len(cmds), m - 1 \in S
      PROVE  m \in S
  <2>1. m \in 0..Len(cmds) /\ m \in 0..Len(longer) /\ m # 0
    BY <1>2
  <2>2. EventsOfFirst(longer, m) = EventsOfFirst(longer, m - 1) \o EventsOf(longer[m])
    BY <1>1, <2>1, EventsStep
  <2>3. EventsOfFirst(cmds, m) = EventsOfFirst(cmds, m - 1) \o EventsOf(cmds[m])
    BY <2>1, EventsStep
  <2> QED
    BY <1>1, <1>4, <2>1, <2>2, <2>3
<1> HIDE DEF S
<1>5. n \in S
  BY <1>2, <1>3, <1>4, InductionUpTo
<1> QED
  BY <1>5 DEF S, longer

\* A commit adds its events at the end.
LEMMA EventsAppend ==
  ASSUME NEW cmds \in Seq(Command), NEW cmd \in Command
  PROVE  /\ EventsOfFirst(Append(cmds, cmd), Len(cmds) + 1)
              = EventsOfFirst(cmds, Len(cmds)) \o EventsOf(cmd)
         /\ EventsOfFirst(cmds, Len(cmds)) \in Seq(Event)
<1> DEFINE longer == Append(cmds, cmd)
           n == Len(cmds) + 1
<1>1. /\ longer \in Seq(Command)
      /\ Len(longer) = n
      /\ longer[n] = cmd
      /\ n \in 0..Len(longer) /\ n # 0 /\ n - 1 = Len(cmds)
      /\ Len(cmds) \in 0..Len(cmds)
  OBVIOUS
<1> HIDE DEF longer, n
<1>2. EventsOfFirst(longer, n) = EventsOfFirst(longer, n - 1) \o EventsOf(longer[n])
  BY <1>1, EventsStep
<1>3. EventsOfFirst(longer, n - 1) = EventsOfFirst(cmds, Len(cmds))
  BY <1>1, EventsKept DEF longer
<1>4. EventsOfFirst(cmds, Len(cmds)) \in Seq(Event)
  BY <1>1, EventsStep
<1> QED
  BY <1>1, <1>2, <1>3, <1>4 DEF longer, n

-----------------------------------------------------------------------------
(* Applying a command.                                                      *)

StateRec ==
  [history   : Seq(Event),
   index     : Seq({"text", "not_utf8", "shredded"}),
   keys      : KeyFile,
   shredded  : SUBSET Key,
   keyFile   : KeyFile,
   older     : SUBSET KeyFile,
   generated : Nat]

\* A record command adds its events, with what the index says of them (HistoryStore::insert).
LEMMA AppliedRecord ==
  ASSUME NEW st \in StateRec, NEW cmd \in Command, NEW persists \in BOOLEAN,
         cmd.op = "record"
  PROVE  LET new == Applied(st, cmd, persists)
         IN  /\ new \in StateRec
             /\ new.history = st.history \o cmd.events
             /\ Len(new.index) = Len(st.index) + Len(cmd.events)
             /\ \A d \in 1..Len(st.index) : new.index[d] = st.index[d]
             /\ \A i \in 1..Len(cmd.events) :
                  new.index[Len(st.index) + i] = IndexEntry(st.keys, cmd.events[i])
             /\ new.keys = st.keys
             /\ new.shredded = st.shredded
             /\ new.keyFile = st.keyFile
             /\ new.older = st.older
             /\ new.generated = st.generated
<1> DEFINE entries == [i \in 1..Len(cmd.events) |-> IndexEntry(st.keys, cmd.events[i])]
<1>1. cmd.events \in Seq(Event)
  BY DEF Command
<1>2. Applied(st, cmd, persists) =
        [st EXCEPT !.history = st.history \o cmd.events, !.index = st.index \o entries]
  BY DEF Applied, WithEvents, StateRec
<1>3. entries \in Seq({"text", "not_utf8", "shredded"}) /\ Len(entries) = Len(cmd.events)
  BY <1>1 DEF IndexEntry
<1>4. st.history \in Seq(Event) /\ st.index \in Seq({"text", "not_utf8", "shredded"})
  BY DEF StateRec
<1>5. \A i \in 1..Len(cmd.events) : entries[i] = IndexEntry(st.keys, cmd.events[i])
  OBVIOUS
<1> DEFINE ix == st.index \o entries
<1>6. /\ ix \in Seq({"text", "not_utf8", "shredded"})
      /\ Len(ix) = Len(st.index) + Len(cmd.events)
      /\ \A d \in 1..Len(st.index) : ix[d] = st.index[d]
      /\ \A i \in 1..Len(cmd.events) : ix[Len(st.index) + i] = entries[i]
  <2> HIDE DEF entries
  <2>1. ix \in Seq({"text", "not_utf8", "shredded"}) /\ Len(ix) = Len(st.index) + Len(entries)
    BY <1>3, <1>4, ConcatProperties
  <2>2. \A d \in 1..Len(st.index) : ix[d] = st.index[d]
    BY <1>3, <1>4
  <2>3. \A i \in 1..Len(entries) : ix[Len(st.index) + i] = entries[i]
    BY <1>3, <1>4
  <2> HIDE DEF ix
  <2> QED
    BY <1>3, <2>1, <2>2, <2>3
<1>7. st.history \o cmd.events \in Seq(Event)
  BY <1>1, <1>4
<1> HIDE DEF entries, ix
<1>8. Applied(st, cmd, persists) =
        [st EXCEPT !.history = st.history \o cmd.events, !.index = ix]
  BY <1>2 DEF ix
<1> QED
  BY <1>5, <1>6, <1>7, <1>8 DEF StateRec

\* create_key leaves the state alone, or generates a key that is ahead of all others
\* (KeyVault::ensure_key).
LEMMA AppliedCreateKey ==
  ASSUME NEW st \in StateRec, NEW cmd \in Command, NEW persists \in BOOLEAN,
         cmd.op = "create_key"
  PROVE  LET new == Applied(st, cmd, persists)
         IN  /\ cmd.key \in Key
             /\ new \in StateRec
             /\ new.history = st.history
             /\ new.index = st.index
             /\ new.shredded = st.shredded
             /\ \/ new = st
                \/ /\ st.keys[cmd.key] = None
                   /\ cmd.key \notin st.shredded
                   /\ new.keys = [st.keys EXCEPT ![cmd.key] = st.generated + 1]
                   /\ new.generated = st.generated + 1
                   /\ persists => new.keyFile = new.keys
                   /\ ~ persists => new.keyFile = st.keyFile
                   /\ new.older \subseteq st.older \cup {st.keyFile}
<1>1. cmd.key \in Key
  BY DEF Command
<1>2. Applied(st, cmd, persists) = KeyEnsured(st, cmd.key, persists)
  BY DEF Applied
<1>3. CASE st.keys[cmd.key] # None \/ cmd.key \in st.shredded
  BY <1>1, <1>2, <1>3 DEF KeyEnsured, StateRec
<1>4. CASE ~ (st.keys[cmd.key] # None \/ cmd.key \in st.shredded)
  <2> DEFINE kept == [st EXCEPT !.keys[cmd.key] = st.generated + 1, !.generated = @ + 1]
  <2>a. [st.keys EXCEPT ![cmd.key] = st.generated + 1] \in KeyFile /\ st.generated + 1 \in Nat
    BY <1>1 DEF StateRec, KeyFile
  <2>b. kept = [st EXCEPT !.keys = [st.keys EXCEPT ![cmd.key] = st.generated + 1],
                          !.generated = st.generated + 1]
    BY DEF StateRec
  <2>1. /\ kept \in StateRec
        /\ kept.history = st.history
        /\ kept.index = st.index
        /\ kept.shredded = st.shredded
        /\ kept.keys = [st.keys EXCEPT ![cmd.key] = st.generated + 1]
        /\ kept.generated = st.generated + 1
        /\ kept.keyFile = st.keyFile
        /\ kept.older = st.older
    <3> HIDE DEF kept
    <3> QED
      BY <2>a, <2>b DEF StateRec
  <2>2. Applied(st, cmd, persists) = Persisted(kept, persists)
    BY <1>2, <1>4 DEF KeyEnsured
  <2> HIDE DEF kept
  <2>3. CASE persists
    <3>1. Applied(st, cmd, persists) =
            [kept EXCEPT !.keyFile = kept.keys, !.older = kept.older \cup {kept.keyFile}]
      BY <2>2, <2>3 DEF Persisted, StateRec
    <3>2. kept.keys \in KeyFile /\ kept.older \cup {kept.keyFile} \in SUBSET KeyFile
      BY <2>1 DEF StateRec
    <3> DEFINE new == Applied(st, cmd, persists)
    <3> HIDE DEF new
    <3>3. new = [kept EXCEPT !.keyFile = kept.keys, !.older = kept.older \cup {kept.keyFile}]
      BY <3>1 DEF new
    <3>4. /\ new \in StateRec
          /\ new.history = kept.history
          /\ new.index = kept.index
          /\ new.shredded = kept.shredded
          /\ new.keys = kept.keys
          /\ new.generated = kept.generated
          /\ new.keyFile = kept.keys
          /\ new.older = kept.older \cup {kept.keyFile}
      BY <2>1, <3>2, <3>3 DEF StateRec
    <3> QED
      BY <1>1, <1>4, <2>1, <2>3, <3>4 DEF new
  <2>4. CASE ~ persists
    BY <1>1, <1>4, <2>1, <2>2, <2>4 DEF Persisted, StateRec
  <2> QED
    BY <2>3, <2>4
<1> QED
  BY <1>3, <1>4

\* shred_key takes the key away and the texts out of the index (KeyVault::shred,
\* HistoryStore::shred).
LEMMA AppliedShredKey ==
  ASSUME NEW st \in StateRec, NEW cmd \in Command, NEW persists \in BOOLEAN,
         Len(st.index) = Len(st.history), cmd.op = "shred_key"
  PROVE  LET new == Applied(st, cmd, persists)
         IN  /\ cmd.key \in Key
             /\ new \in StateRec
             /\ new.history = st.history
             /\ Len(new.index) = Len(st.index)
             /\ \A d \in 1..Len(st.index) :
                  new.index[d] = IF st.history[d].key = cmd.key THEN "shredded" ELSE st.index[d]
             /\ new.shredded = st.shredded \cup {cmd.key}
             /\ new.keys = [st.keys EXCEPT ![cmd.key] = None]
             /\ new.generated = st.generated
             /\ persists => new.keyFile = new.keys
             /\ ~ persists => new.keyFile = st.keyFile
             /\ new.older \subseteq st.older \cup {st.keyFile}
<1>1. cmd.key \in Key
  BY DEF Command
<1> DEFINE removed == KeyRemoved(st, cmd.key, persists)
           ix == [d \in DOMAIN removed.index |->
                    IF removed.history[d].key = cmd.key THEN "shredded" ELSE removed.index[d]]
<1>2. Applied(st, cmd, persists) = [removed EXCEPT !.index = ix]
  BY DEF Applied, TextsRemoved
<1>3. /\ removed \in StateRec
      /\ removed.history = st.history
      /\ removed.index = st.index
      /\ removed.shredded = st.shredded \cup {cmd.key}
      /\ removed.keys = [st.keys EXCEPT ![cmd.key] = None]
      /\ removed.generated = st.generated
      /\ removed.keyFile = IF persists THEN removed.keys ELSE st.keyFile
      /\ removed.older = IF persists THEN st.older \cup {st.keyFile} ELSE st.older
  BY <1>1 DEF KeyRemoved, Persisted, StateRec, KeyFile, None
<1>4. /\ ix \in Seq({"text", "not_utf8", "shredded"})
      /\ Len(ix) = Len(st.index)
      /\ \A d \in 1..Len(st.index) :
           ix[d] = IF st.history[d].key = cmd.key THEN "shredded" ELSE st.index[d]
  <2>1. st.index \in Seq({"text", "not_utf8", "shredded"})
    BY DEF StateRec
  <2> HIDE DEF removed
  <2> QED
    BY <1>3, <2>1
<1> HIDE DEF removed, ix
<1> QED
  BY <1>1, <1>2, <1>3, <1>4 DEF StateRec

\* The keys shredded by n commands are those of n - 1 and the nth's.
LEMMA ShreddedStep ==
  ASSUME NEW cmds \in Seq(Command), NEW n \in 1..Len(cmds)
  PROVE  ShreddedBy(cmds, n) =
           ShreddedBy(cmds, n - 1) \cup
             (IF cmds[n].op = "shred_key" THEN {cmds[n].key} ELSE {})
<1>1. 1..n = 1..(n - 1) \cup {n}
  OBVIOUS
<1> QED
  BY <1>1 DEF ShreddedBy

\* They are keys.
LEMMA ShreddedType ==
  ASSUME NEW cmds \in Seq(Command), NEW n \in 0..Len(cmds)
  PROVE  ShreddedBy(cmds, n) \subseteq Key
<1>1. \A m \in 1..n : cmds[m] \in Command
  OBVIOUS
<1> QED
  BY <1>1 DEF ShreddedBy, Command

\* They are the same whatever comes after.
LEMMA ShreddedKept ==
  ASSUME NEW cmds \in Seq(Command), NEW cmd \in Command, NEW n \in 0..Len(cmds)
  PROVE  ShreddedBy(Append(cmds, cmd), n) = ShreddedBy(cmds, n)
<1>1. \A m \in 1..n : Append(cmds, cmd)[m] = cmds[m]
  OBVIOUS
<1> QED
  BY <1>1 DEF ShreddedBy

\* Applying the nth command to what the first n - 1 make gives what the first n make.
LEMMA AppliedTracks ==
  ASSUME NEW st \in StateRec, NEW cmds \in Seq(Command), NEW n \in 1..Len(cmds),
         NEW persists \in BOOLEAN,
         Tracks(st, cmds, n - 1), MaterialsUpTo(st.history, st.generated)
  PROVE  Tracks(Applied(st, cmds[n], persists), cmds, n)
<1> DEFINE cmd == cmds[n]
           new == Applied(st, cmd, persists)
<1>1. cmd \in Command /\ n \in 0..Len(cmds) /\ n # 0
  OBVIOUS
<1>2. /\ st.history = EventsOfFirst(cmds, n - 1)
      /\ st.shredded = ShreddedBy(cmds, n - 1)
      /\ \A k \in st.shredded : st.keys[k] = None
      /\ Len(st.index) = Len(st.history)
      /\ \A d \in 1..Len(st.history) :
           /\ st.index[d] = "shredded" <=> ~ ReadableWith(st.keys, st.history[d])
           /\ st.index[d] = "text" => st.history[d].content \in Text
  BY DEF Tracks, TrueIndex
<1>3. /\ st.history \in Seq(Event)
      /\ st.index \in Seq({"text", "not_utf8", "shredded"})
      /\ st.keys \in KeyFile
      /\ st.generated \in Nat
      /\ st.shredded \subseteq Key
  BY DEF StateRec
<1>4. EventsOfFirst(cmds, n) = st.history \o EventsOf(cmd)
  BY <1>1, <1>2, EventsStep
<1>5. ShreddedBy(cmds, n) =
        st.shredded \cup (IF cmd.op = "shred_key" THEN {cmd.key} ELSE {})
  BY <1>2, ShreddedStep
<1> HIDE DEF cmd
<1>6. CASE cmd.op = "record"
  <2>1. /\ new.history = st.history \o cmd.events
        /\ Len(new.index) = Len(st.index) + Len(cmd.events)
        /\ \A d \in 1..Len(st.index) : new.index[d] = st.index[d]
        /\ \A i \in 1..Len(cmd.events) :
             new.index[Len(st.index) + i] = IndexEntry(st.keys, cmd.events[i])
        /\ new.keys = st.keys
        /\ new.shredded = st.shredded
    BY <1>1, <1>6, AppliedRecord
  <2> HIDE DEF new
  <2>2. cmd.events \in Seq(Event) /\ EventsOf(cmd) = cmd.events
    BY <1>1, <1>6 DEF Command, EventsOf
  <2>3. Len(new.history) = Len(st.history) + Len(cmd.events)
    BY <1>3, <2>1, <2>2
  <2>4. ASSUME NEW d \in 1..Len(new.history)
        PROVE  /\ new.index[d] = "shredded" <=> ~ ReadableWith(new.keys, new.history[d])
               /\ new.index[d] = "text" => new.history[d].content \in Text
    <3>1. CASE d \in 1..Len(st.history)
      <4>1. new.history[d] = st.history[d] /\ new.index[d] = st.index[d]
        BY <1>2, <1>3, <2>1, <2>2, <3>1
      <4> QED
        BY <1>2, <2>1, <3>1, <4>1
    <3>2. CASE ~ (d \in 1..Len(st.history))
      <4> DEFINE i == d - Len(st.history)
      <4>1. i \in 1..Len(cmd.events) /\ d = Len(st.index) + i
        <5>1. Len(st.history) \in Nat /\ Len(cmd.events) \in Nat
          BY <1>3, <2>2
        <5>2. d \in 1..(Len(st.history) + Len(cmd.events))
          BY <2>3
        <5>3. Len(st.index) = Len(st.history)
          BY <1>2
        <5>4. d > Len(st.history)
          BY <3>2, <5>1, <5>2
        <5>5. i \in 1..Len(cmd.events)
          <6>1. \A a, b \in Nat : \A x \in 1..(a + b) : x > a => x - a \in 1..b
            OBVIOUS
          <6> QED
            BY <5>1, <5>2, <5>4, <6>1
        <5>6. d = Len(st.history) + i
          BY <5>1, <5>2
        <5> QED
          BY <5>3, <5>5, <5>6
      <4>2. new.history[d] = cmd.events[i]
        BY <1>3, <2>1, <2>2, <4>1
      <4>3. new.index[d] = IndexEntry(st.keys, cmd.events[i])
        BY <2>1, <4>1
      <4> QED
        BY <2>1, <4>2, <4>3 DEF IndexEntry
    <3> QED
      BY <3>1, <3>2
  <2>5. ShreddedBy(cmds, n) = st.shredded
    BY <1>5, <1>6
  <2>6. TrueIndex(new.keys, new.history, new.index)
    BY <1>2, <2>1, <2>3, <2>4 DEF TrueIndex
  <2>7. \A k \in new.shredded : new.keys[k] = None
    BY <1>2, <2>1
  <2> QED
    BY <1>4, <2>1, <2>2, <2>5, <2>6, <2>7 DEF Tracks, new, cmd
<1>7. CASE cmd.op = "create_key"
  <2>1. /\ cmd.key \in Key
        /\ new.history = st.history
        /\ new.index = st.index
        /\ new.shredded = st.shredded
        /\ \/ new = st
           \/ /\ st.keys[cmd.key] = None
              /\ cmd.key \notin st.shredded
              /\ new.keys = [st.keys EXCEPT ![cmd.key] = st.generated + 1]
    BY <1>1, <1>7, AppliedCreateKey
  <2> HIDE DEF new
  <2>2. EventsOf(cmd) = <<>>
    BY <1>7 DEF EventsOf
  <2>3. EventsOfFirst(cmds, n) = st.history
    BY <1>3, <1>4, <2>2, ConcatEmptySeq
  <2>4. \A k \in new.shredded : new.keys[k] = None
    BY <1>2, <1>3, <2>1 DEF KeyFile
  <2>5. ASSUME NEW d \in 1..Len(st.history)
        PROVE  ReadableWith(new.keys, st.history[d]) <=> ReadableWith(st.keys, st.history[d])
    <3>1. CASE new = st
      BY <3>1
    <3>2. CASE new # st
      <4>1. st.history[d] \in Event
        BY <1>3
      <4>2. st.history[d].material \in Nat /\ st.history[d].material <= st.generated
        BY <4>1 DEF MaterialsUpTo, Event
      <4>3. new.keys = [st.keys EXCEPT ![cmd.key] = st.generated + 1]
        BY <2>1, <3>2
      <4> DEFINE e == st.history[d]
      <4>4. CASE e.key = cmd.key
        <5>1. new.keys[e.key] = st.generated + 1 /\ st.keys[e.key] = None
          BY <1>3, <2>1, <3>2, <4>3, <4>4 DEF KeyFile
        <5>2. st.generated + 1 # e.material
          BY <1>3, <4>2
        <5> QED
          BY <2>1, <4>4, <5>1, <5>2 DEF ReadableWith
      <4>5. CASE e.key # cmd.key
        BY <1>3, <4>3, <4>5 DEF ReadableWith, KeyFile
      <4> QED
        BY <4>4, <4>5
    <3> QED
      BY <3>1, <3>2
  <2>6. ShreddedBy(cmds, n) = st.shredded
    BY <1>5, <1>7
  <2> HIDE DEF new
  <2>7. TrueIndex(new.keys, new.history, new.index)
    BY <1>2, <2>1, <2>5 DEF TrueIndex
  <2> QED
    BY <2>1, <2>3, <2>4, <2>6, <2>7 DEF Tracks, new, cmd
<1>8. CASE cmd.op = "shred_key"
  <2>1. /\ cmd.key \in Key
        /\ new.history = st.history
        /\ Len(new.index) = Len(st.index)
        /\ \A d \in 1..Len(st.index) :
             new.index[d] = IF st.history[d].key = cmd.key THEN "shredded" ELSE st.index[d]
        /\ new.shredded = st.shredded \cup {cmd.key}
        /\ new.keys = [st.keys EXCEPT ![cmd.key] = None]
    BY <1>1, <1>2, <1>8, AppliedShredKey
  <2> HIDE DEF new
  <2>2. EventsOf(cmd) = <<>>
    BY <1>8 DEF EventsOf
  <2>3. EventsOfFirst(cmds, n) = st.history
    BY <1>3, <1>4, <2>2, ConcatEmptySeq
  <2>4. \A k \in new.shredded : new.keys[k] = None
    BY <1>2, <1>3, <2>1 DEF KeyFile
  <2>5. ASSUME NEW d \in 1..Len(st.history)
        PROVE  /\ new.index[d] = "shredded" <=> ~ ReadableWith(new.keys, st.history[d])
               /\ new.index[d] = "text" => st.history[d].content \in Text
    <3>1. CASE st.history[d].key = cmd.key
      <4>1. new.index[d] = "shredded" /\ new.keys[cmd.key] = None
        BY <1>2, <1>3, <2>1, <3>1 DEF KeyFile
      <4> QED
        BY <2>1, <3>1, <4>1 DEF ReadableWith
    <3>2. CASE st.history[d].key # cmd.key
      <4>1. new.index[d] = st.index[d]
        BY <1>2, <2>1, <3>2
      <4>2. ReadableWith(new.keys, st.history[d]) <=> ReadableWith(st.keys, st.history[d])
        BY <1>3, <2>1, <3>2 DEF ReadableWith, KeyFile
      <4> QED
        BY <1>2, <4>1, <4>2
    <3> QED
      BY <3>1, <3>2
  <2>6. ShreddedBy(cmds, n) = st.shredded \cup {cmd.key}
    BY <1>5, <1>8
  <2>7. TrueIndex(new.keys, new.history, new.index)
    BY <1>2, <2>1, <2>5 DEF TrueIndex
  <2> QED
    BY <2>1, <2>3, <2>4, <2>6, <2>7 DEF Tracks, new, cmd
<1>9. cmd.op \in {"record", "create_key", "shred_key"}
  BY <1>1 DEF Command
<1> QED
  BY <1>6, <1>7, <1>8, <1>9 DEF cmd

\* Key materials are never ahead of the counter, which never goes back.
LEMMA AppliedUpTo ==
  ASSUME NEW st \in StateRec, NEW cmd \in Command, NEW persists \in BOOLEAN,
         Len(st.index) = Len(st.history), NothingAheadOf(st)
  PROVE  LET new == Applied(st, cmd, persists)
         IN  /\ new \in StateRec
             /\ NothingAheadOf(new)
             /\ st.generated <= new.generated
<1> DEFINE new == Applied(st, cmd, persists)
<1>1. /\ KeysUpTo(st.keys, st.generated)
      /\ KeysUpTo(st.keyFile, st.generated)
      /\ \A ks \in st.older : KeysUpTo(ks, st.generated)
  BY DEF NothingAheadOf
<1>2. st.keys \in KeyFile /\ st.keyFile \in KeyFile /\ st.older \subseteq KeyFile /\ st.generated \in Nat
  BY DEF StateRec
<1>3. CASE cmd.op = "record"
  <2>1. /\ new \in StateRec
        /\ new.keys = st.keys
        /\ new.keyFile = st.keyFile
        /\ new.older = st.older
        /\ new.generated = st.generated
    BY <1>3, AppliedRecord
  <2> HIDE DEF new
  <2> QED
    BY <1>1, <1>2, <2>1 DEF NothingAheadOf, new
<1>4. CASE cmd.op = "create_key"
  <2>1. /\ cmd.key \in Key
        /\ new \in StateRec
        /\ \/ new = st
           \/ /\ new.keys = [st.keys EXCEPT ![cmd.key] = st.generated + 1]
              /\ new.generated = st.generated + 1
              /\ persists => new.keyFile = new.keys
              /\ ~ persists => new.keyFile = st.keyFile
              /\ new.older \subseteq st.older \cup {st.keyFile}
    BY <1>4, AppliedCreateKey
  <2> HIDE DEF new
  <2>2. CASE new = st
    BY <1>1, <1>2, <2>1, <2>2 DEF NothingAheadOf, new
  <2>3. CASE new # st
    <3>1. \A ks \in KeyFile : KeysUpTo(ks, st.generated) => KeysUpTo(ks, st.generated + 1)
      BY <1>2 DEF KeysUpTo, KeyFile
    <3>2. KeysUpTo([st.keys EXCEPT ![cmd.key] = st.generated + 1], st.generated + 1)
      BY <1>1, <1>2 DEF KeysUpTo, KeyFile
    <3>3. \A ks \in new.older : ks = st.keyFile \/ ks \in st.older
      BY <2>1, <2>3
    <3>4. st.generated <= st.generated + 1
      BY <1>2
    <3> QED
      BY <1>1, <1>2, <2>1, <2>3, <3>1, <3>2, <3>3, <3>4 DEF NothingAheadOf, new
  <2> QED
    BY <2>2, <2>3
<1>5. CASE cmd.op = "shred_key"
  <2>1. /\ cmd.key \in Key
        /\ new \in StateRec
        /\ new.keys = [st.keys EXCEPT ![cmd.key] = None]
        /\ new.generated = st.generated
        /\ persists => new.keyFile = new.keys
        /\ ~ persists => new.keyFile = st.keyFile
        /\ new.older \subseteq st.older \cup {st.keyFile}
    BY <1>5, AppliedShredKey
  <2> HIDE DEF new
  <2>2. KeysUpTo([st.keys EXCEPT ![cmd.key] = None], st.generated)
    BY <1>1, <1>2 DEF KeysUpTo, KeyFile, None
  <2>3. \A ks \in new.older : ks = st.keyFile \/ ks \in st.older
    BY <2>1
  <2> QED
    BY <1>1, <1>2, <2>1, <2>2, <2>3 DEF NothingAheadOf, new
<1>6. cmd.op \in {"record", "create_key", "shred_key"}
  BY DEF Command
<1> QED
  BY <1>3, <1>4, <1>5, <1>6

\* A key is lost only by being shredded, and keys.json follows the vault if it can.
LEMMA AppliedKeepsKeys ==
  ASSUME NEW st \in StateRec, NEW cmd \in Command, NEW persists \in BOOLEAN,
         Len(st.index) = Len(st.history)
  PROVE  LET new == Applied(st, cmd, persists)
         IN  /\ \A k \in Key :
                  st.keys[k] # None /\ ~ (cmd.op = "shred_key" /\ cmd.key = k)
                    => new.keys[k] = st.keys[k]
             /\ persists /\ st.keyFile = st.keys => new.keyFile = new.keys
<1> DEFINE new == Applied(st, cmd, persists)
<1>1. st.keys \in KeyFile
  BY DEF StateRec
<1>2. CASE cmd.op = "record"
  BY <1>2, AppliedRecord
<1>3. CASE cmd.op = "create_key"
  <2>1. /\ cmd.key \in Key
        /\ \/ new = st
           \/ /\ st.keys[cmd.key] = None
              /\ new.keys = [st.keys EXCEPT ![cmd.key] = st.generated + 1]
              /\ persists => new.keyFile = new.keys
    BY <1>3, AppliedCreateKey
  <2> HIDE DEF new
  <2> QED
    BY <1>1, <2>1 DEF KeyFile, new
<1>4. CASE cmd.op = "shred_key"
  <2>1. /\ new.keys = [st.keys EXCEPT ![cmd.key] = None]
        /\ persists => new.keyFile = new.keys
    BY <1>4, AppliedShredKey
  <2> HIDE DEF new
  <2> QED
    BY <1>1, <1>4, <2>1 DEF KeyFile, new
<1>5. cmd.op \in {"record", "create_key", "shred_key"}
  BY DEF Command
<1> QED
  BY <1>2, <1>3, <1>4, <1>5

\* What the first commands recorded stays at the front.
LEMMA EventsPrefix ==
  ASSUME NEW cmds \in Seq(Command), NEW n \in 0..Len(cmds), NEW m \in 0..n
  PROVE  /\ Len(EventsOfFirst(cmds, m)) <= Len(EventsOfFirst(cmds, n))
         /\ \A d \in 1..Len(EventsOfFirst(cmds, m)) :
              EventsOfFirst(cmds, n)[d] = EventsOfFirst(cmds, m)[d]
<1> DEFINE Front(a, b) ==
             /\ Len(EventsOfFirst(cmds, a)) <= Len(EventsOfFirst(cmds, b))
             /\ \A d \in 1..Len(EventsOfFirst(cmds, a)) :
                  EventsOfFirst(cmds, b)[d] = EventsOfFirst(cmds, a)[d]
           S == {b \in 0..Len(cmds) : \A a \in 0..b : Front(a, b)}
<1>1. ASSUME NEW a \in 0..Len(cmds)
      PROVE  Front(a, a)
  BY EventsStep
<1>2. 0 \in S
  <2>1. 0 \in 0..Len(cmds) /\ 0..0 = {0}
    OBVIOUS
  <2> HIDE DEF Front
  <2> QED
    BY <1>1, <2>1
<1>3. ASSUME NEW b \in 1..Len(cmds), b - 1 \in S
      PROVE  b \in S
  <2>1. b \in 0..Len(cmds) /\ b # 0 /\ b - 1 \in 0..Len(cmds)
    OBVIOUS
  <2>2. \A a \in 0..(b - 1) : Front(a, b - 1)
    BY <1>3
  <2>3. /\ EventsOfFirst(cmds, b) = EventsOfFirst(cmds, b - 1) \o EventsOf(cmds[b])
        /\ EventsOfFirst(cmds, b - 1) \in Seq(Event)
        /\ EventsOf(cmds[b]) \in Seq(Event)
    <3>1. cmds[b] \in Command
      OBVIOUS
    <3>2. EventsOf(cmds[b]) \in Seq(Event)
      BY <3>1, EventsOfType
    <3>3. EventsOfFirst(cmds, b) = EventsOfFirst(cmds, b - 1) \o EventsOf(cmds[b])
      BY <2>1, EventsStep
    <3>4. EventsOfFirst(cmds, b - 1) \in Seq(Event)
      BY <2>1, EventsStep
    <3> QED
      BY <3>2, <3>3, <3>4
  <2>4. Front(b - 1, b)
    BY <2>3, ConcatProperties
  <2>5. ASSUME NEW a \in 0..(b - 1)
        PROVE  Front(a, b)
    <3>1. Front(a, b - 1)
      BY <2>2
    <3>2. a \in 0..Len(cmds)
      OBVIOUS
    <3>3. EventsOfFirst(cmds, a) \in Seq(Event) /\ EventsOfFirst(cmds, b) \in Seq(Event)
      BY <2>1, <3>2, EventsStep
    <3> QED
      BY <2>3, <2>4, <3>1, <3>3
  <2>6. \A a \in 0..b : a = b \/ a \in 0..(b - 1)
    OBVIOUS
  <2> HIDE DEF Front
  <2> QED
    BY <1>1, <2>1, <2>5, <2>6
<1> HIDE DEF S, Front
<1>4. n \in S
  <2>1. Len(cmds) \in Nat
    OBVIOUS
  <2>2. 0..Len(cmds) \subseteq S
    BY <1>2, <1>3, <2>1, InductionUpTo
  <2> QED
    BY <2>2
<1> QED
  BY <1>4 DEF S, Front

-----------------------------------------------------------------------------
(* The replay.                                                              *)

Matched == {st \in StateRec : Len(st.index) = Len(st.history)}

\* The index has an entry for each event, always.
LEMMA AppliedMatched ==
  ASSUME NEW st \in StateRec, NEW cmd \in Command, NEW persists \in BOOLEAN,
         Len(st.index) = Len(st.history)
  PROVE  Applied(st, cmd, persists) \in Matched
<1> DEFINE new == Applied(st, cmd, persists)
<1>1. st \in StateRec /\ Len(st.index) = Len(st.history)
  OBVIOUS
<1>2. CASE cmd.op = "record"
  <2>1. /\ new \in StateRec
        /\ new.history = st.history \o cmd.events
        /\ Len(new.index) = Len(st.index) + Len(cmd.events)
    BY <1>1, <1>2, AppliedRecord
  <2>2. st.history \in Seq(Event) /\ cmd.events \in Seq(Event)
    BY <1>1, <1>2 DEF StateRec, Command
  <2>3. Len(new.history) = Len(st.history) + Len(cmd.events)
    BY <2>1, <2>2, ConcatProperties
  <2> HIDE DEF new
  <2> QED
    BY <1>1, <2>1, <2>3 DEF Matched, new
<1>3. CASE cmd.op = "create_key"
  <2>1. /\ new \in StateRec
        /\ new.history = st.history
        /\ new.index = st.index
    BY <1>1, <1>3, AppliedCreateKey
  <2> HIDE DEF new
  <2> QED
    BY <1>1, <2>1 DEF Matched, new
<1>4. CASE cmd.op = "shred_key"
  <2>1. /\ new \in StateRec
        /\ new.history = st.history
        /\ Len(new.index) = Len(st.index)
    <3>1. /\ cmd.key \in Key
          /\ new \in StateRec
          /\ new.history = st.history
          /\ Len(new.index) = Len(st.index)
          /\ new.shredded = st.shredded \cup {cmd.key}
          /\ new.keys = [st.keys EXCEPT ![cmd.key] = None]
          /\ new.generated = st.generated
          /\ persists => new.keyFile = new.keys
          /\ ~ persists => new.keyFile = st.keyFile
          /\ new.older \subseteq st.older \cup {st.keyFile}
      BY <1>1, <1>4, AppliedShredKey
    <3> QED
      BY <3>1
  <2> HIDE DEF new
  <2> QED
    BY <1>1, <2>1 DEF Matched, new
<1>5. cmd.op \in {"record", "create_key", "shred_key"}
  BY DEF Command
<1> QED
  BY <1>2, <1>3, <1>4, <1>5

\* Replaying n revisions takes n steps from the vault as it is on disk.
LEMMA ReplayTake ==
  ASSUME log \in Seq(Command), Opened \in Matched, NEW n \in 0..Len(log),
         NEW persists \in BOOLEAN
  PROVE  \E f :
           /\ f[0] = Opened
           /\ \A m \in 1..n : f[m] = Applied(f[m - 1], log[m], persists)
           /\ Replayed(n, persists) = f[n]
<1> DEFINE next == [p \in (1..n) \X Matched |-> Applied(p[2], log[p[1]], persists)]
           Body(f) == [m \in 0..n |-> IF m = 0 THEN Opened
                                        ELSE Applied(f[m - 1], log[m], persists)]
           state == CHOOSE f : f = Body(f)
<1>1. next \in [(1..n) \X Matched -> Matched]
  <2>1. ASSUME NEW p \in (1..n) \X Matched
        PROVE  Applied(p[2], log[p[1]], persists) \in Matched
    <3>1. log[p[1]] \in Command /\ p[2] \in Matched
      OBVIOUS
    <3>2. p[2] \in StateRec /\ Len(p[2].index) = Len(p[2].history)
      BY <3>1 DEF Matched
    <3> QED
      BY <3>1, <3>2, AppliedMatched
  <2> QED
    BY <2>1
<1>2. n \in Nat
  OBVIOUS
<1> HIDE DEF Body, state
<1>3. PICK g \in [0..n -> Matched] : Steps(g, n, Opened, next)
  <2> HIDE DEF next
  <2> QED
    BY <1>1, <1>2, StepsExist
<1>4. ASSUME NEW m \in 1..n
      PROVE  g[m] = Applied(g[m - 1], log[m], persists)
  <2>1. <<m, g[m - 1]>> \in (1..n) \X Matched
    OBVIOUS
  <2>2. g[m] = next[<<m, g[m - 1]>>]
    BY <1>3 DEF Steps
  <2> QED
    BY <2>1, <2>2
<1>5. g[0] = Opened
  BY <1>3 DEF Steps
<1>6. ASSUME NEW f
      PROVE  /\ Body(f)[0] = Opened
             /\ \A m \in 1..n : Body(f)[m] = Applied(f[m - 1], log[m], persists)
  <2>1. Body(f)[0] = Opened
    BY <1>2 DEF Body
  <2>2. ASSUME NEW m \in 1..n
        PROVE  Body(f)[m] = Applied(f[m - 1], log[m], persists)
    <3>1. m \in 0..n /\ m # 0
      OBVIOUS
    <3> QED
      BY <3>1 DEF Body
  <2> QED
    BY <2>1, <2>2
<1>7. g = Body(g)
  <2>1. Body(g) = [m \in 0..n |-> Body(g)[m]]
    BY DEF Body
  <2>2. g = [m \in 0..n |-> g[m]]
    OBVIOUS
  <2>3. ASSUME NEW m \in 0..n
        PROVE  Body(g)[m] = g[m]
    <3>1. CASE m = 0
      BY <1>5, <1>6, <3>1
    <3>2. CASE m \in 1..n
      BY <1>4, <1>6, <3>2
    <3> QED
      BY <3>1, <3>2
  <2> QED
    BY <2>1, <2>2, <2>3
<1>8. state = Body(state)
  BY <1>7 DEF state
<1>9. Replayed(n, persists) = state[n]
  BY DEF Replayed, state, Body
<1> QED
  BY <1>6, <1>8, <1>9

\* What the replay of n revisions makes of a sound log and the vault on disk.
LEMMA ReplayTracks ==
  ASSUME TypeOK, MaterialsUpTo(LoggedEvents, generated), NothingAheadOf(Current),
         NEW n \in 0..Len(log), NEW persists \in BOOLEAN
  PROVE  LET st == Replayed(n, persists)
         IN  /\ st \in Matched
             /\ Tracks(st, log, n)
             /\ NothingAheadOf(st)
             /\ generated <= st.generated
             /\ persists => st.keyFile = st.keys
             /\ \A k \in Key :
                  keyFile[k] # None /\ k \notin ShreddedBy(log, n) => st.keys[k] = keyFile[k]
<1>1. /\ log \in Seq(Command)
      /\ keyFile \in KeyFile
      /\ older \subseteq KeyFile
      /\ generated \in Nat
      /\ Len(log) \in Nat
  BY DEF TypeOK
<1>2. Current \in StateRec
  BY DEF TypeOK, StateRec, Current
<1>3. /\ Opened.history = <<>>
      /\ Opened.index = <<>>
      /\ Opened.keys = keyFile
      /\ Opened.shredded = {}
      /\ Opened.keyFile = keyFile
      /\ Opened.older = older
      /\ Opened.generated = generated
      /\ Opened \in StateRec
  <2>1. <<>> \in Seq(Event) /\ <<>> \in Seq({"text", "not_utf8", "shredded"})
    OBVIOUS
  <2> QED
    BY <1>1, <2>1 DEF Opened, StateRec
<1>4. Opened \in Matched
  BY <1>3 DEF Matched
<1>5. PICK f :
        /\ f[0] = Opened
        /\ \A m \in 1..n : f[m] = Applied(f[m - 1], log[m], persists)
        /\ Replayed(n, persists) = f[n]
  BY <1>1, <1>4, ReplayTake
<1> DEFINE Good(st, m) ==
             /\ st \in Matched
             /\ Tracks(st, log, m)
             /\ NothingAheadOf(st)
             /\ generated <= st.generated
             /\ persists => st.keyFile = st.keys
             /\ \A k \in Key :
                  keyFile[k] # None /\ k \notin ShreddedBy(log, m) => st.keys[k] = keyFile[k]
           S == {m \in 0..n : Good(f[m], m)}
<1>6. 0 \in S
  <2>1. Tracks(Opened, log, 0)
    <3>1. EventsOfFirst(log, 0) = <<>>
      BY <1>1, EventsStep
    <3>2. ShreddedBy(log, 0) = {}
      BY DEF ShreddedBy
    <3>3. TrueIndex(Opened.keys, Opened.history, Opened.index)
      BY <1>3 DEF TrueIndex
    <3> QED
      BY <1>3, <3>1, <3>2, <3>3 DEF Tracks
  <2>2. NothingAheadOf(Opened)
    BY <1>3 DEF NothingAheadOf, Current
  <2>3. 0 \in 0..n
    OBVIOUS
  <2>4. Good(Opened, 0)
    BY <1>1, <1>3, <1>4, <2>1, <2>2
  <2> HIDE DEF Good
  <2> QED
    BY <1>5, <2>3, <2>4
<1>7. ASSUME NEW m \in 1..n, m - 1 \in S
      PROVE  m \in S
  <2> DEFINE st == f[m - 1]
             new == Applied(st, log[m], persists)
  <2>1. Good(st, m - 1)
    BY <1>7
  <2>2. /\ st \in StateRec
        /\ Len(st.index) = Len(st.history)
        /\ st.generated \in Nat
    BY <2>1 DEF Matched, StateRec
  <2>3. m \in 1..Len(log) /\ log[m] \in Command /\ m - 1 \in 0..Len(log)
    BY <1>1
  <2>4. MaterialsUpTo(st.history, st.generated)
    <3>1. st.history = EventsOfFirst(log, m - 1)
      BY <2>1 DEF Tracks
    <3>2. /\ LoggedEvents = EventsOfFirst(log, Len(log))
          /\ Len(log) \in 0..Len(log)
          /\ m - 1 \in 0..Len(log)
      BY <1>1, <2>3 DEF LoggedEvents
    <3>3. LoggedEvents \in Seq(Event) /\ st.history \in Seq(Event)
      BY <1>1, <3>1, <3>2, EventsStep
    <3>4. /\ Len(st.history) <= Len(LoggedEvents)
          /\ \A d \in 1..Len(st.history) : LoggedEvents[d] = st.history[d]
      BY <1>1, <3>1, <3>2, EventsPrefix
    <3>5. ASSUME NEW d \in 1..Len(st.history)
          PROVE  st.history[d].material <= st.generated
      <4>1. d \in 1..Len(LoggedEvents) /\ st.history[d] \in Event
        BY <3>3, <3>4
      <4>2. st.history[d].material <= generated /\ st.history[d].material \in Nat
        BY <3>4, <4>1 DEF MaterialsUpTo, Event
      <4> QED
        BY <1>1, <2>1, <2>2, <4>2
    <3> QED
      BY <3>5 DEF MaterialsUpTo
  <2>5. Tracks(new, log, m)
    BY <1>1, <2>1, <2>2, <2>3, <2>4, AppliedTracks
  <2>6. NothingAheadOf(new) /\ st.generated <= new.generated /\ new \in StateRec
    BY <2>1, <2>2, <2>3, AppliedUpTo
  <2>7. /\ \A k \in Key :
             st.keys[k] # None /\ ~ (log[m].op = "shred_key" /\ log[m].key = k)
               => new.keys[k] = st.keys[k]
        /\ persists /\ st.keyFile = st.keys => new.keyFile = new.keys
    BY <2>2, <2>3, AppliedKeepsKeys
  <2>8. new \in Matched
    BY <2>2, <2>3, AppliedMatched
  <2> HIDE DEF new
  <2>9. generated <= new.generated
    <3>1. new.generated \in Nat
      BY <2>6 DEF StateRec
    <3> QED
      BY <1>1, <2>1, <2>2, <2>6, <3>1
  <2>10. \A k \in Key :
           keyFile[k] # None /\ k \notin ShreddedBy(log, m) => new.keys[k] = keyFile[k]
    BY <1>1, <2>1, <2>3, <2>7, ShreddedStep
  <2>11. Good(new, m)
    BY <2>1, <2>5, <2>6, <2>7, <2>8, <2>9, <2>10
  <2>12. f[m] = new /\ m \in 0..n
    BY <1>5 DEF new
  <2> HIDE DEF Good
  <2> QED
    BY <2>11, <2>12
<1> HIDE DEF S, Good
<1>8. n \in S
  <2>1. n \in Nat
    OBVIOUS
  <2>2. 0..n \subseteq S
    BY <1>6, <1>7, <2>1, InductionUpTo
  <2> QED
    BY <2>1, <2>2
<1> QED
  BY <1>5, <1>8 DEF S, Good

-----------------------------------------------------------------------------
(* The new events of a request.                                             *)

\* A batch is a sequence of inputs.
LEMMA BatchType ==
  ASSUME MaxBatch \in Nat, NEW batch \in Batch
  PROVE  batch \in Seq(Input) /\ Len(batch) \in Nat
<1>1. PICK n \in 1..MaxBatch : batch \in [1..n -> Input]
  BY DEF Batch
<1>2. n \in Nat
  OBVIOUS
<1> QED
  BY <1>1, <1>2

\* The source of a new event is one: the conversation has an event of least sequence
\* number, or the batch a first new event of the conversation.
LEMMA SourceType ==
  ASSUME HistoryAssumption, TypeOK, NEW o \in Owner, NEW batch \in Seq(Input),
         NEW new \in SUBSET (1..Len(batch)), NEW i \in new
  PROVE  SourceOf(o, batch, new, i) \in Source
<1> DEFINE c == batch[i].conversation
           mine == InConversation(o, c)
<1>1. c \in Conversation
  <2>1. batch[i] \in Input
    OBVIOUS
  <2> QED
    BY <2>1 DEF Input
<1>2. /\ history \in Seq(Event)
      /\ mine \subseteq 1..Len(history)
      /\ \A d \in 1..Len(history) : history[d] \in Event
  BY DEF TypeOK, InConversation
<1> HIDE DEF mine
<1>3. CASE mine # {}
  <2> DEFINE least(d) == \A f \in mine : history[d].sequence <= history[f].sequence
             d0 == CHOOSE d \in mine : least(d)
             sequences == {history[d].sequence : d \in mine}
  <2>1. sequences \subseteq Nat /\ sequences # {}
    <3>1. \A d \in mine : history[d].sequence \in Nat
      BY <1>2 DEF HistoryAssumption, Event
    <3> QED
      BY <1>3, <3>1
  <2>2. \E x \in sequences : \A y \in sequences : x <= y
    <3> HIDE DEF sequences
    <3> QED
      BY <2>1, LeastExists
  <2>3. \E d \in mine : least(d)
    BY <2>2
  <2>4. d0 \in mine
    <3> HIDE DEF least
    <3> QED
      BY <2>3
  <2>5. SourceOf(o, batch, new, i) = history[d0].source
    BY <1>3 DEF SourceOf, mine
  <2> QED
    BY <1>2, <2>4, <2>5 DEF Event
<1>4. CASE mine = {}
  <2> DEFINE same == {j \in new : batch[j].conversation = c}
             least(j) == /\ batch[j].conversation = c
                         /\ \A l \in new : batch[l].conversation = c => j <= l
             first == CHOOSE j \in new : least(j)
  <2>1. same \subseteq Nat /\ same # {}
    <3>1. i \in same
      OBVIOUS
    <3>2. new \subseteq Nat
      OBVIOUS
    <3> HIDE DEF c
    <3> QED
      BY <3>1, <3>2
  <2>2. \E x \in same : \A y \in same : x <= y
    <3> HIDE DEF same
    <3> QED
      BY <2>1, LeastExists
  <2>3. \E j \in new : least(j)
    BY <2>2
  <2>4. first \in new
    <3> HIDE DEF least
    <3> QED
      BY <2>3
  <2>5. SourceOf(o, batch, new, i) = ScopedKey(o, c, Given(batch[first].visibility))
    BY <1>4 DEF SourceOf, mine
  <2> HIDE DEF first
  <2> QED
    BY <1>1, <2>5 DEF ScopedKey, Source
<1> QED
  BY <1>3, <1>4

\* A new event is an event.
LEMMA NewEventType ==
  ASSUME HistoryAssumption, TypeOK, NEW o \in Owner, NEW batch \in Seq(Input),
         NEW i \in NewIn(o, batch)
  PROVE  NewEvent(o, batch, i) \in Event
<1>1. NewIn(o, batch) \in SUBSET (1..Len(batch))
  BY DEF NewIn
<1>2. SourceOf(o, batch, NewIn(o, batch), i) \in Source
  BY <1>1, SourceType
<1>3. batch[i] \in Input
  BY <1>1
<1>4. (IF batch[i].key = NoKey THEN None ELSE keys[batch[i].key]) \in Nat
  <2>1. batch[i].key \in Key \cup {NoKey} /\ keys \in [Key -> Nat]
    BY <1>3 DEF Input, TypeOK, KeyFile
  <2> QED
    BY <2>1 DEF None
<1> QED
  BY <1>2, <1>3, <1>4 DEF NewEvent, Event, Input

\* The new events of a request are those of the inputs that are new, in their order.
LEMMA NewEventsAre ==
  ASSUME HistoryAssumption, TypeOK, NEW o \in Owner, NEW batch \in Seq(Input)
  PROVE  LET events == NewEvents(o, batch)
             new    == NewIn(o, batch)
         IN  /\ events \in Seq(Event)
             /\ \A d \in 1..Len(events) : \E i \in new : events[d] = NewEvent(o, batch, i)
             /\ \A i \in new : \E d \in 1..Len(events) : events[d] = NewEvent(o, batch, i)
             /\ \A d, f \in 1..Len(events) : d < f =>
                  \E i, j \in new :
                    /\ i < j
                    /\ events[d] = NewEvent(o, batch, i)
                    /\ events[f] = NewEvent(o, batch, j)
<1> DEFINE n == Len(batch)
           new == NewIn(o, batch)
           E(i) == NewEvent(o, batch, i)
           Body(f) == [i \in 0..n |-> IF i = 0 THEN <<>>
                                        ELSE IF i \in new THEN Append(f[i - 1], E(i))
                                        ELSE f[i - 1]]
           events == CHOOSE f : f = Body(f)
           next == [p \in (1..n) \X Seq(Event) |->
                      IF p[1] \in new THEN Append(p[2], E(p[1])) ELSE p[2]]
<1>1. NewEvents(o, batch) = events[n]
  BY DEF NewEvents
<1>2. n \in Nat
  OBVIOUS
<1>3. \A i \in new : E(i) \in Event
  BY NewEventType
<1>4. new \subseteq 1..n
  BY DEF NewIn
<1> HIDE DEF Body, events, E, new, n
<1>5. next \in [(1..n) \X Seq(Event) -> Seq(Event)]
  <2>1. ASSUME NEW p \in (1..n) \X Seq(Event)
        PROVE  (IF p[1] \in new THEN Append(p[2], E(p[1])) ELSE p[2]) \in Seq(Event)
    <3>1. p[2] \in Seq(Event)
      OBVIOUS
    <3> QED
      BY <1>3, <3>1
  <2> QED
    BY <2>1
<1>6. <<>> \in Seq(Event)
  OBVIOUS
<1>7. PICK g \in [0..n -> Seq(Event)] : Steps(g, n, <<>>, next)
  <2> DEFINE A == Seq(Event)
  <2> HIDE DEF next, A
  <2>1. next \in [(1..n) \X A -> A] /\ <<>> \in A
    BY <1>5, <1>6 DEF A
  <2>2. \E f \in [0..n -> A] : Steps(f, n, <<>>, next)
    BY <1>2, <2>1, StepsExist
  <2> QED
    BY <2>2 DEF A
<1>8. ASSUME NEW i \in 1..n
      PROVE  g[i] = IF i \in new THEN Append(g[i - 1], E(i)) ELSE g[i - 1]
  <2>1. <<i, g[i - 1]>> \in (1..n) \X Seq(Event)
    BY <1>2
  <2>2. g[i] = next[<<i, g[i - 1]>>]
    BY <1>7 DEF Steps
  <2> QED
    BY <2>1, <2>2
<1>9. g[0] = <<>>
  BY <1>7 DEF Steps
<1>10. ASSUME NEW f
       PROVE  /\ Body(f)[0] = <<>>
              /\ \A i \in 1..n :
                   Body(f)[i] = IF i \in new THEN Append(f[i - 1], E(i)) ELSE f[i - 1]
  <2>1. Body(f)[0] = <<>>
    BY <1>2 DEF Body
  <2>2. ASSUME NEW i \in 1..n
        PROVE  Body(f)[i] = IF i \in new THEN Append(f[i - 1], E(i)) ELSE f[i - 1]
    <3>1. i \in 0..n /\ i # 0
      BY <1>2
    <3> QED
      BY <3>1 DEF Body
  <2> QED
    BY <2>1, <2>2
<1>11. g = Body(g)
  <2>1. Body(g) = [i \in 0..n |-> Body(g)[i]]
    BY DEF Body
  <2>2. g = [i \in 0..n |-> g[i]]
    OBVIOUS
  <2>3. ASSUME NEW i \in 0..n
        PROVE  Body(g)[i] = g[i]
    <3>1. CASE i = 0
      BY <1>9, <1>10, <3>1
    <3>2. CASE i \in 1..n
      BY <1>8, <1>10, <3>2
    <3> QED
      BY <1>2, <3>1, <3>2
  <2> QED
    BY <2>1, <2>2, <2>3
<1>12. events = Body(events)
  BY <1>11 DEF events
<1>13. /\ events[0] = <<>>
       /\ \A i \in 1..n :
            events[i] = IF i \in new THEN Append(events[i - 1], E(i)) ELSE events[i - 1]
  BY <1>10, <1>12
<1> DEFINE Lists(s, k) ==
             /\ s \in Seq(Event)
             /\ \A d \in 1..Len(s) : \E i \in new : i <= k /\ s[d] = E(i)
             /\ \A i \in new : i <= k => \E d \in 1..Len(s) : s[d] = E(i)
             /\ \A d, f \in 1..Len(s) : d < f =>
                  \E i, j \in new : i < j /\ s[d] = E(i) /\ s[f] = E(j)
           S == {k \in 0..n : Lists(events[k], k)}
<1>14. 0 \in S
  <2>1. Lists(<<>>, 0)
    BY <1>4, <1>6
  <2> HIDE DEF Lists
  <2> QED
    BY <1>2, <1>13, <2>1
<1>15. ASSUME NEW k \in 1..n, k - 1 \in S
       PROVE  k \in S
  <2>1. Lists(events[k - 1], k - 1)
    BY <1>15
  <2>2. k \in 0..n /\ k \in Nat
    BY <1>2
  <2>3. \A i \in new : i \in Nat /\ (i <= k <=> i <= k - 1 \/ i = k)
    BY <1>4, <2>2
  <2>4. CASE k \notin new
    <3>1. events[k] = events[k - 1]
      BY <1>13, <2>4
    <3>2. Lists(events[k], k)
      BY <2>1, <2>3, <2>4, <3>1
    <3> HIDE DEF Lists
    <3> QED
      BY <2>2, <3>2
  <2>5. CASE k \in new
    <3> DEFINE s == events[k - 1]
               t == Append(s, E(k))
    <3>1. events[k] = t
      BY <1>13, <2>5
    <3>2. s \in Seq(Event) /\ E(k) \in Event
      BY <1>3, <2>1, <2>5
    <3>3. /\ t \in Seq(Event)
          /\ Len(t) = Len(s) + 1
          /\ t[Len(s) + 1] = E(k)
          /\ \A d \in 1..Len(s) : t[d] = s[d]
          /\ \A d \in 1..Len(t) : d \in 1..Len(s) \/ d = Len(s) + 1
          /\ Len(s) \in Nat
      <4> HIDE DEF s
      <4> QED
        BY <3>2
    <3> HIDE DEF t, s
    <3>4. \A d \in 1..Len(s) : \E i \in new : i <= k - 1 /\ s[d] = E(i)
      BY <2>1 DEF s
    <3>5. \A i \in new : i <= k - 1 => \E d \in 1..Len(s) : s[d] = E(i)
      BY <2>1 DEF s
    <3>6. \A d, f \in 1..Len(s) : d < f =>
            \E i, j \in new : i < j /\ s[d] = E(i) /\ s[f] = E(j)
      BY <2>1 DEF s
    <3>7. \A d \in 1..Len(t) : \E i \in new : i <= k /\ t[d] = E(i)
      BY <2>2, <2>3, <2>5, <3>3, <3>4
    <3>8. \A i \in new : i <= k => \E d \in 1..Len(t) : t[d] = E(i)
      <4>1. 1..Len(s) \subseteq 1..Len(t) /\ Len(s) + 1 \in 1..Len(t)
        BY <3>3
      <4> QED
        BY <2>3, <3>3, <3>5, <4>1
    <3>9. ASSUME NEW d \in 1..Len(t), NEW f \in 1..Len(t), d < f
          PROVE  \E i, j \in new : i < j /\ t[d] = E(i) /\ t[f] = E(j)
      <4>1. d \in 1..Len(s)
        BY <3>3, <3>9
      <4>2. CASE f \in 1..Len(s)
        BY <3>3, <3>6, <3>9, <4>1, <4>2
      <4>3. CASE f = Len(s) + 1
        <5>1. PICK i \in new : i <= k - 1 /\ s[d] = E(i)
          BY <3>4, <4>1
        <5>2. i < k
          BY <2>2, <2>3, <5>1
        <5> QED
          BY <2>5, <3>3, <4>1, <4>3, <5>1, <5>2
      <4> QED
        BY <3>3, <4>2, <4>3
    <3>10. Lists(t, k)
      BY <3>3, <3>7, <3>8, <3>9
    <3> HIDE DEF Lists
    <3> QED
      BY <2>2, <3>1, <3>10
  <2> QED
    BY <2>4, <2>5
<1> HIDE DEF S, Lists
<1>16. n \in S
  <2>1. 0..n \subseteq S
    BY <1>2, <1>14, <1>15, InductionUpTo
  <2> QED
    BY <1>2, <2>1
<1>17. Lists(events[n], n)
  BY <1>16 DEF S
<1>18. \A i \in new : i <= n
  BY <1>2, <1>4
<1> QED
  BY <1>1, <1>17, <1>18 DEF Lists, new, E

\* What a sound log becomes with the new events of an accepted request.
LEMMA AcceptedKeepsConsistent ==
  ASSUME HistoryAssumption, TypeOK, serving, MemoryFollowsLog, LogSound,
         NEW o \in Owner, NEW batch \in Seq(Input), BatchAccepted(o, batch)
  PROVE  Ledger!Consistent(LoggedEvents \o NewEvents(o, batch))
<1> DEFINE old == LoggedEvents
           events == NewEvents(o, batch)
           new == NewIn(o, batch)
           all == old \o events
<1>1. old = history /\ old \in Seq(Event)
  BY DEF MemoryFollowsLog, Tracks, Current, LoggedEvents, TypeOK
<1>2. /\ events \in Seq(Event)
      /\ \A d \in 1..Len(events) : \E i \in new : events[d] = NewEvent(o, batch, i)
      /\ \A d, f \in 1..Len(events) : d < f =>
           \E i, j \in new :
             i < j /\ events[d] = NewEvent(o, batch, i) /\ events[f] = NewEvent(o, batch, j)
  BY NewEventsAre
<1>3. \A i \in new :
        /\ i \in 1..Len(batch)
        /\ Recorded(o, batch[i].id) = {}
        /\ \A j \in 1..(i - 1) : batch[j].id # batch[i].id
        /\ SequenceFree(o, batch, new, i)
  BY DEF BatchAccepted, InputAccepted, NewIn
<1>4. \A i \in new :
        /\ NewEvent(o, batch, i).owner = o
        /\ NewEvent(o, batch, i).id = batch[i].id
        /\ NewEvent(o, batch, i).conversation = batch[i].conversation
        /\ NewEvent(o, batch, i).sequence = batch[i].sequence
  BY DEF NewEvent
<1>5. \A i, j \in 1..Len(old) : Ledger!Clash(old[i], old[j]) => i = j
  BY DEF LogSound, Ledger!Consistent
<1> HIDE DEF old, events, new
<1>6. ASSUME NEW d \in 1..Len(old), NEW i \in new
      PROVE  /\ ~ Ledger!Clash(old[d], NewEvent(o, batch, i))
             /\ ~ Ledger!Clash(NewEvent(o, batch, i), old[d])
  <2>1. ~ (old[d].owner = o /\ old[d].id = batch[i].id)
    BY <1>1, <1>3 DEF Recorded
  <2>2. ~ /\ old[d].owner = o
          /\ old[d].conversation = batch[i].conversation
          /\ old[d].sequence = batch[i].sequence
    BY <1>1, <1>3 DEF SequenceFree, InConversation
  <2> QED
    BY <1>4, <2>1, <2>2 DEF Ledger!Clash
<1>7. ASSUME NEW i \in new, NEW j \in new, i < j
      PROVE  /\ ~ Ledger!Clash(NewEvent(o, batch, i), NewEvent(o, batch, j))
             /\ ~ Ledger!Clash(NewEvent(o, batch, j), NewEvent(o, batch, i))
  <2>1. i \in 1..(j - 1)
    BY <1>3, <1>7
  <2>2. batch[i].id # batch[j].id
    BY <1>3, <2>1
  <2>3. ~ (batch[i].conversation = batch[j].conversation /\ batch[i].sequence = batch[j].sequence)
    BY <1>3, <1>7 DEF SequenceFree, SameFields
  <2> QED
    BY <1>4, <2>2, <2>3 DEF Ledger!Clash
<1>8. /\ Len(all) = Len(old) + Len(events)
      /\ \A d \in 1..Len(old) : all[d] = old[d]
      /\ \A d \in 1..Len(events) : all[Len(old) + d] = events[d]
      /\ \A d \in 1..Len(all) :
           d \in 1..Len(old) \/ \E e \in 1..Len(events) : d = Len(old) + e
  BY <1>1, <1>2, ConcatElements
<1> HIDE DEF all
<1>9. ASSUME NEW d \in 1..Len(all), NEW f \in 1..Len(all), Ledger!Clash(all[d], all[f])
      PROVE  d = f
  <2>1. CASE d \in 1..Len(old) /\ f \in 1..Len(old)
    <3>1. Ledger!Clash(old[d], old[f])
      BY <1>8, <1>9, <2>1
    <3> QED
      BY <1>5, <2>1, <3>1
  <2>2. CASE d \in 1..Len(old) /\ \E e \in 1..Len(events) : f = Len(old) + e
    <3>1. PICK e \in 1..Len(events) : f = Len(old) + e
      BY <2>2
    <3>2. PICK i \in new : events[e] = NewEvent(o, batch, i)
      BY <1>2
    <3>3. all[d] = old[d] /\ all[f] = NewEvent(o, batch, i)
      BY <1>8, <2>2, <3>1, <3>2
    <3> QED
      BY <1>6, <1>9, <2>2, <3>3
  <2>3. CASE f \in 1..Len(old) /\ \E e \in 1..Len(events) : d = Len(old) + e
    <3>1. PICK e \in 1..Len(events) : d = Len(old) + e
      BY <2>3
    <3>2. PICK i \in new : events[e] = NewEvent(o, batch, i)
      BY <1>2
    <3>3. all[f] = old[f] /\ all[d] = NewEvent(o, batch, i)
      BY <1>8, <2>3, <3>1, <3>2
    <3> QED
      BY <1>6, <1>9, <2>3, <3>3
  <2>4. CASE /\ \E e \in 1..Len(events) : d = Len(old) + e
             /\ \E e \in 1..Len(events) : f = Len(old) + e
    <3>1. PICK a \in 1..Len(events) : d = Len(old) + a
      BY <2>4
    <3>2. PICK b \in 1..Len(events) : f = Len(old) + b
      BY <2>4
    <3>3. Ledger!Clash(events[a], events[b])
      BY <1>8, <1>9, <3>1, <3>2
    <3>4. ~ (a < b)
      BY <1>2, <1>7, <3>3
    <3>5. ~ (b < a)
      BY <1>2, <1>7, <3>3
    <3>6. a = b
      BY <1>2, <3>4, <3>5
    <3> QED
      BY <3>1, <3>2, <3>6
  <2> QED
    BY <1>8, <2>1, <2>2, <2>3, <2>4
<1> QED
  BY <1>9 DEF Ledger!Consistent, all, old, events

\* If all events of a conversation have one source, a new event gets that one, whichever
\* event of the conversation has the least sequence number.
LEMMA SourceOfConversation ==
  ASSUME HistoryAssumption, TypeOK, OneSource(history),
         NEW o \in Owner, NEW batch \in Seq(Input),
         NEW i \in NewIn(o, batch),
         NEW d \in InConversation(o, batch[i].conversation)
  PROVE  SourceOf(o, batch, NewIn(o, batch), i) = history[d].source
<1> DEFINE c == batch[i].conversation
           mine == InConversation(o, c)
           least(e) == \A f \in mine : history[e].sequence <= history[f].sequence
           d0 == CHOOSE e \in mine : least(e)
           sequences == {history[e].sequence : e \in mine}
<1>1. SourceOf(o, batch, NewIn(o, batch), i) = history[d0].source
  BY DEF SourceOf
<1>2. /\ mine \subseteq 1..Len(history)
      /\ \A e \in 1..Len(history) : history[e] \in Event
  BY DEF TypeOK, InConversation
<1>3. \A e \in mine : history[e].owner = o /\ history[e].conversation = c
  BY DEF InConversation
<1>4. sequences \subseteq Nat /\ sequences # {}
  <2>1. \A e \in mine : history[e].sequence \in Nat
    BY <1>2 DEF HistoryAssumption, Event
  <2> QED
    BY <2>1
<1> HIDE DEF mine
<1>5. \E x \in sequences : \A y \in sequences : x <= y
  <2> HIDE DEF sequences
  <2> QED
    BY <1>4, LeastExists
<1>6. \E e \in mine : least(e)
  BY <1>5
<1>7. d0 \in mine
  <2> HIDE DEF least
  <2> QED
    BY <1>6
<1> HIDE DEF d0
<1>8. d \in mine
  BY DEF mine
<1> QED
  BY <1>1, <1>2, <1>3, <1>7, <1>8 DEF OneSource

\* A request's new events belong to the sources of their conversations.
LEMMA AcceptedKeepsSource ==
  ASSUME HistoryAssumption, TypeOK, serving, MemoryFollowsLog, LogSound,
         NEW o \in Owner, NEW batch \in Seq(Input)
  PROVE  OneSource(LoggedEvents \o NewEvents(o, batch))
<1> DEFINE old == LoggedEvents
           events == NewEvents(o, batch)
           new == NewIn(o, batch)
           all == old \o events
           E(i) == NewEvent(o, batch, i)
<1>1. old = history /\ old \in Seq(Event) /\ OneSource(history)
  BY DEF MemoryFollowsLog, Tracks, Current, LoggedEvents, TypeOK, LogSound
<1>2. /\ events \in Seq(Event)
      /\ \A d \in 1..Len(events) : \E i \in new : events[d] = E(i)
  BY NewEventsAre
<1>3. \A i \in new :
        /\ E(i).owner = o
        /\ E(i).conversation = batch[i].conversation
        /\ E(i).source = SourceOf(o, batch, new, i)
  BY DEF NewEvent
<1>4. ASSUME NEW i \in new, NEW j \in new, batch[i].conversation = batch[j].conversation
      PROVE  SourceOf(o, batch, new, i) = SourceOf(o, batch, new, j)
  BY <1>4 DEF SourceOf
<1>5. ASSUME NEW d \in 1..Len(old), NEW i \in new,
             old[d].owner = E(i).owner, old[d].conversation = E(i).conversation
      PROVE  old[d].source = E(i).source
  <2>1. d \in InConversation(o, batch[i].conversation)
    BY <1>1, <1>3, <1>5 DEF InConversation
  <2> QED
    BY <1>1, <1>3, <2>1, SourceOfConversation
<1> HIDE DEF old, events, new, E
<1>6. /\ \A d \in 1..Len(old) : all[d] = old[d]
      /\ \A d \in 1..Len(all) : d \in 1..Len(old) \/ \E i \in new : all[d] = E(i)
  <2>0. old \in Seq(Event) /\ events \in Seq(Event)
    BY <1>1, <1>2
  <2>1. /\ \A d \in 1..Len(old) : all[d] = old[d]
        /\ \A e \in 1..Len(events) : all[Len(old) + e] = events[e]
        /\ \A d \in 1..Len(all) :
             d \in 1..Len(old) \/ \E e \in 1..Len(events) : d = Len(old) + e
    BY <2>0, ConcatElements
  <2> HIDE DEF all
  <2> QED
    BY <1>2, <2>1
<1> HIDE DEF all
<1>7. ASSUME NEW d \in 1..Len(all), NEW f \in 1..Len(all),
             all[d].owner = all[f].owner, all[d].conversation = all[f].conversation
      PROVE  all[d].source = all[f].source
  <2>1. CASE d \in 1..Len(old) /\ f \in 1..Len(old)
    BY <1>1, <1>6, <1>7, <2>1 DEF OneSource
  <2>2. CASE d \in 1..Len(old) /\ \E i \in new : all[f] = E(i)
    BY <1>5, <1>6, <1>7, <2>2
  <2>3. CASE f \in 1..Len(old) /\ \E i \in new : all[d] = E(i)
    BY <1>5, <1>6, <1>7, <2>3
  <2>4. CASE (\E i \in new : all[d] = E(i)) /\ (\E i \in new : all[f] = E(i))
    BY <1>3, <1>4, <1>7, <2>4
  <2> QED
    BY <1>6, <2>1, <2>2, <2>3, <2>4
<1> QED
  BY <1>7 DEF OneSource, all, old, events

\* An accepted request's events are all recorded then, as they were sent.
LEMMA AcceptedAreRecorded ==
  ASSUME HistoryAssumption, TypeOK, serving, MemoryFollowsLog,
         NEW o \in Owner, NEW batch \in Seq(Input), BatchAccepted(o, batch),
         NEW i \in 1..Len(batch)
  PROVE  \/ \E d \in 1..Len(history) :
              /\ history[d].owner = o
              /\ history[d].id = batch[i].id
              /\ history[d].conversation = batch[i].conversation
              /\ history[d].sequence = batch[i].sequence
              /\ history[d].content = batch[i].content
         \/ \E j \in NewIn(o, batch) :
              /\ batch[j].id = batch[i].id
              /\ batch[j].conversation = batch[i].conversation
              /\ batch[j].sequence = batch[i].sequence
              /\ batch[j].content = batch[i].content
<1> DEFINE new == NewIn(o, batch)
<1>1. CASE i \in new
  BY <1>1
<1>2. CASE i \notin new /\ Recorded(o, batch[i].id) # {}
  <2>1. PICK d \in Recorded(o, batch[i].id) : TRUE
    BY <1>2
  <2>2. SameAsRecorded(history[d], batch[i])
    BY <1>2, <2>1 DEF BatchAccepted, InputAccepted
  <2> QED
    BY <2>1, <2>2 DEF Recorded, SameAsRecorded, SameFields
<1>3. CASE i \notin new /\ Recorded(o, batch[i].id) = {}
  <2> DEFINE same == {j \in 1..Len(batch) : batch[j].id = batch[i].id}
  <2>1. same \subseteq Nat /\ same # {}
    OBVIOUS
  <2>2. PICK j \in same : \A l \in same : j <= l
    <3> HIDE DEF same
    <3> QED
      BY <2>1, LeastExists
  <2>3. j \in new
    <3>1. \A l \in 1..(j - 1) : l \notin same
      BY <2>1, <2>2
    <3>2. \A l \in 1..(j - 1) : l \in 1..Len(batch)
      OBVIOUS
    <3> QED
      BY <1>3, <3>1, <3>2 DEF NewIn
  <2>4. SameInput(batch[j], batch[i])
    BY <1>3, <2>3 DEF BatchAccepted, InputAccepted
  <2> QED
    BY <2>3, <2>4 DEF SameInput, SameFields
<1> QED
  BY <1>1, <1>2, <1>3

-----------------------------------------------------------------------------
(* Commits.                                                                 *)

\* What a request commits while the store is open.
Committable(cmd) ==
  /\ cmd \in Command
  /\ \/ cmd.op \in {"create_key", "shred_key"}
     \/ \E o \in Owner, batch \in Seq(Input) :
          BatchAccepted(o, batch) /\ cmd = [op |-> "record", events |-> NewEvents(o, batch)]

\* The log's events and shredded keys are of their types.
LEMMA LogType ==
  ASSUME TypeOK
  PROVE  /\ log \in Seq(Command)
         /\ Len(log) \in Nat
         /\ LoggedEvents \in Seq(Event)
         /\ ShreddedKeys = ShreddedBy(log, Len(log))
         /\ ShreddedKeys \subseteq Key
<1>1. log \in Seq(Command) /\ Len(log) \in Nat /\ Len(log) \in 0..Len(log)
  BY DEF TypeOK
<1>2. LoggedEvents \in Seq(Event)
  BY <1>1, EventsStep DEF LoggedEvents
<1>3. ShreddedKeys = ShreddedBy(log, Len(log))
  BY DEF ShreddedKeys, ShreddedBy
<1> QED
  BY <1>1, <1>2, <1>3, ShreddedType

\* What a commit adds to the log's events and shredded keys.
LEMMA GrownLog ==
  ASSUME TypeOK, NEW cmd \in Command, log' = Append(log, cmd)
  PROVE  /\ log' \in Seq(Command)
         /\ Len(log') = Len(log) + 1
         /\ Len(log') \in 1..Len(log')
         /\ log'[Len(log')] = cmd
         /\ LoggedEvents' = LoggedEvents \o EventsOf(cmd)
         /\ ShreddedKeys' = ShreddedKeys \cup (IF cmd.op = "shred_key" THEN {cmd.key} ELSE {})
<1>1. log \in Seq(Command) /\ Len(log) \in Nat
  BY LogType
<1>2. /\ log' \in Seq(Command)
      /\ Len(log') = Len(log) + 1
      /\ Len(log') \in 1..Len(log')
      /\ log'[Len(log')] = cmd
  BY <1>1
<1>3. LoggedEvents' = LoggedEvents \o EventsOf(cmd)
  BY <1>1, <1>2, EventsAppend DEF LoggedEvents
<1>4. ShreddedKeys' = ShreddedBy(log', Len(log'))
  BY DEF ShreddedKeys, ShreddedBy
<1>5. ShreddedBy(log', Len(log')) =
        ShreddedBy(log', Len(log)) \cup (IF cmd.op = "shred_key" THEN {cmd.key} ELSE {})
  <2>1. Len(log') - 1 = Len(log)
    BY <1>1, <1>2
  <2>2. ShreddedBy(log', Len(log')) =
          ShreddedBy(log', Len(log') - 1) \cup
            (IF log'[Len(log')].op = "shred_key" THEN {log'[Len(log')].key} ELSE {})
    BY <1>2, ShreddedStep
  <2> QED
    BY <1>2, <2>1, <2>2
<1>6. ShreddedBy(log', Len(log)) = ShreddedBy(log, Len(log))
  BY <1>1, ShreddedKept
<1> QED
  BY <1>2, <1>3, <1>4, <1>5, <1>6, LogType

\* The log stays sound, and the keys of its events are in the vault.
LEMMA CommitKeepsLogSound ==
  ASSUME HistoryAssumption, HInv, serving, NEW cmd, Committable(cmd)
  PROVE  LET all == LoggedEvents \o EventsOf(cmd)
         IN  /\ all \in Seq(Event)
             /\ Ledger!Consistent(all)
             /\ OneSource(all)
             /\ MaterialsUpTo(all, generated)
             /\ losses = 0 /\ failures = 0 => HeldBy(keys, all, ShreddedKeys)
<1> DEFINE old == LoggedEvents
           all == old \o EventsOf(cmd)
<1>1. /\ TypeOK
      /\ LogSound
      /\ MemoryFollowsLog
      /\ losses = 0 /\ failures = 0 => HeldBy(keys, old, ShreddedKeys)
  BY DEF HInv, DiskFollowsMemory, DiskHoldsKeys
<1>2. old \in Seq(Event)
  BY <1>1, LogType
<1>3. CASE cmd.op \in {"create_key", "shred_key"}
  <2>1. EventsOf(cmd) = <<>>
    BY <1>3 DEF EventsOf
  <2>2. all = old
    BY <1>2, <2>1, ConcatEmptySeq
  <2> QED
    BY <1>1, <1>2, <2>2 DEF LogSound
<1>4. CASE \E o \in Owner, batch \in Seq(Input) :
             BatchAccepted(o, batch) /\ cmd = [op |-> "record", events |-> NewEvents(o, batch)]
  <2>1. PICK o \in Owner, batch \in Seq(Input) :
               BatchAccepted(o, batch) /\ cmd = [op |-> "record", events |-> NewEvents(o, batch)]
    BY <1>4
  <2> DEFINE events == NewEvents(o, batch)
  <2>2. EventsOf(cmd) = events
    BY <2>1 DEF EventsOf
  <2>3. /\ events \in Seq(Event)
        /\ \A d \in 1..Len(events) :
             \E i \in NewIn(o, batch) : events[d] = NewEvent(o, batch, i)
    BY <1>1, NewEventsAre
  <2>4. all \in Seq(Event)
    BY <1>2, <2>2, <2>3, ConcatProperties
  <2>5. Ledger!Consistent(all)
    BY <1>1, <2>1, <2>2, AcceptedKeepsConsistent
  <2>6. OneSource(all)
    BY <1>1, <2>1, <2>2, AcceptedKeepsSource
  <2>7. ASSUME NEW d \in 1..Len(events)
        PROVE  /\ events[d].material <= generated
               /\ ReadableWith(keys, events[d])
    <3>1. PICK i \in NewIn(o, batch) : events[d] = NewEvent(o, batch, i)
      BY <2>3
    <3>2. i \in 1..Len(batch) /\ batch[i] \in Input /\ Encryptable(batch[i])
      <4>1. i \in 1..Len(batch)
        BY DEF NewIn
      <4>2. InputAccepted(o, batch, NewIn(o, batch), i)
        BY <2>1, <4>1 DEF BatchAccepted
      <4>3. Encryptable(batch[i])
        BY <4>2 DEF InputAccepted
      <4> QED
        BY <4>1, <4>3
    <3>3. /\ events[d].key = batch[i].key
          /\ events[d].material = IF batch[i].key = NoKey THEN None ELSE keys[batch[i].key]
      BY <3>1 DEF NewEvent
    <3>4. batch[i].key \in Key \cup {NoKey} /\ generated \in Nat
      BY <1>1, <3>2 DEF Input, TypeOK
    <3>5. KeysUpTo(keys, generated)
      BY DEF HInv, NothingAheadOf, Current
    <3>6. events[d].material <= generated
      BY <3>3, <3>4, <3>5 DEF KeysUpTo, None
    <3>7. ReadableWith(keys, events[d])
      BY <3>2, <3>3 DEF Encryptable, ReadableWith, HistoryAssumption
    <3> QED
      BY <3>6, <3>7
  <2> HIDE DEF events
  <2>8. ASSUME NEW d \in 1..Len(all)
        PROVE  \/ d \in 1..Len(old) /\ all[d] = old[d]
               \/ \E e \in 1..Len(events) : all[d] = events[e]
    BY <1>2, <2>2, <2>3, ConcatElements
  <2> HIDE DEF all, old
  <2>9. MaterialsUpTo(all, generated)
    BY <1>1, <2>7, <2>8 DEF MaterialsUpTo, LogSound, old
  <2>10. losses = 0 /\ failures = 0 => HeldBy(keys, all, ShreddedKeys)
    BY <1>1, <2>7, <2>8 DEF HeldBy
  <2> QED
    BY <2>4, <2>5, <2>6, <2>9, <2>10 DEF all, old
<1> QED
  BY <1>3, <1>4 DEF Committable

\* A commit that the process survives keeps everything but what clients were told.
LEMMA CommitsKeep ==
  ASSUME HistoryAssumption, HInv, serving, NEW cmd, Committable(cmd),
         NEW persists \in BOOLEAN, Commits(cmd, persists)
  PROVE  /\ answered' \subseteq Fact => TypeOK'
         /\ LogSound'
         /\ NothingAheadOf(Current)'
         /\ MemoryFollowsLog'
         /\ DiskFollowsMemory'
         /\ DiskHoldsKeys'
         /\ LoggedEvents' = LoggedEvents \o EventsOf(cmd)
<1> DEFINE st == Current
           new == Applied(st, cmd, persists)
<1>1. /\ TypeOK
      /\ NothingAheadOf(st)
      /\ Tracks(st, log, Len(log))
      /\ failures = 0 => keyFile = keys
      /\ MaterialsUpTo(LoggedEvents, generated)
  BY DEF HInv, MemoryFollowsLog, DiskFollowsMemory, LogSound
<1>2. cmd \in Command
  BY DEF Committable
<1>3. /\ st.history = history
      /\ st.index = index
      /\ st.keys = keys
      /\ st.shredded = shredded
      /\ st.keyFile = keyFile
      /\ st.older = older
      /\ st.generated = generated
  BY DEF Current
<1>4. st \in StateRec /\ Len(st.index) = Len(st.history)
  BY <1>1 DEF TypeOK, StateRec, Current
<1>5. /\ history' = new.history
      /\ index' = new.index
      /\ keys' = new.keys
      /\ shredded' = new.shredded
      /\ keyFile' = new.keyFile
      /\ older' = new.older
      /\ generated' = new.generated
  BY DEF Commits, Becomes
<1>6. /\ Current'.history = new.history
      /\ Current'.index = new.index
      /\ Current'.keys = new.keys
      /\ Current'.shredded = new.shredded
      /\ Current'.keyFile = new.keyFile
      /\ Current'.older = new.older
      /\ Current'.generated = new.generated
  BY <1>5 DEF Current
<1>7. /\ log' = Append(log, cmd)
      /\ Len(log) < MaxCommits
      /\ serving' = serving
      /\ kills' = kills
      /\ losses' = losses
      /\ persists \/ failures < MaxFailures
      /\ failures' = IF persists THEN failures ELSE failures + 1
  BY DEF Commits, Counted
<1>8. /\ log' \in Seq(Command)
      /\ Len(log') = Len(log) + 1
      /\ Len(log') \in 1..Len(log')
      /\ log'[Len(log')] = cmd
      /\ LoggedEvents' = LoggedEvents \o EventsOf(cmd)
      /\ ShreddedKeys' = ShreddedKeys \cup (IF cmd.op = "shred_key" THEN {cmd.key} ELSE {})
  BY <1>1, <1>2, <1>7, GrownLog
<1>9. /\ LoggedEvents \in Seq(Event)
      /\ Len(log) \in Nat
      /\ log \in Seq(Command)
  BY <1>1, LogType
<1> HIDE DEF st
<1>10. /\ new \in StateRec
       /\ NothingAheadOf(new)
       /\ st.generated <= new.generated
  BY <1>1, <1>2, <1>4, AppliedUpTo
<1>11. Len(new.index) = Len(new.history)
  BY <1>2, <1>4, AppliedMatched DEF Matched
<1>12. Tracks(new, log', Len(log'))
  <2>1. Tracks(st, log', Len(log') - 1)
    <3>1. Len(log') - 1 = Len(log) /\ Len(log) \in 0..Len(log)
      BY <1>8, <1>9
    <3>2. EventsOfFirst(log', Len(log)) = EventsOfFirst(log, Len(log))
      BY <1>2, <1>7, <1>9, <3>1, EventsKept
    <3>3. ShreddedBy(log', Len(log)) = ShreddedBy(log, Len(log))
      BY <1>2, <1>7, <1>9, <3>1, ShreddedKept
    <3> QED
      BY <1>1, <3>1, <3>2, <3>3 DEF Tracks
  <2>2. MaterialsUpTo(st.history, st.generated)
    BY <1>1, <1>3 DEF Tracks, LoggedEvents
  <2>3. Tracks(Applied(st, log'[Len(log')], persists), log', Len(log'))
    BY <1>4, <1>8, <2>1, <2>2, AppliedTracks
  <2> QED
    BY <1>8, <2>3
<1>13. /\ \A k \in Key :
            keys[k] # None /\ ~ (cmd.op = "shred_key" /\ cmd.key = k)
              => new.keys[k] = keys[k]
       /\ persists /\ keyFile = keys => new.keyFile = new.keys
  BY <1>2, <1>3, <1>4, AppliedKeepsKeys
<1> HIDE DEF new
<1>14. failures \in Nat /\ (failures' = 0 => failures = 0 /\ persists)
  BY <1>1, <1>7 DEF TypeOK
<1>15. ASSUME answered' \subseteq Fact
       PROVE  TypeOK'
  <2>1. failures' \in 0..MaxFailures
    BY <1>1, <1>7 DEF TypeOK, HistoryAssumption
  <2> QED
    BY <1>1, <1>5, <1>7, <1>8, <1>10, <1>11, <1>15, <2>1 DEF TypeOK, StateRec
<1>16. LogSound'
  <2>1. /\ Ledger!Consistent(LoggedEvents')
        /\ OneSource(LoggedEvents')
        /\ MaterialsUpTo(LoggedEvents', generated)
        /\ LoggedEvents' \in Seq(Event)
    BY <1>8, CommitKeepsLogSound
  <2>2. \A d \in 1..Len(LoggedEvents') : LoggedEvents'[d].material \in Nat
    <3>1. \A d \in 1..Len(LoggedEvents') : LoggedEvents'[d] \in Event
      BY <2>1
    <3> QED
      BY <3>1 DEF Event
  <2>3. generated \in Nat /\ generated' \in Nat /\ generated <= generated'
    BY <1>1, <1>3, <1>5, <1>10 DEF TypeOK, StateRec
  <2>4. MaterialsUpTo(LoggedEvents', generated')
    BY <2>1, <2>2, <2>3 DEF MaterialsUpTo
  <2> QED
    BY <2>1, <2>4 DEF LogSound
<1>17. NothingAheadOf(Current)'
  BY <1>6, <1>10 DEF NothingAheadOf
<1>18. MemoryFollowsLog'
  BY <1>6, <1>7, <1>12 DEF MemoryFollowsLog, Tracks
<1>19. DiskFollowsMemory'
  BY <1>1, <1>5, <1>13, <1>14 DEF DiskFollowsMemory
<1>20. DiskHoldsKeys'
  <2> SUFFICES ASSUME losses' = 0, failures' = 0
               PROVE  HeldBy(keyFile', LoggedEvents', ShreddedKeys')
    BY DEF DiskHoldsKeys
  <2>1. HeldBy(keys, LoggedEvents', ShreddedKeys)
    BY <1>7, <1>8, <1>14, CommitKeepsLogSound
  <2>2. keyFile' = new.keys
    BY <1>1, <1>5, <1>13, <1>14
  <2>3. ASSUME NEW d \in 1..Len(LoggedEvents'), LoggedEvents'[d].key \notin ShreddedKeys'
        PROVE  ReadableWith(new.keys, LoggedEvents'[d])
    <3>1. ReadableWith(keys, LoggedEvents'[d])
      BY <1>8, <2>1, <2>3 DEF HeldBy
    <3>2. ~ (cmd.op = "shred_key" /\ cmd.key = LoggedEvents'[d].key)
      BY <1>8, <2>3
    <3> QED
      BY <1>13, <3>1, <3>2 DEF ReadableWith
  <2> QED
    BY <2>2, <2>3 DEF HeldBy
<1> QED
  BY <1>8, <1>15, <1>16, <1>17, <1>18, <1>19, <1>20

\* What is left of the memory of a process that stops.
LEMMA ForgottenIsEmpty ==
  ASSUME Forgotten
  PROVE  /\ ~ serving'
         /\ history' = <<>>
         /\ index' = <<>>
         /\ keys' = NoKeys
         /\ shredded' = {}
         /\ history' \in Seq(Event)
         /\ index' \in Seq({"text", "not_utf8", "shredded"})
         /\ Len(index') = Len(history')
         /\ keys' \in KeyFile
         /\ shredded' \subseteq Key
         /\ \A g \in Nat : KeysUpTo(keys', g)
         /\ MemoryFollowsLog'
         /\ DiskFollowsMemory'
BY DEF Forgotten, NoKeys, KeyFile, KeysUpTo, None, MemoryFollowsLog, DiskFollowsMemory

\* Nor does one in which it is killed.
LEMMA KilledCommitsKeep ==
  ASSUME HistoryAssumption, HInv, serving, NEW cmd, Committable(cmd), KilledInCommit(cmd)
  PROVE  /\ answered' \subseteq Fact => TypeOK'
         /\ LogSound'
         /\ NothingAheadOf(Current)'
         /\ MemoryFollowsLog'
         /\ DiskFollowsMemory'
         /\ DiskHoldsKeys'
         /\ LoggedEvents' = LoggedEvents \o EventsOf(cmd)
<1>1. /\ TypeOK
      /\ NothingAheadOf(Current)
      /\ failures = 0 => keyFile = keys
  BY DEF HInv, DiskFollowsMemory
<1>2. cmd \in Command
  BY DEF Committable
<1>3. /\ log' = Append(log, cmd)
      /\ kills < MaxKills
      /\ kills' = kills + 1
      /\ Forgotten
      /\ keyFile' = keyFile
      /\ older' = older
      /\ generated' = generated
      /\ answered' = answered
      /\ losses' = losses
      /\ failures' = failures
  BY DEF KilledInCommit, disk
<1>4. /\ log' \in Seq(Command)
      /\ LoggedEvents' = LoggedEvents \o EventsOf(cmd)
      /\ ShreddedKeys' = ShreddedKeys \cup (IF cmd.op = "shred_key" THEN {cmd.key} ELSE {})
  BY <1>1, <1>2, <1>3, GrownLog
<1>5. /\ ~ serving'
      /\ history' \in Seq(Event)
      /\ index' \in Seq({"text", "not_utf8", "shredded"})
      /\ Len(index') = Len(history')
      /\ keys' \in KeyFile
      /\ shredded' \subseteq Key
      /\ \A g \in Nat : KeysUpTo(keys', g)
      /\ MemoryFollowsLog'
      /\ DiskFollowsMemory'
  BY <1>3, ForgottenIsEmpty
<1>6. TypeOK'
  <2>1. kills' \in 0..MaxKills
    <3>1. kills \in 0..MaxKills /\ MaxKills \in Nat
      BY <1>1 DEF TypeOK, HistoryAssumption
    <3> QED
      BY <1>3, <3>1
  <2>2. serving' \in BOOLEAN
    BY <1>3 DEF Forgotten
  <2>3. ASSUME answered' \subseteq Fact
        PROVE  TypeOK'
    BY <1>1, <1>3, <1>4, <1>5, <2>1, <2>2 DEF TypeOK
  <2> QED
    BY <1>1, <1>3, <2>3 DEF TypeOK
<1>7. LogSound'
  BY <1>3, <1>4, CommitKeepsLogSound DEF LogSound
<1>8. NothingAheadOf(Current)'
  BY <1>1, <1>3, <1>5 DEF NothingAheadOf, Current, TypeOK
<1>9. DiskHoldsKeys'
  BY <1>1, <1>3, <1>4, CommitKeepsLogSound DEF DiskHoldsKeys, HeldBy
<1> QED
  BY <1>4, <1>5, <1>6, <1>7, <1>8, <1>9

-----------------------------------------------------------------------------
(* The invariant, step by step.                                             *)

\* The invariant holds of an empty directory.
LEMMA InitHolds ==
  ASSUME HistoryAssumption, Init
  PROVE  HInv /\ LoggedEvents = <<>>
<1>1. log = <<>> /\ log \in Seq(Command) /\ Len(log) = 0 /\ 0 \in 0..Len(log)
  BY DEF Init
<1>2. LoggedEvents = <<>>
  BY <1>1, EventsStep DEF LoggedEvents
<1>3. NoKeys \in KeyFile /\ \A g \in Nat : KeysUpTo(NoKeys, g)
  BY DEF NoKeys, KeyFile, None, KeysUpTo
<1>4. TypeOK
  <2>1. history \in Seq(Event) /\ index \in Seq({"text", "not_utf8", "shredded"})
    BY DEF Init
  <2>2. 0 \in 0..MaxKills /\ 0 \in 0..MaxPowerLosses /\ 0 \in 0..MaxFailures /\ 0 \in Nat
    BY DEF HistoryAssumption
  <2>3. Len(index) = Len(history)
    BY DEF Init
  <2> QED
    BY <1>1, <1>3, <2>1, <2>2, <2>3 DEF Init, TypeOK
<1>5. LogSound
  BY <1>2 DEF LogSound, Ledger!Consistent, OneSource, MaterialsUpTo
<1>6. AnsweredIsKept
  BY DEF Init, AnsweredIsKept
<1>7. NothingAheadOf(Current)
  BY <1>3 DEF Init, NothingAheadOf, Current
<1>8. MemoryFollowsLog /\ DiskFollowsMemory
  BY DEF Init, MemoryFollowsLog, DiskFollowsMemory
<1>9. DiskHoldsKeys
  BY <1>2 DEF DiskHoldsKeys, HeldBy
<1> QED
  BY <1>2, <1>4, <1>5, <1>6, <1>7, <1>8, <1>9 DEF HInv

\* Stopping the process leaves the log as it is.
LEMMA ForgottenKeeps ==
  ASSUME HistoryAssumption, HInv, Forgotten, UNCHANGED <<log, answered>>,
         keyFile' \in KeyFile, older' \subseteq KeyFile, generated' \in Nat,
         generated <= generated',
         KeysUpTo(keyFile', generated'), \A ks \in older' : KeysUpTo(ks, generated'),
         kills' \in 0..MaxKills, losses' \in 0..MaxPowerLosses, failures' \in 0..MaxFailures,
         losses' = 0 /\ failures' = 0 => HeldBy(keyFile', LoggedEvents, ShreddedKeys)
  PROVE  HInv' /\ LoggedEvents' = LoggedEvents
<1>1. TypeOK /\ LogSound /\ AnsweredIsKept
  BY DEF HInv
<1>2. LoggedEvents' = LoggedEvents /\ ShreddedKeys' = ShreddedKeys
  BY DEF LoggedEvents, ShreddedKeys
<1>3. LoggedEvents \in Seq(Event)
  BY <1>1, LogType
<1>4. /\ ~ serving'
      /\ history' \in Seq(Event)
      /\ index' \in Seq({"text", "not_utf8", "shredded"})
      /\ Len(index') = Len(history')
      /\ keys' \in KeyFile
      /\ shredded' \subseteq Key
      /\ \A g \in Nat : KeysUpTo(keys', g)
      /\ MemoryFollowsLog'
      /\ DiskFollowsMemory'
  BY ForgottenIsEmpty
<1>5. TypeOK'
  BY <1>1, <1>4 DEF TypeOK, Forgotten
<1>6. LogSound'
  <2>1. \A d \in 1..Len(LoggedEvents) :
          LoggedEvents[d].material \in Nat /\ LoggedEvents[d].material <= generated
    <3>1. \A d \in 1..Len(LoggedEvents) : LoggedEvents[d] \in Event
      BY <1>3
    <3> QED
      BY <1>1, <3>1 DEF LogSound, MaterialsUpTo, Event
  <2>2. generated \in Nat
    BY <1>1 DEF TypeOK
  <2>3. MaterialsUpTo(LoggedEvents, generated')
    BY <2>1, <2>2 DEF MaterialsUpTo
  <2> QED
    BY <1>1, <1>2, <2>3 DEF LogSound
<1>7. AnsweredIsKept'
  BY <1>1, <1>2 DEF AnsweredIsKept
<1>8. NothingAheadOf(Current)'
  BY <1>4 DEF NothingAheadOf, Current
<1>9. DiskHoldsKeys'
  BY <1>2 DEF DiskHoldsKeys
<1> QED
  BY <1>2, <1>4, <1>5, <1>6, <1>7, <1>8, <1>9 DEF HInv

\* Kills keep the invariant.
LEMMA KillKeeps ==
  ASSUME HistoryAssumption, HInv, Kill
  PROVE  HInv' /\ LoggedEvents' = LoggedEvents
<1>1. /\ Forgotten
      /\ kills < MaxKills
      /\ kills' = kills + 1
      /\ UNCHANGED <<log, answered, keyFile, older, generated, losses, failures>>
  BY DEF Kill, disk
<1>2. TypeOK /\ NothingAheadOf(Current) /\ DiskHoldsKeys
  BY DEF HInv
<1>3. /\ keyFile \in KeyFile /\ older \subseteq KeyFile /\ generated \in Nat
      /\ losses \in 0..MaxPowerLosses /\ failures \in 0..MaxFailures
      /\ kills \in 0..MaxKills /\ MaxKills \in Nat
  BY <1>2 DEF TypeOK, HistoryAssumption
<1>4. kills' \in 0..MaxKills /\ generated <= generated
  BY <1>1, <1>3
<1>5. KeysUpTo(keyFile, generated) /\ \A ks \in older : KeysUpTo(ks, generated)
  BY <1>2 DEF NothingAheadOf, Current
<1> QED
  BY <1>1, <1>2, <1>3, <1>4, <1>5, ForgottenKeeps DEF DiskHoldsKeys

\* So do power losses, whichever keys.json they bring back.
LEMMA PowerLossKeeps ==
  ASSUME HistoryAssumption, HInv, NEW ks, PowerLoss(ks)
  PROVE  HInv' /\ LoggedEvents' = LoggedEvents
<1>1. /\ Forgotten
      /\ losses < MaxPowerLosses
      /\ losses' = losses + 1
      /\ ks \in older \cup {keyFile}
      /\ keyFile' = ks
      /\ older' = {}
      /\ UNCHANGED <<log, answered, generated, kills, failures>>
  BY DEF PowerLoss
<1>2. TypeOK /\ NothingAheadOf(Current)
  BY DEF HInv
<1>3. /\ keyFile \in KeyFile /\ older \subseteq KeyFile /\ generated \in Nat
      /\ kills \in 0..MaxKills /\ failures \in 0..MaxFailures
      /\ losses \in 0..MaxPowerLosses /\ MaxPowerLosses \in Nat
  BY <1>2 DEF TypeOK, HistoryAssumption
<1>4. losses' \in 0..MaxPowerLosses /\ losses' # 0 /\ generated <= generated
  BY <1>1, <1>3
<1>5. KeysUpTo(keyFile, generated) /\ \A f \in older : KeysUpTo(f, generated)
  BY <1>2 DEF NothingAheadOf, Current
<1>6. keyFile' \in KeyFile /\ KeysUpTo(keyFile', generated)
  BY <1>1, <1>3, <1>5
<1> QED
  BY <1>1, <1>3, <1>4, <1>6, ForgottenKeeps

\* What a replay makes of the keys: those of the log's events are kept.
LEMMA ReplayHolds ==
  ASSUME HInv, NEW n \in 0..Len(log), losses = 0, failures = 0
  PROVE  HeldBy(Replayed(n, TRUE).keyFile, LoggedEvents, ShreddedKeys)
<1> DEFINE st == Replayed(n, TRUE)
<1>1. /\ TypeOK
      /\ MaterialsUpTo(LoggedEvents, generated)
      /\ NothingAheadOf(Current)
      /\ HeldBy(keyFile, LoggedEvents, ShreddedKeys)
  BY DEF HInv, LogSound, DiskHoldsKeys
<1>2. /\ st.keyFile = st.keys
      /\ \A k \in Key :
           keyFile[k] # None /\ k \notin ShreddedBy(log, n) => st.keys[k] = keyFile[k]
  BY <1>1, ReplayTracks
<1>3. ShreddedBy(log, n) \subseteq ShreddedKeys
  <2>1. 1..n \subseteq 1..Len(log)
    BY <1>1, LogType
  <2> QED
    BY <2>1 DEF ShreddedBy, ShreddedKeys
<1> HIDE DEF st
<1>4. ASSUME NEW d \in 1..Len(LoggedEvents), LoggedEvents[d].key \notin ShreddedKeys
      PROVE  ReadableWith(st.keyFile, LoggedEvents[d])
  <2>1. ReadableWith(keyFile, LoggedEvents[d])
    BY <1>1, <1>4 DEF HeldBy
  <2> QED
    BY <1>2, <1>3, <1>4, <2>1 DEF ReadableWith
<1> QED
  BY <1>4 DEF HeldBy, st

\* So do kills after any part of a replay.
LEMMA KillInOpenKeeps ==
  ASSUME HistoryAssumption, HInv, NEW n \in 1..Len(log), KillInOpen(n)
  PROVE  HInv' /\ LoggedEvents' = LoggedEvents
<1> DEFINE st == Replayed(n, TRUE)
<1>1. /\ Forgotten
      /\ kills < MaxKills
      /\ kills' = kills + 1
      /\ keyFile' = st.keyFile
      /\ older' = st.older
      /\ generated' = st.generated
      /\ UNCHANGED <<log, answered, losses, failures>>
  BY DEF KillInOpen
<1>2. /\ TypeOK
      /\ MaterialsUpTo(LoggedEvents, generated)
      /\ NothingAheadOf(Current)
  BY DEF HInv, LogSound
<1>3. n \in 0..Len(log)
  OBVIOUS
<1>4. st \in Matched /\ NothingAheadOf(st) /\ generated <= st.generated
  BY <1>2, <1>3, ReplayTracks
<1>5. losses' = 0 /\ failures' = 0 => HeldBy(st.keyFile, LoggedEvents, ShreddedKeys)
  BY <1>1, <1>3, ReplayHolds
<1> HIDE DEF st
<1>6. /\ st.keyFile \in KeyFile /\ st.older \subseteq KeyFile /\ st.generated \in Nat
      /\ KeysUpTo(st.keyFile, st.generated)
      /\ \A ks \in st.older : KeysUpTo(ks, st.generated)
  BY <1>4 DEF Matched, StateRec, NothingAheadOf
<1>7. /\ losses \in 0..MaxPowerLosses /\ failures \in 0..MaxFailures
      /\ kills \in 0..MaxKills /\ MaxKills \in Nat
  BY <1>2 DEF TypeOK, HistoryAssumption
<1>8. kills' \in 0..MaxKills
  BY <1>1, <1>7
<1> QED
  BY <1>1, <1>4, <1>5, <1>6, <1>7, <1>8, ForgottenKeeps

\* So does opening the store: the replay makes the memory that the log describes.
LEMMA OpenKeeps ==
  ASSUME HistoryAssumption, HInv, NEW persists \in BOOLEAN, Open(persists)
  PROVE  HInv' /\ LoggedEvents' = LoggedEvents
<1> DEFINE st == Replayed(Len(log), persists)
<1>1. /\ serving' = TRUE
      /\ history' = st.history
      /\ index' = st.index
      /\ keys' = st.keys
      /\ shredded' = st.shredded
      /\ keyFile' = st.keyFile
      /\ older' = st.older
      /\ generated' = st.generated
      /\ persists \/ failures < MaxFailures
      /\ failures' = IF persists THEN failures ELSE failures + 1
      /\ UNCHANGED <<log, answered, kills, losses>>
  BY DEF Open, Becomes, Counted
<1>2. /\ TypeOK
      /\ LogSound
      /\ AnsweredIsKept
      /\ MaterialsUpTo(LoggedEvents, generated)
      /\ NothingAheadOf(Current)
  BY DEF HInv, LogSound
<1>3. Len(log) \in 0..Len(log) /\ LoggedEvents \in Seq(Event)
  BY <1>2, LogType
<1>4. /\ st \in Matched
      /\ Tracks(st, log, Len(log))
      /\ NothingAheadOf(st)
      /\ generated <= st.generated
      /\ persists => st.keyFile = st.keys
  BY <1>2, <1>3, ReplayTracks
<1>5. failures \in 0..MaxFailures /\ MaxFailures \in Nat /\ generated \in Nat
  BY <1>2 DEF TypeOK, HistoryAssumption
<1>6. failures' \in 0..MaxFailures /\ (failures' = 0 => failures = 0 /\ persists)
  BY <1>1, <1>5
<1>7. losses' = 0 /\ failures' = 0 => HeldBy(st.keyFile, LoggedEvents, ShreddedKeys)
  <2> SUFFICES ASSUME losses' = 0, failures' = 0
               PROVE  HeldBy(st.keyFile, LoggedEvents, ShreddedKeys)
    OBVIOUS
  <2>1. losses = 0 /\ failures = 0 /\ persists = TRUE
    BY <1>1, <1>6
  <2> QED
    BY <1>3, <2>1, ReplayHolds
<1> HIDE DEF st
<1>8. LoggedEvents' = LoggedEvents /\ ShreddedKeys' = ShreddedKeys
  BY <1>1 DEF LoggedEvents, ShreddedKeys
<1>9. st \in StateRec /\ Len(st.index) = Len(st.history)
  BY <1>4 DEF Matched
<1>10. TypeOK'
  BY <1>1, <1>2, <1>6, <1>9 DEF TypeOK, StateRec
<1>11. LogSound'
  <2>1. \A d \in 1..Len(LoggedEvents) :
          LoggedEvents[d].material \in Nat /\ LoggedEvents[d].material <= generated
    <3>1. \A d \in 1..Len(LoggedEvents) : LoggedEvents[d] \in Event
      BY <1>3
    <3> QED
      BY <1>2, <3>1 DEF MaterialsUpTo, Event
  <2>2. st.generated \in Nat
    BY <1>9 DEF StateRec
  <2>3. MaterialsUpTo(LoggedEvents, generated')
    BY <1>1, <1>4, <1>5, <2>1, <2>2 DEF MaterialsUpTo
  <2> QED
    BY <1>2, <1>8, <2>3 DEF LogSound
<1>12. AnsweredIsKept'
  BY <1>1, <1>2, <1>8 DEF AnsweredIsKept
<1>13. NothingAheadOf(Current)'
  BY <1>1, <1>4 DEF NothingAheadOf, Current
<1>14. MemoryFollowsLog'
  BY <1>1, <1>4 DEF MemoryFollowsLog, Tracks, Current
<1>15. DiskFollowsMemory'
  BY <1>1, <1>4, <1>6 DEF DiskFollowsMemory
<1>16. DiskHoldsKeys'
  BY <1>1, <1>7, <1>8 DEF DiskHoldsKeys
<1> QED
  BY <1>8, <1>10, <1>11, <1>12, <1>13, <1>14, <1>15, <1>16 DEF HInv

\* The command of a request for keys.
LEMMA KeyCommands ==
  ASSUME TypeOK, NEW k \in Key, NEW op \in {"create_key", "shred_key"}
  PROVE  Committable([op |-> op, key |-> k]) /\ EventsOf([op |-> op, key |-> k]) = <<>>
BY DEF Committable, Command, EventsOf

\* The command of an accepted request with new events.
LEMMA RecordCommand ==
  ASSUME HistoryAssumption, TypeOK, NEW o \in Owner, NEW batch \in Seq(Input),
         BatchAccepted(o, batch)
  PROVE  LET cmd == [op |-> "record", events |-> NewEvents(o, batch)]
         IN  /\ Committable(cmd)
             /\ EventsOf(cmd) = NewEvents(o, batch)
             /\ NewEvents(o, batch) \in Seq(Event)
<1>1. NewEvents(o, batch) \in Seq(Event)
  BY NewEventsAre
<1> QED
  BY <1>1 DEF Committable, Command, EventsOf

\* Only keys are created.
LEMMA CreatedKeysType ==
  ASSUME TypeOK
  PROVE  CreatedKeys \subseteq Key
<1>1. \A n \in 1..Len(log) : log[n] \in Command
  BY DEF TypeOK
<1> QED
  BY <1>1 DEF CreatedKeys, Command

\* A commit that answers nobody new.
LEMMA CommitsKeepAnswers ==
  ASSUME HInv, NEW cmd \in Command, LoggedEvents' = LoggedEvents \o EventsOf(cmd),
         answered' = answered
  PROVE  AnsweredIsKept' /\ answered' \subseteq Fact
<1>1. TypeOK /\ AnsweredIsKept
  BY DEF HInv
<1>2. LoggedEvents \in Seq(Event) /\ EventsOf(cmd) \in Seq(Event)
  BY <1>1, LogType, EventsOfType
<1>3. \A d \in 1..Len(LoggedEvents) :
        d \in 1..Len(LoggedEvents') /\ LoggedEvents'[d] = LoggedEvents[d]
  BY <1>2, ConcatElements
<1> DEFINE Says(e, f) ==
             /\ e.owner = f.owner
             /\ e.id = f.id
             /\ e.conversation = f.conversation
             /\ e.sequence = f.sequence
             /\ e.content = f.content
<1>4. ASSUME NEW f \in answered
      PROVE  \E d \in 1..Len(LoggedEvents') : Says(LoggedEvents'[d], f)
  <2>1. PICK d \in 1..Len(LoggedEvents) : Says(LoggedEvents[d], f)
    BY <1>1 DEF AnsweredIsKept
  <2>2. d \in 1..Len(LoggedEvents') /\ LoggedEvents'[d] = LoggedEvents[d]
    BY <1>3
  <2>3. Says(LoggedEvents'[d], f)
    BY <2>1, <2>2
  <2> QED
    BY <2>2, <2>3
<1>5. AnsweredIsKept'
  BY <1>4 DEF AnsweredIsKept
<1> QED
  BY <1>1, <1>5 DEF TypeOK

\* An answer says what is recorded.
LEMMA AnswersAreTrue ==
  ASSUME HistoryAssumption, HInv, serving, NEW o \in Owner, NEW batch \in Seq(Input),
         BatchAccepted(o, batch), Answered(o, batch),
         LoggedEvents' = LoggedEvents \o NewEvents(o, batch)
  PROVE  AnsweredIsKept' /\ answered' \subseteq Fact
<1> DEFINE old == LoggedEvents
           events == NewEvents(o, batch)
           Says(e, f) ==
             /\ e.owner = f.owner
             /\ e.id = f.id
             /\ e.conversation = f.conversation
             /\ e.sequence = f.sequence
             /\ e.content = f.content
<1>1. TypeOK /\ AnsweredIsKept /\ MemoryFollowsLog
  BY DEF HInv
<1>2. old = history
  BY <1>1 DEF MemoryFollowsLog, Tracks, Current, LoggedEvents
<1>3. /\ events \in Seq(Event)
      /\ \A i \in NewIn(o, batch) :
           \E d \in 1..Len(events) : events[d] = NewEvent(o, batch, i)
  BY <1>1, NewEventsAre
<1>4. old \in Seq(Event)
  BY <1>1, LogType
<1> HIDE DEF events
<1>5. /\ \A d \in 1..Len(old) : d \in 1..Len(LoggedEvents') /\ LoggedEvents'[d] = old[d]
      /\ \A e \in 1..Len(events) :
           Len(old) + e \in 1..Len(LoggedEvents') /\ LoggedEvents'[Len(old) + e] = events[e]
  BY <1>3, <1>4, ConcatElements DEF events
<1>6. \A i \in 1..Len(batch) : FactOf(o, batch[i]) \in Fact
  <2>1. \A i \in 1..Len(batch) : batch[i] \in Input
    OBVIOUS
  <2> QED
    BY <2>1 DEF Input, FactOf, Fact
<1>7. answered' \subseteq Fact
  BY <1>1, <1>6 DEF Answered, TypeOK
<1>8. ASSUME NEW i \in 1..Len(batch)
      PROVE  \E d \in 1..Len(LoggedEvents') : Says(LoggedEvents'[d], FactOf(o, batch[i]))
  <2>1. CASE \E d \in 1..Len(history) :
               /\ history[d].owner = o
               /\ history[d].id = batch[i].id
               /\ history[d].conversation = batch[i].conversation
               /\ history[d].sequence = batch[i].sequence
               /\ history[d].content = batch[i].content
    BY <1>2, <1>5, <2>1 DEF FactOf
  <2>2. CASE \E j \in NewIn(o, batch) :
               /\ batch[j].id = batch[i].id
               /\ batch[j].conversation = batch[i].conversation
               /\ batch[j].sequence = batch[i].sequence
               /\ batch[j].content = batch[i].content
    <3>1. PICK j \in NewIn(o, batch) :
               /\ batch[j].id = batch[i].id
               /\ batch[j].conversation = batch[i].conversation
               /\ batch[j].sequence = batch[i].sequence
               /\ batch[j].content = batch[i].content
      BY <2>2
    <3>2. PICK e \in 1..Len(events) : events[e] = NewEvent(o, batch, j)
      BY <1>3
    <3>3. Says(NewEvent(o, batch, j), FactOf(o, batch[i]))
      BY <3>1 DEF NewEvent, FactOf
    <3>4. /\ Len(old) + e \in 1..Len(LoggedEvents')
          /\ LoggedEvents'[Len(old) + e] = NewEvent(o, batch, j)
      BY <1>5, <3>2
    <3>5. Says(LoggedEvents'[Len(old) + e], FactOf(o, batch[i]))
      BY <3>3, <3>4
    <3> QED
      BY <3>4, <3>5
  <2> QED
    BY <1>1, <2>1, <2>2, AcceptedAreRecorded
<1>9. ASSUME NEW f \in answered
      PROVE  \E d \in 1..Len(LoggedEvents') : Says(LoggedEvents'[d], f)
  <2>1. PICK d \in 1..Len(old) : Says(old[d], f)
    BY <1>1 DEF AnsweredIsKept
  <2>2. d \in 1..Len(LoggedEvents') /\ LoggedEvents'[d] = old[d]
    BY <1>5
  <2>3. Says(LoggedEvents'[d], f)
    BY <2>1, <2>2
  <2> QED
    BY <2>2, <2>3
<1>10. \A f \in answered' : \E d \in 1..Len(LoggedEvents') : Says(LoggedEvents'[d], f)
  <2> HIDE DEF Says
  <2>1. \A f \in answered' :
          f \in answered \/ \E i \in 1..Len(batch) : f = FactOf(o, batch[i])
    BY DEF Answered
  <2> QED
    BY <1>8, <1>9, <2>1
<1> QED
  BY <1>7, <1>10 DEF AnsweredIsKept

\* No new input, no new event.
LEMMA NewEventsEmpty ==
  ASSUME HistoryAssumption, TypeOK, NEW o \in Owner, NEW batch \in Seq(Input)
  PROVE  NewIn(o, batch) = {} <=> NewEvents(o, batch) = <<>>
<1> DEFINE events == NewEvents(o, batch)
<1>1. /\ events \in Seq(Event)
      /\ \A d \in 1..Len(events) : \E i \in NewIn(o, batch) : events[d] = NewEvent(o, batch, i)
      /\ \A i \in NewIn(o, batch) :
           \E d \in 1..Len(events) : events[d] = NewEvent(o, batch, i)
  BY NewEventsAre
<1> HIDE DEF events
<1>2. NewIn(o, batch) = {} => events = <<>>
  <2>1. NewIn(o, batch) = {} => Len(events) = 0
    BY <1>1
  <2> QED
    BY <1>1, <2>1
<1>3. events = <<>> => NewIn(o, batch) = {}
  BY <1>1
<1> QED
  BY <1>2, <1>3 DEF events

-----------------------------------------------------------------------------
(* The refinement of the ledger.                                            *)

LedgerStep == Ledger!Next \/ UNCHANGED Ledger!vars

\* A step that adds nothing to the log stops or opens the ledger, or leaves it as it is.
LEMMA SameLedger ==
  ASSUME HInv, HInv', LoggedEvents' = LoggedEvents
  PROVE  LedgerStep
<1>1. /\ serving => history = LoggedEvents
      /\ ~ serving => history = <<>>
      /\ serving' => history' = LoggedEvents'
      /\ ~ serving' => history' = <<>>
  BY DEF HInv, MemoryFollowsLog, Tracks, Current, LoggedEvents
<1>2. serving \in BOOLEAN /\ serving' \in BOOLEAN
  BY DEF HInv, TypeOK
<1>3. CASE serving' = FALSE
  BY <1>1, <1>3 DEF LedgerStep, Ledger!Next, Ledger!Stop
<1>4. CASE serving' = TRUE /\ serving = FALSE
  BY <1>1, <1>4 DEF LedgerStep, Ledger!Next, Ledger!Open
<1>5. CASE serving' = TRUE /\ serving = TRUE
  BY <1>1, <1>5 DEF LedgerStep, Ledger!vars
<1> QED
  BY <1>2, <1>3, <1>4, <1>5

\* A step that adds events records them.
LEMMA LongerLedger ==
  ASSUME HInv, HInv', serving, NEW events \in Seq(Event), events # <<>>,
         LoggedEvents' = LoggedEvents \o events
  PROVE  LedgerStep
<1>1. /\ serving' => history' = LoggedEvents'
      /\ ~ serving' => history' = <<>>
      /\ Ledger!Consistent(LoggedEvents)'
  BY DEF HInv, MemoryFollowsLog, Tracks, Current, LoggedEvents, LogSound
<1>2. serving \in BOOLEAN /\ serving' \in BOOLEAN
  BY DEF HInv, TypeOK
<1>3. LoggedEvents \in Seq(Event)
  BY LogType DEF HInv
<1> DEFINE old == LoggedEvents
           all == old \o events
<1>4. Len(all) > Len(old)
  <2>1. Len(all) = Len(old) + Len(events)
    BY <1>3, ConcatElements
  <2>2. Len(events) \in Nat /\ Len(events) # 0 /\ Len(old) \in Nat
    BY <1>3
  <2> QED
    BY <2>1, <2>2
<1>5. SubSeq(all, 1, Len(old)) = old
  <2>1. old \in Seq(Event) /\ Len(old) \in Nat
    BY <1>3
  <2>2. CASE Len(old) = 0
    <3>1. old = <<>>
      BY <2>1, <2>2
    <3>2. SubSeq(all, 1, 0) = <<>>
      BY SubSeqEmpty
    <3> QED
      BY <2>2, <3>1, <3>2
  <2>3. CASE Len(old) # 0
    <3>1. 1 \in 1..Len(old) /\ Len(old) \in 1..Len(old)
      BY <2>1, <2>3
    <3> HIDE DEF old
    <3>2. SubSeq(all, 1, Len(old)) = SubSeq(old, 1, Len(old))
      BY <2>1, <3>1, SubSeqOfConcat1
    <3> QED
      BY <2>1, <3>2, SubSeqFull
  <2> QED
    BY <2>2, <2>3
<1> HIDE DEF all
<1>6. LoggedEvents' = all
  BY DEF all
<1>7. /\ Len(LoggedEvents') > Len(LoggedEvents)
      /\ SubSeq(LoggedEvents', 1, Len(LoggedEvents)) = LoggedEvents
  BY <1>4, <1>5, <1>6
<1>8. Ledger!Consistent(LoggedEvents')
  BY <1>1
<1>9. Ledger!Record
  <2>1. CASE serving' = TRUE
    BY <1>1, <1>7, <1>8, <2>1 DEF Ledger!Record
  <2>2. CASE serving' = FALSE
    BY <1>1, <1>7, <1>8, <2>2 DEF Ledger!Record
  <2> QED
    BY <1>2, <2>1, <2>2
<1> QED
  BY <1>9 DEF LedgerStep, Ledger!Next

\* Every step keeps the invariant and is one of the ledger's.
LEMMA NextKeeps ==
  ASSUME HistoryAssumption, HInv, Next
  PROVE  HInv' /\ LedgerStep
<1>1. TypeOK /\ AnsweredIsKept
  BY DEF HInv
<1>2. ASSUME NEW o \in Owner, NEW batch \in Batch, RecordEvents(o, batch)
      PROVE  HInv' /\ LedgerStep
  <2> DEFINE cmd == [op |-> "record", events |-> NewEvents(o, batch)]
  <2>1. batch \in Seq(Input)
    BY BatchType DEF HistoryAssumption
  <2>2. /\ serving
        /\ BatchAccepted(o, batch)
        /\ NewIn(o, batch) # {}
        /\ Commits(cmd, TRUE)
        /\ Answered(o, batch)
    BY <1>2 DEF RecordEvents
  <2>3. /\ Committable(cmd)
        /\ EventsOf(cmd) = NewEvents(o, batch)
        /\ NewEvents(o, batch) \in Seq(Event)
        /\ NewEvents(o, batch) # <<>>
    BY <1>1, <2>1, <2>2, RecordCommand, NewEventsEmpty
  <2> HIDE DEF cmd
  <2>4. /\ answered' \subseteq Fact => TypeOK'
        /\ LogSound'
        /\ NothingAheadOf(Current)'
        /\ MemoryFollowsLog'
        /\ DiskFollowsMemory'
        /\ DiskHoldsKeys'
        /\ LoggedEvents' = LoggedEvents \o NewEvents(o, batch)
    BY <2>2, <2>3, CommitsKeep
  <2>5. AnsweredIsKept' /\ answered' \subseteq Fact
    BY <2>1, <2>2, <2>4, AnswersAreTrue
  <2>6. HInv'
    BY <2>4, <2>5 DEF HInv
  <2> QED
    BY <2>2, <2>3, <2>4, <2>6, LongerLedger
<1>3. ASSUME NEW o \in Owner, NEW batch \in Batch, ResendEvents(o, batch)
      PROVE  HInv' /\ LedgerStep
  <2>1. batch \in Seq(Input)
    BY BatchType DEF HistoryAssumption
  <2>2. /\ serving
        /\ BatchAccepted(o, batch)
        /\ NewIn(o, batch) = {}
        /\ Answered(o, batch)
        /\ UNCHANGED <<log, memory, disk, serving, counters>>
    BY <1>3 DEF ResendEvents
  <2>3. /\ UNCHANGED <<log, history, index, keys, shredded, keyFile, older, generated>>
        /\ UNCHANGED <<serving, kills, losses, failures>>
    BY <2>2 DEF memory, disk, counters
  <2>4. LoggedEvents' = LoggedEvents /\ ShreddedKeys' = ShreddedKeys /\ Current' = Current
    BY <2>3 DEF LoggedEvents, ShreddedKeys, Current
  <2>5. LoggedEvents' = LoggedEvents \o NewEvents(o, batch)
    <3>1. NewEvents(o, batch) = <<>>
      BY <1>1, <2>1, <2>2, NewEventsEmpty
    <3>2. LoggedEvents \in Seq(Event)
      BY <1>1, LogType
    <3> QED
      BY <2>4, <3>1, <3>2, ConcatEmptySeq
  <2>6. AnsweredIsKept' /\ answered' \subseteq Fact
    BY <2>1, <2>2, <2>5, AnswersAreTrue
  <2>7. TypeOK'
    BY <1>1, <2>3, <2>6 DEF TypeOK
  <2>8. LogSound' /\ NothingAheadOf(Current)' /\ DiskFollowsMemory' /\ DiskHoldsKeys'
    BY <2>3, <2>4 DEF HInv, LogSound, NothingAheadOf, DiskFollowsMemory, DiskHoldsKeys
  <2>9. MemoryFollowsLog'
    BY <2>3, <2>4 DEF HInv, MemoryFollowsLog
  <2>10. HInv'
    BY <2>6, <2>7, <2>8, <2>9 DEF HInv
  <2> QED
    BY <2>4, <2>10, SameLedger
<1>4. ASSUME NEW o \in Owner, NEW batch \in Batch, KillInRecord(o, batch)
      PROVE  HInv' /\ LedgerStep
  <2> DEFINE cmd == [op |-> "record", events |-> NewEvents(o, batch)]
  <2>1. batch \in Seq(Input)
    BY BatchType DEF HistoryAssumption
  <2>2. /\ serving
        /\ BatchAccepted(o, batch)
        /\ NewIn(o, batch) # {}
        /\ KilledInCommit(cmd)
    BY <1>4 DEF KillInRecord
  <2>3. /\ Committable(cmd)
        /\ EventsOf(cmd) = NewEvents(o, batch)
        /\ NewEvents(o, batch) \in Seq(Event)
        /\ NewEvents(o, batch) # <<>>
    BY <1>1, <2>1, <2>2, RecordCommand, NewEventsEmpty
  <2> HIDE DEF cmd
  <2>4. /\ answered' \subseteq Fact => TypeOK'
        /\ LogSound'
        /\ NothingAheadOf(Current)'
        /\ MemoryFollowsLog'
        /\ DiskFollowsMemory'
        /\ DiskHoldsKeys'
        /\ LoggedEvents' = LoggedEvents \o EventsOf(cmd)
    BY <2>2, <2>3, KilledCommitsKeep
  <2>5. AnsweredIsKept' /\ answered' \subseteq Fact
    <3>1. answered' = answered /\ cmd \in Command
      BY <2>2, <2>3 DEF KilledInCommit, Committable
    <3> QED
      BY <2>4, <3>1, CommitsKeepAnswers
  <2>6. HInv'
    BY <2>4, <2>5 DEF HInv
  <2> QED
    BY <2>2, <2>3, <2>4, <2>6, LongerLedger
<1>5. ASSUME NEW k \in Key, NEW op \in {"create_key", "shred_key"}, NEW persists \in BOOLEAN,
             serving, answered' = answered,
             \/ Commits([op |-> op, key |-> k], persists)
             \/ KilledInCommit([op |-> op, key |-> k])
      PROVE  HInv' /\ LedgerStep
  <2> DEFINE cmd == [op |-> op, key |-> k]
  <2>1. Committable(cmd) /\ EventsOf(cmd) = <<>> /\ cmd \in Command
    BY <1>1, KeyCommands DEF Committable
  <2>2. Commits(cmd, persists) \/ KilledInCommit(cmd)
    BY <1>5
  <2> HIDE DEF cmd
  <2>3. /\ answered' \subseteq Fact => TypeOK'
        /\ LogSound'
        /\ NothingAheadOf(Current)'
        /\ MemoryFollowsLog'
        /\ DiskFollowsMemory'
        /\ DiskHoldsKeys'
        /\ LoggedEvents' = LoggedEvents \o EventsOf(cmd)
    <3>1. CASE Commits(cmd, persists)
      BY <1>5, <2>1, <3>1, CommitsKeep
    <3>2. CASE KilledInCommit(cmd)
      BY <1>5, <2>1, <3>2, KilledCommitsKeep
    <3> QED
      BY <2>2, <3>1, <3>2
  <2>4. AnsweredIsKept' /\ answered' \subseteq Fact
    BY <1>5, <2>1, <2>3, CommitsKeepAnswers
  <2>5. HInv'
    BY <2>3, <2>4 DEF HInv
  <2>6. LoggedEvents' = LoggedEvents
    <3>1. LoggedEvents \in Seq(Event)
      BY <1>1, LogType
    <3> QED
      BY <2>1, <2>3, <3>1, ConcatEmptySeq
  <2> QED
    BY <2>5, <2>6, SameLedger
<1>6. ASSUME NEW k \in Key, NEW persists \in BOOLEAN,
             CreateKey(k, persists) \/ ShredKey(k, persists)
      PROVE  HInv' /\ LedgerStep
  BY <1>5, <1>6 DEF CreateKey, ShredKey
<1>7. ASSUME Kill
      PROVE  HInv' /\ LedgerStep
  BY <1>7, KillKeeps, SameLedger
<1>8. ASSUME KillInCommit
      PROVE  HInv' /\ LedgerStep
  <2>1. serving
    BY <1>8 DEF KillInCommit
  <2>2. PICK k \in Key, op \in {"create_key", "shred_key"} :
          KilledInCommit([op |-> op, key |-> k])
    BY <1>1, <1>8, CreatedKeysType DEF KillInCommit
  <2>3. answered' = answered
    BY <2>2 DEF KilledInCommit
  <2> QED
    BY <1>5, <2>1, <2>2, <2>3
<1>9. ASSUME NEW ks \in older \cup {keyFile}, PowerLoss(ks)
      PROVE  HInv' /\ LedgerStep
  BY <1>9, PowerLossKeeps, SameLedger
<1>10. ASSUME NEW persists \in BOOLEAN, Open(persists)
       PROVE  HInv' /\ LedgerStep
  BY <1>10, OpenKeeps, SameLedger
<1>11. ASSUME NEW n \in 1..Len(log), KillInOpen(n)
       PROVE  HInv' /\ LedgerStep
  BY <1>11, KillInOpenKeeps, SameLedger
<1> QED
  BY <1>2, <1>3, <1>4, <1>6, <1>7, <1>8, <1>9, <1>10, <1>11 DEF Next

\* So is a step that changes nothing.
LEMMA StutterKeeps ==
  ASSUME HInv, UNCHANGED vars
  PROVE  HInv' /\ LedgerStep
<1>1. /\ UNCHANGED <<log, history, index, keys, shredded, keyFile, older, generated>>
      /\ UNCHANGED <<serving, answered, kills, losses, failures>>
  BY DEF vars
<1>2. LoggedEvents' = LoggedEvents /\ ShreddedKeys' = ShreddedKeys /\ Current' = Current
  BY <1>1 DEF LoggedEvents, ShreddedKeys, Current
<1>3. TypeOK' /\ AnsweredIsKept'
  BY <1>1, <1>2 DEF HInv, TypeOK, AnsweredIsKept
<1>4. LogSound' /\ NothingAheadOf(Current)' /\ DiskFollowsMemory' /\ DiskHoldsKeys'
  BY <1>1, <1>2 DEF HInv, LogSound, NothingAheadOf, DiskFollowsMemory, DiskHoldsKeys
<1>5. MemoryFollowsLog'
  BY <1>1, <1>2 DEF HInv, MemoryFollowsLog
<1>6. HInv'
  BY <1>3, <1>4, <1>5 DEF HInv
<1> QED
  BY <1>2, <1>6, SameLedger

\* The invariant holds in every state that commits, kills, power losses, failed writes of
\* keys.json and replays lead to.
THEOREM Invariance == Spec => []HInv
<1>1. Init => HInv
  BY InitHolds, HistoryAssumption
<1>2. HInv /\ [Next]_vars => HInv'
  BY NextKeeps, StutterKeeps, HistoryAssumption
<1> QED
  BY <1>1, <1>2, PTL DEF Spec

\* Every variable has its type, and every event an entry in the index.
THEOREM TypeCorrect == Spec => []TypeOK
<1>1. HInv => TypeOK
  BY DEF HInv
<1> QED
  BY <1>1, Invariance, PTL

\* Whoever was answered by record_events, at first or to a resend, finds the event in the
\* log as it was sent, whatever happened since.
THEOREM AnswersKept == Spec => []AnsweredIsKept
<1>1. HInv => AnsweredIsKept
  BY DEF HInv
<1> QED
  BY <1>1, Invariance, PTL

\* record_events gives all events of an owner's conversation one source, however the
\* requests asked for visibility and whatever order their sequence numbers come in.
THEOREM OneSourceEach == Spec => []OneSourcePerConversation
<1>1. HInv => OneSourcePerConversation
  BY DEF HInv, LogSound, MemoryFollowsLog, Tracks, Current, LoggedEvents, OneSource,
         OneSourcePerConversation
<1> QED
  BY <1>1, Invariance, PTL

\* The text index of history.rs says of each event whether its text can be read, after any
\* history of shredding, lost or failed keys.json and replays.
THEOREM IndexTruthful == Spec => []IndexIsTrue
<1>1. HInv => IndexIsTrue
  <2> SUFFICES ASSUME HInv
               PROVE  IndexIsTrue
    OBVIOUS
  <2>1. CASE serving
    BY <2>1 DEF HInv, MemoryFollowsLog, Tracks, TrueIndex, Current, IndexIsTrue
  <2>2. CASE ~ serving
    BY <2>2 DEF HInv, MemoryFollowsLog, IndexIsTrue
  <2> QED
    BY <2>1, <2>2
<1> QED
  BY <1>1, Invariance, PTL

\* No event whose key was shredded can be read in an open store, whatever version of
\* keys.json a restart found.
THEOREM ShreddingIsForGood == Spec => []ShreddedForGood
<1>1. HInv => ShreddedForGood
  <2> SUFFICES ASSUME HInv, serving, NEW d \in 1..Len(history),
                      history[d].key \in ShreddedKeys
               PROVE  ~ ReadableWith(keys, history[d])
    BY DEF ShreddedForGood
  <2>1. keys[history[d].key] = None /\ history[d].key \in Key
    BY LogType DEF HInv, MemoryFollowsLog, Tracks, Current
  <2> QED
    BY <2>1 DEF ReadableWith
<1> QED
  BY <1>1, Invariance, PTL

\* An open store has no shredded key in keys.json, as long as writing it never failed.
THEOREM ShreddingReachesDisk == Spec => []ShreddedOffDisk
<1>1. HInv => ShreddedOffDisk
  BY LogType DEF HInv, MemoryFollowsLog, DiskFollowsMemory, Tracks, Current, ShreddedOffDisk
<1> QED
  BY <1>1, Invariance, PTL

\* As long as no power loss took keys.json back and writing it never failed, an open store
\* reads every event whose key was not shredded.
THEOREM KeptKeysKeepEventsReadable == Spec => []ReadableWhileKeysKept
<1>1. HInv => ReadableWhileKeysKept
  BY DEF HInv, MemoryFollowsLog, DiskFollowsMemory, DiskHoldsKeys, HeldBy, Tracks, Current,
         LoggedEvents, ReadableWhileKeysKept, ReadableUnlessShredded
<1> QED
  BY <1>1, Invariance, PTL

\* The detailed specification implements the ledger: the commits that record events are its
\* steps Record, killed or not, stops and openings its Stop and Open, all else stutters.
THEOREM LedgerKept == Spec => KeepsLedger
<1>1. Init => Ledger!Init
  BY InitHolds, HistoryAssumption DEF Init, Ledger!Init
<1>2. HInv /\ [Next]_vars => [Ledger!Next]_(Ledger!vars)
  BY NextKeeps, StutterKeeps, HistoryAssumption DEF LedgerStep
<1> QED
  BY <1>1, <1>2, Invariance, PTL DEF Spec, KeepsLedger, Ledger!Spec
=============================================================================
