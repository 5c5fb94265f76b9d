------------------------ MODULE ZincMessengerProofs ------------------------
(***************************************************************************)
(* Proofs about ZincMessenger for every set of plugins and every script of *)
(* messages they send.                                                     *)
(***************************************************************************)
EXTENDS ZincMessenger, FiniteSetTheorems, TLAPS

-----------------------------------------------------------------------------
(* The bridge's map, seen from its two ends.                               *)

\* What sender s has queued for the server, and what plugin p finds from it.
Inbox(q, s) == IF Server \in DOMAIN q /\ s \in DOMAIN q[Server] THEN q[Server][s] ELSE <<>>
Outbox(q, p) == IF p \in DOMAIN q /\ Server \in DOMAIN q[p] THEN q[p][Server] ELSE <<>>

\* The server hears plugins only, and plugins only the server.
Map(q) ==
  /\ DOMAIN q \subseteq Target
  /\ Server \in DOMAIN q => /\ DOMAIN q[Server] \subseteq Plugin
                            /\ \A s \in DOMAIN q[Server] : q[Server][s] \in Seq(Message)
  /\ \A p \in Plugin \cap DOMAIN q : /\ DOMAIN q[p] \subseteq {Server}
                                     /\ \A s \in DOMAIN q[p] : q[p][s] \in Seq(Reply)

\* A change that takes whole queues away and nothing else.
Shrinks(q, r) ==
  \A p \in Plugin : Inbox(r, p) \in {Inbox(q, p), <<>>} /\ Outbox(r, p) \in {Outbox(q, p), <<>>}

-----------------------------------------------------------------------------
(* The inductive invariant.                                                *)

LoopType ==
  [pc : {"off", "top", "walking", "parsing", "counting", "starting", "stuck"},
   senders : SUBSET Plugin, batch : Seq(Message), from : Target]
WalksType == [Target -> {"none", "on", "torn"}]
Types ==
  /\ Map(m_targets)
  /\ joinable \in BOOLEAN /\ alive \in BOOLEAN
  /\ threads \subseteq Running /\ IsFiniteSet(threads) /\ answered \subseteq Running
  /\ loop \in LoopType
  /\ (loop.pc \in {"counting", "starting"} => loop.from \in Plugin)
  /\ (loop.pc = "starting" => loop.batch # <<>>)
  /\ walks \in WalksType
  /\ sent \in 0 .. Len(Script)

\* A message is in one queue, the batch or a thread, and was sent.
InboxOnce ==
  \A s, u \in Plugin : \A i \in DOMAIN Inbox(m_targets, s), j \in DOMAIN Inbox(m_targets, u) :
    Inbox(m_targets, s)[i].n = Inbox(m_targets, u)[j].n => s = u /\ i = j
BatchOnce ==
  \A i, j \in DOMAIN loop.batch : loop.batch[i].n = loop.batch[j].n => i = j
ThreadOnce ==
  \A t, u \in threads \cup answered : t.message.n = u.message.n => t = u
InboxNotBatch ==
  \A s \in Plugin : \A i \in DOMAIN Inbox(m_targets, s), j \in DOMAIN loop.batch :
    Inbox(m_targets, s)[i].n # loop.batch[j].n
InboxNotThread ==
  \A s \in Plugin : \A i \in DOMAIN Inbox(m_targets, s), t \in threads \cup answered :
    Inbox(m_targets, s)[i].n # t.message.n
BatchNotThread ==
  \A j \in DOMAIN loop.batch, t \in threads \cup answered : loop.batch[j].n # t.message.n
AllSent ==
  /\ \A s \in Plugin : \A i \in DOMAIN Inbox(m_targets, s) : Inbox(m_targets, s)[i].n <= sent
  /\ \A j \in DOMAIN loop.batch : loop.batch[j].n <= sent
  /\ \A t \in threads \cup answered : t.message.n <= sent
Once ==
  /\ InboxOnce /\ BatchOnce /\ ThreadOnce
  /\ InboxNotBatch /\ InboxNotThread /\ BatchNotThread /\ AllSent

\* Every reply in a plugin's queue is the answer of a thread to its message.
Replied ==
  \A p \in Plugin : \A i \in DOMAIN Outbox(m_targets, p) : \E t \in answered :
    t.from = p /\ Answer(t.message) = Outbox(m_targets, p)[i]

\* While the process lives, the threads are those of the batch being started.
OneBatch ==
  /\ threads \cup answered # {} => joinable
  /\ \A t, u \in threads \cup answered : t.from = u.from
  /\ alive /\ loop.pc = "starting" => \A t \in threads \cup answered : t.from = loop.from

IInv == Types /\ Once /\ Replied /\ OneBatch /\ TasksExact

-----------------------------------------------------------------------------
(* What the calls do to the map.                                           *)

LEMMA PutFacts ==
  ASSUME NEW f, NEW k, NEW v
  PROVE  /\ DOMAIN Put(f, k, v) = DOMAIN f \cup {k}
         /\ Put(f, k, v)[k] = v
         /\ \A x \in DOMAIN f : x # k => Put(f, k, v)[x] = f[x]
BY DEF Put

\* A target's queue from one sender is replaced, and no other.
LEMMA ReplaceShape ==
  ASSUME NEW q, Map(q), NEW t \in Target, t \in DOMAIN q, NEW s, NEW v,
         t = Server => s \in Plugin /\ v \in Seq(Message),
         t # Server => s = Server /\ v \in Seq(Reply)
  PROVE  LET r == Put(q, t, Put(q[t], s, v))
         IN /\ Map(r)
            /\ \A p \in Plugin :
                 /\ Inbox(r, p) = IF t = Server /\ p = s THEN v ELSE Inbox(q, p)
                 /\ Outbox(r, p) = IF t = p THEN v ELSE Outbox(q, p)
<1> DEFINE inner == Put(q[t], s, v)
           r == Put(q, t, inner)
<1>1. /\ DOMAIN r = DOMAIN q /\ r[t] = inner
      /\ \A x \in DOMAIN q : x # t => r[x] = q[x]
  BY DEF Put
<1>2. /\ DOMAIN inner = DOMAIN q[t] \cup {s} /\ inner[s] = v
      /\ \A x \in DOMAIN q[t] : x # s => inner[x] = q[t][x]
  BY DEF Put
<1> HIDE DEF inner, r
<1>3. Map(r)
  <2>1. DOMAIN r \subseteq Target
    BY <1>1 DEF Map
  <2>2. ASSUME Server \in DOMAIN r
        PROVE  /\ DOMAIN r[Server] \subseteq Plugin
               /\ \A x \in DOMAIN r[Server] : r[Server][x] \in Seq(Message)
    <3>1. CASE t = Server
      BY <1>1, <1>2, <3>1 DEF Map
    <3>2. CASE t # Server
      BY <1>1, <2>2, <3>2 DEF Map
    <3> QED BY <3>1, <3>2
  <2>3. ASSUME NEW p \in Plugin \cap DOMAIN r
        PROVE  /\ DOMAIN r[p] \subseteq {Server}
               /\ \A x \in DOMAIN r[p] : r[p][x] \in Seq(Reply)
    <3>1. CASE t = p
      <4>1. t # Server
        BY <3>1, ServerAssumption
      <4> QED BY <1>1, <1>2, <3>1, <4>1 DEF Map
    <3>2. CASE t # p
      BY <1>1, <2>3, <3>2 DEF Map
    <3> QED BY <3>1, <3>2
  <2> QED BY <2>1, <2>2, <2>3 DEF Map
<1>4. ASSUME NEW p \in Plugin
      PROVE  /\ Inbox(r, p) = IF t = Server /\ p = s THEN v ELSE Inbox(q, p)
             /\ Outbox(r, p) = IF t = p THEN v ELSE Outbox(q, p)
  <2>1. Inbox(r, p) = IF t = Server /\ p = s THEN v ELSE Inbox(q, p)
    BY <1>1, <1>2 DEF Inbox
  <2>2. Outbox(r, p) = IF t = p THEN v ELSE Outbox(q, p)
    <3>1. p # Server
      BY ServerAssumption
    <3> QED BY <1>1, <1>2, <3>1 DEF Outbox
  <2> QED BY <2>1, <2>2
<1> QED BY <1>3, <1>4 DEF r, inner

LEMMA RegisterShape ==
  ASSUME Map(m_targets), NEW id \in Target, ~isRegistered(id)
  PROVE  /\ Map(Put(m_targets, id, EmptyMap))
         /\ Shrinks(m_targets, Put(m_targets, id, EmptyMap))
<1> DEFINE r == Put(m_targets, id, EmptyMap)
<1>1. /\ DOMAIN r = DOMAIN m_targets \cup {id} /\ r[id] = EmptyMap
      /\ \A x \in DOMAIN m_targets : x # id => r[x] = m_targets[x]
  BY DEF Put
<1>2. DOMAIN EmptyMap = {}
  BY DEF EmptyMap
<1>3. id \notin DOMAIN m_targets
  BY DEF isRegistered
<1> HIDE DEF r
<1>4. Map(r)
  BY <1>1, <1>2, <1>3 DEF Map
<1>5. Shrinks(m_targets, r)
  BY <1>1, <1>2, <1>3 DEF Shrinks, Inbox, Outbox
<1> QED BY <1>4, <1>5 DEF r

LEMMA UnregisterShape ==
  ASSUME Map(m_targets), NEW id
  PROVE  Map(Without(m_targets, id)) /\ Shrinks(m_targets, Without(m_targets, id))
<1> DEFINE r == Without(m_targets, id)
<1>1. DOMAIN r = DOMAIN m_targets \ {id} /\ \A x \in DOMAIN r : r[x] = m_targets[x]
  BY DEF Without
<1> HIDE DEF r
<1>2. Map(r)
  BY <1>1 DEF Map
<1>3. Shrinks(m_targets, r)
  BY <1>1 DEF Shrinks, Inbox, Outbox
<1> QED BY <1>2, <1>3 DEF r

LEMMA EmptiedShape ==
  ASSUME Map(m_targets), NEW t \in Target, t \in DOMAIN m_targets, NEW s \in DOMAIN m_targets[t]
  PROVE  /\ Map(Emptied(t, s)) /\ Shrinks(m_targets, Emptied(t, s))
         /\ t = Server => Inbox(Emptied(t, s), s) = <<>>
<1>1. /\ t = Server => s \in Plugin /\ <<>> \in Seq(Message)
      /\ t # Server => s = Server /\ <<>> \in Seq(Reply)
  BY DEF Map, Target
<1>2. /\ Map(Emptied(t, s))
      /\ \A p \in Plugin :
           /\ Inbox(Emptied(t, s), p) = IF t = Server /\ p = s THEN <<>> ELSE Inbox(m_targets, p)
           /\ Outbox(Emptied(t, s), p) = IF t = p THEN <<>> ELSE Outbox(m_targets, p)
  <2> DEFINE v == <<>>
             r == Put(m_targets, t, Put(m_targets[t], s, v))
  <2>1. /\ t = Server => s \in Plugin /\ v \in Seq(Message)
        /\ t # Server => s = Server /\ v \in Seq(Reply)
    BY <1>1
  <2>2. Emptied(t, s) = r
    BY DEF Emptied
  <2>3. v = <<>>
    OBVIOUS
  <2> HIDE DEF v
  <2>4. /\ Map(r)
        /\ \A p \in Plugin :
             /\ Inbox(r, p) = IF t = Server /\ p = s THEN v ELSE Inbox(m_targets, p)
             /\ Outbox(r, p) = IF t = p THEN v ELSE Outbox(m_targets, p)
    BY <2>1, ReplaceShape
  <2> HIDE DEF r
  <2> QED BY <2>2, <2>3, <2>4
<1> QED BY <1>1, <1>2 DEF Shrinks

\* send() appends to one queue, or drops the data.
LEMMA SendShape ==
  ASSUME Map(m_targets), NEW p \in Plugin, NEW m \in Message
  PROVE  LET r == Queued(Server, p, m)
         IN /\ Map(r)
            /\ \A u \in Plugin : u # p => Inbox(r, u) = Inbox(m_targets, u)
            /\ Inbox(r, p) \in {Inbox(m_targets, p), Append(Inbox(m_targets, p), m)}
            /\ \A u \in Plugin : Outbox(r, u) = Outbox(m_targets, u)
<1> DEFINE r == Queued(Server, p, m)
           queues == m_targets[Server]
           v == IF p \in DOMAIN queues THEN Append(queues[p], m) ELSE <<m>>
<1>1. CASE ~isRegistered(Server)
  <2>1. r = m_targets
    BY <1>1 DEF Queued
  <2> QED BY <2>1
<1>2. CASE isRegistered(Server)
  <2>1. r = Put(m_targets, Server, Put(queues, p, v))
    BY <1>2 DEF Queued
  <2>2. Server \in DOMAIN m_targets
    BY <1>2 DEF isRegistered
  <2>3. v \in Seq(Message)
    BY <2>2 DEF Map
  <2>4. v = Append(Inbox(m_targets, p), m)
    <3>1. CASE p \in DOMAIN queues
      BY <2>2, <3>1 DEF Inbox
    <3>2. CASE p \notin DOMAIN queues
      <4>1. Inbox(m_targets, p) = <<>>
        BY <3>2 DEF Inbox
      <4>2. Append(<<>>, m) = <<m>>
        OBVIOUS
      <4> QED BY <3>2, <4>1, <4>2
    <3> QED BY <3>1, <3>2
  <2> HIDE DEF v
  <2>5. Server \in Target /\ Server # p /\ \A u \in Plugin : Server # u
    BY ServerAssumption DEF Target
  <2>6. /\ Map(r)
        /\ \A u \in Plugin :
             /\ Inbox(r, u) = IF Server = Server /\ u = p THEN v ELSE Inbox(m_targets, u)
             /\ Outbox(r, u) = IF Server = u THEN v ELSE Outbox(m_targets, u)
    <3> HIDE DEF r
    <3> QED BY <2>1, <2>2, <2>3, <2>5, ReplaceShape
  <2> QED BY <2>4, <2>5, <2>6
<1> QED BY <1>1, <1>2

LEMMA AnswerShape ==
  ASSUME Map(m_targets), NEW p \in Plugin, NEW a \in Reply
  PROVE  LET r == Queued(p, Server, a)
         IN /\ Map(r)
            /\ \A u \in Plugin : Inbox(r, u) = Inbox(m_targets, u)
            /\ \A u \in Plugin : u # p => Outbox(r, u) = Outbox(m_targets, u)
            /\ Outbox(r, p) \in {Outbox(m_targets, p), Append(Outbox(m_targets, p), a)}
<1> DEFINE r == Queued(p, Server, a)
           queues == m_targets[p]
           v == IF Server \in DOMAIN queues THEN Append(queues[Server], a) ELSE <<a>>
<1>1. CASE ~isRegistered(p)
  <2>1. r = m_targets
    BY <1>1 DEF Queued
  <2> QED BY <2>1
<1>2. CASE isRegistered(p)
  <2>1. r = Put(m_targets, p, Put(queues, Server, v))
    BY <1>2 DEF Queued
  <2>2. p \in DOMAIN m_targets
    BY <1>2 DEF isRegistered
  <2>3. v \in Seq(Reply)
    BY <2>2 DEF Map
  <2>4. v = Append(Outbox(m_targets, p), a)
    <3>1. CASE Server \in DOMAIN queues
      BY <2>2, <3>1 DEF Outbox
    <3>2. CASE Server \notin DOMAIN queues
      <4>1. Outbox(m_targets, p) = <<>>
        BY <3>2 DEF Outbox
      <4>2. Append(<<>>, a) = <<a>>
        OBVIOUS
      <4> QED BY <3>2, <4>1, <4>2
    <3> QED BY <3>1, <3>2
  <2> HIDE DEF v
  <2>5. p \in Target /\ p # Server
    BY ServerAssumption DEF Target
  <2>6. /\ Map(r)
        /\ \A u \in Plugin :
             /\ Inbox(r, u) = IF p = Server /\ u = Server THEN v ELSE Inbox(m_targets, u)
             /\ Outbox(r, u) = IF p = u THEN v ELSE Outbox(m_targets, u)
    <3> HIDE DEF r
    <3> QED BY <2>1, <2>2, <2>3, <2>5, ReplaceShape
  <2> QED BY <2>4, <2>5, <2>6
<1> QED BY <1>1, <1>2

-----------------------------------------------------------------------------
(* Steps that move no message forward.                                     *)

Quiet ==
  /\ Map(m_targets') /\ Shrinks(m_targets, m_targets')
  /\ UNCHANGED <<service, sent>>
  /\ loop' \in LoopType /\ loop'.batch = loop.batch /\ loop'.from = loop.from
  /\ loop'.pc # loop.pc => {loop.pc, loop'.pc} \cap {"counting", "starting"} = {}
  /\ walks' \in WalksType
  /\ alive' \in BOOLEAN /\ (alive' => alive)

LEMMA DisturbedType ==
  ASSUME walks \in WalksType
  PROVE  Disturbed \in WalksType
BY DEF Disturbed, WalksType

LEMMA ShrinksRefl == Shrinks(m_targets, m_targets)
BY DEF Shrinks

LEMMA QuietSteps ==
  ASSUME Types, [Next]_vars
  PROVE  \/ Quiet
         \/ \E p \in Plugin : sendToServerTarget(p)
         \/ \E s \in Plugin : Read(s)
         \/ Count
         \/ StartThread
         \/ \E t \in threads : parseMessage(t) \/ Finish(t)
<1> USE DEF Types
<1>1. ASSUME NEW t \in Target, registerTarget(t) PROVE Quiet
  <2>1. Map(m_targets') /\ Shrinks(m_targets, m_targets')
    BY <1>1, RegisterShape DEF registerTarget
  <2>2. walks' \in WalksType
    BY <1>1, DisturbedType DEF registerTarget
  <2> QED BY <1>1, <2>1, <2>2 DEF registerTarget, Quiet
<1>2. ASSUME NEW t \in Target, unregisterTarget(t) PROVE Quiet
  <2>1. Map(m_targets') /\ Shrinks(m_targets, m_targets')
    BY <1>2, UnregisterShape DEF unregisterTarget
  <2>2. walks' \in WalksType
    BY <1>2, DisturbedType DEF unregisterTarget
  <2> QED BY <1>2, <2>1, <2>2 DEF unregisterTarget, Quiet
<1>3. ASSUME NEW p \in Plugin, readFromServerTarget(p) PROVE Quiet
  <2>1. p \in Target /\ p \in DOMAIN m_targets /\ Server \in DOMAIN m_targets[p]
    BY <1>3 DEF readFromServerTarget, isRegistered, Target
  <2>2. Map(m_targets') /\ Shrinks(m_targets, m_targets')
    BY <1>3, <2>1, EmptiedShape DEF readFromServerTarget
  <2> QED BY <1>3, <2>2 DEF readFromServerTarget, Quiet
<1>4. ASSUME NEW p \in Plugin, canRead(p) PROVE Quiet
  <2>1. walks' \in WalksType
    BY <1>4 DEF canRead, BeginWalk, WalksType
  <2> QED BY <1>4, <2>1, ShrinksRefl DEF canRead, bridge, Quiet
<1>5. ASSUME NEW p \in Plugin, EndLook(p) PROVE Quiet
  <2>1. walks' \in WalksType
    BY <1>5 DEF EndLook, EndWalk, WalksType
  <2>2. alive' \in BOOLEAN /\ alive
    BY <1>5 DEF EndLook
  <2> QED BY <1>5, <2>1, <2>2, ShrinksRefl DEF EndLook, bridge, Quiet
<1>6. ASSUME Start PROVE Quiet
  BY <1>6, ShrinksRefl DEF Start, bridge, Quiet, LoopType
<1>7. ASSUME getSendersBegin PROVE Quiet
  <2>1. walks' \in WalksType
    BY <1>7 DEF getSendersBegin, BeginWalk, WalksType
  <2>2. loop' \in LoopType /\ loop'.batch = loop.batch /\ loop'.from = loop.from
    BY <1>7 DEF getSendersBegin, LoopType
  <2>3. loop.pc = "top" /\ loop'.pc = "walking"
    BY <1>7 DEF getSendersBegin, LoopType
  <2> QED BY <1>7, <2>1, <2>2, <2>3, ShrinksRefl DEF getSendersBegin, bridge, Quiet
<1>8. ASSUME getSenders PROVE Quiet
  <2>3. walks' \in WalksType
    BY <1>8 DEF getSenders, EndWalk, WalksType
  <2>4. PICK found \in senders : loop' = [loop EXCEPT !.pc = "parsing", !.senders = found]
    BY <1>8 DEF getSenders
  <2>5. found \subseteq Plugin
    BY <2>4 DEF senders, isRegistered, Map
  <2>6. loop' \in LoopType /\ loop'.batch = loop.batch /\ loop'.from = loop.from /\ loop'.pc = "parsing"
    BY <2>4, <2>5 DEF LoopType
  <2>7. loop.pc = "walking"
    BY <1>8 DEF getSenders
  <2>8. alive' \in BOOLEAN /\ alive
    BY <1>8 DEF getSenders
  <2> QED BY <1>8, <2>3, <2>6, <2>7, <2>8, ShrinksRefl DEF getSenders, bridge, Quiet
<1>9. ASSUME ClearWorkers PROVE Quiet
  <2>1. alive' \in BOOLEAN /\ alive
    BY <1>9 DEF ClearWorkers, Survives
  <2>2. loop' \in LoopType /\ loop'.batch = loop.batch /\ loop'.from = loop.from
        /\ loop.pc = "parsing" /\ loop'.pc = "top"
    BY <1>9 DEF ClearWorkers, LoopType
  <2> QED BY <1>9, <2>1, <2>2, ShrinksRefl DEF ClearWorkers, bridge, Quiet
<1>10. ASSUME WaitForEver PROVE Quiet
  <2>1. loop' \in LoopType /\ loop'.batch = loop.batch /\ loop'.from = loop.from
        /\ loop.pc = "parsing" /\ loop'.pc = "stuck"
    BY <1>10 DEF WaitForEver, LoopType
  <2> QED BY <1>10, <2>1, ShrinksRefl DEF WaitForEver, bridge, Quiet
<1>11. ASSUME UNCHANGED vars PROVE Quiet
  BY <1>11, ShrinksRefl DEF vars, service, Quiet
<1>12. ASSUME NEW t \in Target, PutBack(t) PROVE Quiet
  <2>1. Map(m_targets') /\ Shrinks(m_targets, m_targets')
    BY <1>12, RegisterShape DEF PutBack
  <2>2. walks' \in WalksType
    BY <1>12, DisturbedType DEF PutBack
  <2> QED BY <1>12, <2>1, <2>2 DEF PutBack, Quiet
<1> QED BY <1>1, <1>2, <1>3, <1>4, <1>5, <1>6, <1>7, <1>8, <1>9, <1>10, <1>11, <1>12
     DEF Next, LoopStep

-----------------------------------------------------------------------------
(* Every step keeps the invariant.                                         *)

\* Queues that lose their contents, and threads that come to no new message.
LEMMA OnceKept ==
  ASSUME Once, Types,
         \A s \in Plugin : Inbox(m_targets', s) \in {Inbox(m_targets, s), <<>>},
         loop'.batch = loop.batch, sent' = sent,
         threads' \cup answered' \subseteq threads \cup answered
  PROVE  Once'
<1>1. ASSUME NEW s \in Plugin, NEW i \in DOMAIN Inbox(m_targets', s)
      PROVE  /\ i \in DOMAIN Inbox(m_targets, s)
             /\ Inbox(m_targets', s)[i] = Inbox(m_targets, s)[i]
  <2>1. DOMAIN <<>> = {}
    OBVIOUS
  <2> QED BY <2>1
<1>2. InboxOnce'
  BY <1>1 DEF Once, InboxOnce
<1>3. BatchOnce'
  BY DEF Once, BatchOnce
<1>4. ThreadOnce'
  BY DEF Once, ThreadOnce
<1>5. InboxNotBatch'
  BY <1>1 DEF Once, InboxNotBatch
<1>6. InboxNotThread'
  BY <1>1 DEF Once, InboxNotThread
<1>7. BatchNotThread'
  BY DEF Once, BatchNotThread
<1>8. AllSent'
  BY <1>1 DEF Once, AllSent
<1> QED BY <1>2, <1>3, <1>4, <1>5, <1>6, <1>7, <1>8 DEF Once

LEMMA RepliedKept ==
  ASSUME Replied, answered \subseteq answered',
         \A p \in Plugin : Outbox(m_targets', p) \in {Outbox(m_targets, p), <<>>}
  PROVE  Replied'
<1> SUFFICES ASSUME NEW p \in Plugin, NEW i \in DOMAIN Outbox(m_targets', p)
             PROVE  \E t \in answered' : t.from = p /\ Answer(t.message) = Outbox(m_targets', p)[i]
  BY DEF Replied
<1>1. DOMAIN <<>> = {}
  OBVIOUS
<1>2. Outbox(m_targets', p) = Outbox(m_targets, p)
  BY <1>1
<1> QED BY <1>2 DEF Replied

LEMMA QuietKeeps ==
  ASSUME IInv, Quiet
  PROVE  IInv'
<1> USE DEF IInv, Quiet, service
<1>1. Types'
  BY DEF Types
<1>2. Once'
  <2>1. \A s \in Plugin : Inbox(m_targets', s) \in {Inbox(m_targets, s), <<>>}
    BY DEF Shrinks
  <2> QED BY <2>1, OnceKept
<1>3. Replied'
  <2>1. \A p \in Plugin : Outbox(m_targets', p) \in {Outbox(m_targets, p), <<>>}
    BY DEF Shrinks
  <2> QED BY <2>1, RepliedKept
<1>4. loop'.pc = "starting" <=> loop.pc = "starting"
  OBVIOUS
<1>5. OneBatch'
  BY <1>4 DEF OneBatch
<1>6. TasksExact'
  BY <1>4 DEF TasksExact
<1> QED BY <1>1, <1>2, <1>3, <1>5, <1>6

LEMMA NumberType ==
  ASSUME Types
  PROVE  /\ \A s \in Plugin : \A i \in DOMAIN Inbox(m_targets, s) : Inbox(m_targets, s)[i].n \in Nat
         /\ \A j \in DOMAIN loop.batch : loop.batch[j].n \in Nat
         /\ \A t \in threads \cup answered : t.message.n \in Nat
<1>1. \A m \in Message : m.n \in Nat
  BY DEF Message
<1>2. ASSUME NEW s \in Plugin, NEW i \in DOMAIN Inbox(m_targets, s)
      PROVE  Inbox(m_targets, s)[i].n \in Nat
  <2>1. Inbox(m_targets, s) \in Seq(Message)
    BY DEF Types, Map, Inbox
  <2>2. Inbox(m_targets, s)[i] \in Message
    BY <2>1
  <2> QED BY <1>1, <2>2
<1>3. ASSUME NEW j \in DOMAIN loop.batch PROVE loop.batch[j].n \in Nat
  <2>1. loop.batch \in Seq(Message)
    BY DEF Types, LoopType
  <2>2. loop.batch[j] \in Message
    BY <2>1
  <2> QED BY <1>1, <2>2
<1>4. ASSUME NEW t \in threads \cup answered PROVE t.message.n \in Nat
  <2>1. t.message \in Message
    BY DEF Types, Running
  <2> QED BY <1>1, <2>1
<1> QED BY <1>2, <1>3, <1>4

LEMMA SendKeeps ==
  ASSUME IInv, NEW p \in Plugin, sendToServerTarget(p)
  PROVE  IInv'
<1> DEFINE m == Script[sent + 1]
<1> USE DEF IInv
<1>1. sent + 1 \in DOMAIN Script /\ sent' = sent + 1 /\ sent \in Nat
  BY ScriptAssumption DEF Types, sendToServerTarget
<1>2. m \in Message /\ m.n = sent + 1
  BY <1>1, ScriptAssumption
<1>3. m_targets' = Queued(Server, p, m) /\ walks' = Disturbed
  BY DEF sendToServerTarget, send
<1>4. /\ Map(m_targets')
      /\ \A u \in Plugin : u # p => Inbox(m_targets', u) = Inbox(m_targets, u)
      /\ Inbox(m_targets', p) \in {Inbox(m_targets, p), Append(Inbox(m_targets, p), m)}
      /\ \A u \in Plugin : Outbox(m_targets', u) = Outbox(m_targets, u)
  <2> HIDE DEF m
  <2>1. Map(m_targets)
    BY DEF Types
  <2> QED BY <1>2, <1>3, <2>1, SendShape
<1> HIDE DEF m
<1>5. UNCHANGED <<m_tasks, joinable, threads, answered, loop, alive>>
  BY DEF sendToServerTarget, service
<1>6. Types'
  <2>1. walks' \in WalksType
    BY <1>3, DisturbedType DEF Types
  <2> QED BY <1>1, <1>4, <1>5, <2>1, ScriptAssumption DEF Types
<1>7. ASSUME NEW s \in Plugin, NEW i \in DOMAIN Inbox(m_targets', s)
      PROVE  \/ i \in DOMAIN Inbox(m_targets, s) /\ Inbox(m_targets', s)[i] = Inbox(m_targets, s)[i]
             \/ s = p /\ i = Len(Inbox(m_targets, p)) + 1 /\ Inbox(m_targets', s)[i] = m
  <2>1. Inbox(m_targets, p) \in Seq(Message)
    BY DEF Types, Map, Inbox
  <2>2. CASE Inbox(m_targets', s) = Inbox(m_targets, s)
    BY <2>2
  <2>3. CASE s = p /\ Inbox(m_targets', s) = Append(Inbox(m_targets, p), m)
    BY <2>1, <2>3
  <2> QED BY <1>4, <2>2, <2>3
<1>8. /\ \A s \in Plugin : \A i \in DOMAIN Inbox(m_targets, s) : m.n # Inbox(m_targets, s)[i].n
      /\ \A j \in DOMAIN loop.batch : m.n # loop.batch[j].n
      /\ \A t \in threads \cup answered : m.n # t.message.n
  <2>1. \A n \in Nat : n <= sent => n # m.n
    BY <1>1, <1>2
  <2> QED BY <2>1, NumberType DEF Once, AllSent
<1>9. Once'
  <2> USE DEF Once
  <2>1. InboxOnce'
    BY <1>7, <1>8 DEF InboxOnce
  <2>2. BatchOnce'
    BY <1>5 DEF BatchOnce
  <2>3. ThreadOnce'
    BY <1>5 DEF ThreadOnce
  <2>4. InboxNotBatch'
    BY <1>5, <1>7, <1>8 DEF InboxNotBatch
  <2>5. InboxNotThread'
    BY <1>5, <1>7, <1>8 DEF InboxNotThread
  <2>6. BatchNotThread'
    BY <1>5 DEF BatchNotThread
  <2>7. AllSent'
    <3>1. ASSUME NEW s \in Plugin, NEW i \in DOMAIN Inbox(m_targets', s)
          PROVE  Inbox(m_targets', s)[i].n <= sent + 1
      <4>1. CASE i \in DOMAIN Inbox(m_targets, s) /\ Inbox(m_targets', s)[i] = Inbox(m_targets, s)[i]
        <5>2. Inbox(m_targets, s)[i].n \in Nat
          BY <4>1, NumberType
        <5>3. Inbox(m_targets, s)[i].n <= sent
          BY <4>1 DEF AllSent
        <5> QED BY <1>1, <4>1, <5>2, <5>3
      <4>2. CASE Inbox(m_targets', s)[i] = m
        BY <1>1, <1>2, <4>2
      <4> QED BY <1>7, <4>1, <4>2
    <3>2. \A j \in DOMAIN loop.batch : loop.batch[j].n <= sent + 1
      <4>1. \A j \in DOMAIN loop.batch : loop.batch[j].n \in Nat /\ loop.batch[j].n <= sent
        BY NumberType DEF AllSent
      <4> QED BY <1>1, <4>1
    <3>3. \A t \in threads \cup answered : t.message.n <= sent + 1
      <4>1. \A t \in threads \cup answered : t.message.n \in Nat /\ t.message.n <= sent
        BY NumberType DEF AllSent
      <4> QED BY <1>1, <4>1
    <3> QED BY <1>1, <1>5, <3>1, <3>2, <3>3 DEF AllSent
  <2> QED BY <2>1, <2>2, <2>3, <2>4, <2>5, <2>6, <2>7
<1>10. Replied'
  BY <1>4, <1>5, RepliedKept
<1>11. OneBatch'
  BY <1>5 DEF OneBatch
<1>12. TasksExact'
  BY <1>5 DEF TasksExact
<1> QED BY <1>6, <1>9, <1>10, <1>11, <1>12

LEMMA ReadKeeps ==
  ASSUME IInv, NEW s \in Plugin, Read(s)
  PROVE  IInv'
<1> USE DEF IInv
<1>1. /\ alive /\ loop.pc = "parsing"
      /\ UNCHANGED <<service, walks, sent, alive>>
  BY DEF Read
<1>2. /\ Map(m_targets') /\ Shrinks(m_targets, m_targets')
      /\ Inbox(m_targets', s) = <<>> /\ loop'.batch = Inbox(m_targets, s)
      /\ loop'.pc = "counting" /\ loop'.from = s /\ loop'.senders = loop.senders \ {s}
      /\ loop' = [pc |-> "counting", senders |-> loop.senders \ {s}, from |-> s,
                  batch |-> Inbox(m_targets, s)]
  <2> DEFINE queued == isRegistered(Server) /\ s \in DOMAIN m_targets[Server]
  <2>1. /\ m_targets' = IF queued THEN Emptied(Server, s) ELSE m_targets
        /\ loop' = [pc |-> "counting", senders |-> loop.senders \ {s}, from |-> s,
                    batch |-> IF queued THEN m_targets[Server][s] ELSE <<>>]
    BY DEF Read
  <2>2. Inbox(m_targets, s) = IF queued THEN m_targets[Server][s] ELSE <<>>
    BY DEF Inbox, isRegistered
  <2>3. Map(m_targets') /\ Shrinks(m_targets, m_targets') /\ Inbox(m_targets', s) = <<>>
    <3>1. CASE queued
      <4>1. Map(m_targets) /\ Server \in Target
        BY DEF Types, Target
      <4> QED BY <2>1, <3>1, <4>1, EmptiedShape DEF isRegistered
    <3>2. CASE ~queued
      BY <2>1, <2>2, <3>2, ShrinksRefl DEF Types
    <3> QED BY <3>1, <3>2
  <2> QED BY <2>1, <2>2, <2>3
<1>3. Inbox(m_targets, s) \in Seq(Message)
  BY DEF Types, Map, Inbox
<1>4. Types'
  <2>1. loop' \in LoopType
    BY <1>2, <1>3 DEF Types, LoopType, Target
  <2> QED BY <1>1, <1>2, <2>1 DEF Types, service
<1>5. ASSUME NEW u \in Plugin, NEW i \in DOMAIN Inbox(m_targets', u)
      PROVE  /\ u # s /\ i \in DOMAIN Inbox(m_targets, u)
             /\ Inbox(m_targets', u)[i] = Inbox(m_targets, u)[i]
  <2>1. DOMAIN <<>> = {}
    OBVIOUS
  <2> QED BY <1>2, <2>1 DEF Shrinks
<1>6. Once'
  <2> USE DEF Once, service
  <2>1. InboxOnce'
    BY <1>5 DEF InboxOnce
  <2>2. BatchOnce'
    BY <1>2 DEF InboxOnce, BatchOnce
  <2>3. ThreadOnce'
    BY <1>1 DEF ThreadOnce
  <2>4. InboxNotBatch'
    BY <1>2, <1>5 DEF InboxOnce, InboxNotBatch
  <2>5. InboxNotThread'
    BY <1>1, <1>5 DEF InboxNotThread
  <2>6. BatchNotThread'
    BY <1>1, <1>2 DEF InboxNotThread, BatchNotThread
  <2>7. AllSent'
    BY <1>1, <1>2, <1>5 DEF AllSent
  <2> QED BY <2>1, <2>2, <2>3, <2>4, <2>5, <2>6, <2>7
<1>7. Replied'
  BY <1>1, <1>2, RepliedKept DEF Shrinks, service
<1>8. OneBatch'
  BY <1>1, <1>2 DEF OneBatch, service
<1>9. TasksExact'
  BY <1>1, <1>2 DEF TasksExact, service
<1> QED BY <1>4, <1>6, <1>7, <1>8, <1>9

LEMMA CountKeeps ==
  ASSUME IInv, Count
  PROVE  IInv'
<1> USE DEF IInv
<1>1. /\ alive /\ loop.pc = "counting" /\ loop.from \in Plugin
      /\ m_tasks' = m_tasks + Len(loop.batch)
      /\ alive' = ~joinable
      /\ loop' = [loop EXCEPT !.pc = AfterThreads(loop.batch)]
      /\ UNCHANGED <<bridge, joinable, threads, answered, walks, sent>>
  BY DEF Count, Counted, Survives, Types
<1>2. /\ loop'.batch = loop.batch /\ loop'.from = loop.from /\ loop' \in LoopType
      /\ loop'.pc = IF loop.batch = <<>> THEN "parsing" ELSE "starting"
  BY <1>1 DEF AfterThreads, Types, LoopType
<1>3. Types'
  BY <1>1, <1>2 DEF Types, bridge
<1>4. Once'
  BY <1>1, <1>2, OnceKept DEF bridge
<1>5. Replied'
  BY <1>1, RepliedKept DEF bridge
<1>6. OneBatch'
  <2>1. (threads \cup answered)' = threads \cup answered /\ joinable' = joinable
    BY <1>1
  <2>2. alive' => threads \cup answered = {}
    BY <1>1 DEF OneBatch
  <2> QED BY <2>1, <2>2 DEF OneBatch
<1>7. TasksExact'
  <2>1. m_tasks = Cardinality(threads) + 0
    BY <1>1 DEF TasksExact
  <2>2. Cardinality(threads) \in Nat /\ loop.batch \in Seq(Message)
    BY FS_CardinalityType DEF Types, LoopType
  <2>3. m_tasks' = Cardinality(threads) + Len(loop.batch)
    BY <1>1, <2>1, <2>2
  <2>4. loop.batch = <<>> => Len(loop.batch) = 0
    OBVIOUS
  <2> QED BY <1>1, <1>2, <2>2, <2>3, <2>4 DEF TasksExact
<1> QED BY <1>3, <1>4, <1>5, <1>6, <1>7

LEMMA StartKeeps ==
  ASSUME IInv, StartThread
  PROVE  IInv'
<1> DEFINE t == [from |-> loop.from, message |-> Head(loop.batch)]
<1> USE DEF IInv
<1>1. /\ alive /\ loop.pc = "starting" /\ loop.from \in Plugin
      /\ threads' = threads \cup {t} /\ joinable' = TRUE
      /\ loop' = [loop EXCEPT !.batch = Tail(@), !.pc = AfterThreads(Tail(loop.batch))]
      /\ UNCHANGED <<bridge, m_tasks, answered, walks, sent, alive>>
  BY DEF StartThread, Types
<1>2. /\ loop.batch \in Seq(Message) /\ loop.batch # <<>>
      /\ Head(loop.batch) = loop.batch[1] /\ 1 \in DOMAIN loop.batch
      /\ Head(loop.batch) \in Message /\ Tail(loop.batch) \in Seq(Message)
      /\ Len(Tail(loop.batch)) = Len(loop.batch) - 1 /\ Len(loop.batch) \in Nat
      /\ \A j \in DOMAIN Tail(loop.batch) :
           j + 1 \in DOMAIN loop.batch /\ j + 1 # 1 /\ Tail(loop.batch)[j] = loop.batch[j + 1]
  <2>1. loop.batch \in Seq(Message) /\ loop.batch # <<>>
    BY <1>1 DEF Types, LoopType
  <2> QED BY <2>1
<1>3. /\ loop'.batch = Tail(loop.batch) /\ loop'.from = loop.from /\ loop' \in LoopType
      /\ loop'.pc = IF Tail(loop.batch) = <<>> THEN "parsing" ELSE "starting"
  BY <1>1, <1>2 DEF AfterThreads, Types, LoopType
<1>4. t \in Running /\ t.from = loop.from /\ t.message = loop.batch[1]
  BY <1>1, <1>2 DEF Running
<1> HIDE DEF t
<1>5. ASSUME NEW u \in (threads \cup answered)' PROVE u \in threads \cup answered \/ u = t
  BY <1>1
<1>6. Types'
  <2>1. IsFiniteSet(threads')
    BY <1>1, FS_AddElement DEF Types
  <2> QED BY <1>1, <1>3, <1>4, <2>1 DEF Types, bridge
<1>7. Once'
  <2> USE DEF Once, bridge
  <2>1. InboxOnce'
    BY <1>1 DEF InboxOnce
  <2>2. BatchOnce'
    <3> SUFFICES ASSUME NEW i \in DOMAIN Tail(loop.batch), NEW j \in DOMAIN Tail(loop.batch),
                        Tail(loop.batch)[i].n = Tail(loop.batch)[j].n
                 PROVE  i = j
      BY <1>3 DEF BatchOnce
    <3>1. i + 1 = j + 1
      BY <1>2 DEF BatchOnce
    <3>2. i \in Nat /\ j \in Nat
      BY <1>2
    <3> QED BY <3>1, <3>2
  <2>3. ThreadOnce'
    BY <1>2, <1>4, <1>5 DEF ThreadOnce, BatchNotThread
  <2>4. InboxNotBatch'
    BY <1>1, <1>2, <1>3 DEF InboxNotBatch
  <2>5. InboxNotThread'
    BY <1>1, <1>2, <1>4, <1>5 DEF InboxNotThread, InboxNotBatch
  <2>6. BatchNotThread'
    BY <1>2, <1>3, <1>4, <1>5 DEF BatchNotThread, BatchOnce
  <2>7. AllSent'
    <3>1. sent' = sent /\ m_targets' = m_targets
      BY <1>1
    <3>2. \A j \in DOMAIN Tail(loop.batch) : Tail(loop.batch)[j].n <= sent
      BY <1>2 DEF AllSent
    <3>3. t.message.n <= sent
      BY <1>2, <1>4 DEF AllSent
    <3> QED BY <1>3, <1>5, <3>1, <3>2, <3>3 DEF AllSent
  <2> QED BY <2>1, <2>2, <2>3, <2>4, <2>5, <2>6, <2>7
<1>8. Replied'
  BY <1>1, RepliedKept DEF bridge
<1>9. OneBatch'
  <2>1. \A u \in threads \cup answered : u.from = loop.from
    BY <1>1 DEF OneBatch
  <2> QED BY <1>1, <1>3, <1>4, <1>5, <2>1 DEF OneBatch
<1>10. TasksExact'
  <2>1. t \notin threads
    BY <1>2, <1>4 DEF Once, BatchNotThread
  <2>2. Cardinality(threads') = Cardinality(threads) + 1 /\ Cardinality(threads) \in Nat
    BY <1>1, <2>1, FS_AddElement, FS_CardinalityType DEF Types
  <2>3. m_tasks = Cardinality(threads) + Len(loop.batch)
    BY <1>1 DEF TasksExact
  <2>4. m_tasks' = m_tasks
    BY <1>1
  <2>5. m_tasks' = Cardinality(threads') + Len(Tail(loop.batch))
    BY <1>2, <2>2, <2>3, <2>4
  <2>6. CASE Tail(loop.batch) = <<>>
    <3>1. Len(<<>>) = 0
      OBVIOUS
    <3>2. Len(Tail(loop.batch)) = 0
      BY <2>6, <3>1, Zenon
    <3>3. loop'.pc # "starting"
      BY <1>3, <2>6
    <3> QED BY <2>5, <3>2, <3>3 DEF TasksExact
  <2>7. CASE Tail(loop.batch) # <<>>
    <3>1. loop'.pc = "starting" /\ loop'.batch = Tail(loop.batch)
      BY <1>3, <2>7
    <3> HIDE DEF TasksExact
    <3> QED BY <2>5, <3>1 DEF TasksExact
  <2> QED BY <2>6, <2>7
<1> QED BY <1>6, <1>7, <1>8, <1>9, <1>10

LEMMA AnswerKeeps ==
  ASSUME IInv, NEW t \in threads, parseMessage(t)
  PROVE  IInv'
<1> DEFINE a == Answer(t.message)
<1> USE DEF IInv
<1>1. /\ m_targets' = Queued(t.from, Server, a) /\ walks' = Disturbed
      /\ answered' = answered \cup {t}
      /\ UNCHANGED <<m_tasks, joinable, threads, loop, sent, alive>>
  BY DEF parseMessage, send
<1>2. t.from \in Plugin /\ t.message \in Message /\ t \in Running
  BY DEF Types, Running
<1>3. a \in Reply
  BY <1>2 DEF Answer, Message, Reply
<1> HIDE DEF a
<1>4. /\ Map(m_targets')
      /\ \A u \in Plugin : Inbox(m_targets', u) = Inbox(m_targets, u)
      /\ \A u \in Plugin : u # t.from => Outbox(m_targets', u) = Outbox(m_targets, u)
      /\ Outbox(m_targets', t.from) \in {Outbox(m_targets, t.from), Append(Outbox(m_targets, t.from), a)}
  <2>1. Map(m_targets)
    BY DEF Types
  <2> QED BY <1>1, <1>2, <1>3, <2>1, AnswerShape
<1>5. Types'
  <2>1. walks' \in WalksType
    BY <1>1, DisturbedType DEF Types
  <2> QED BY <1>1, <1>2, <1>4, <2>1 DEF Types
<1>6. Once'
  BY <1>1, <1>4, OnceKept
<1>7. Replied'
  <2> SUFFICES ASSUME NEW p \in Plugin, NEW i \in DOMAIN Outbox(m_targets', p)
               PROVE  \E u \in answered' : u.from = p /\ Answer(u.message) = Outbox(m_targets', p)[i]
    BY DEF Replied
  <2>1. CASE i \in DOMAIN Outbox(m_targets, p) /\ Outbox(m_targets', p)[i] = Outbox(m_targets, p)[i]
    BY <1>1, <2>1 DEF Replied
  <2>2. CASE p = t.from /\ Outbox(m_targets', p)[i] = a
    BY <1>1, <2>2 DEF a
  <2>3. Outbox(m_targets, p) \in Seq(Reply)
    BY DEF Types, Map, Outbox
  <2>4. CASE Outbox(m_targets', p) = Append(Outbox(m_targets, p), a) /\ p = t.from
    BY <2>1, <2>2, <2>3, <2>4
  <2> QED BY <1>4, <2>1, <2>4
<1>8. OneBatch'
  BY <1>1 DEF OneBatch
<1>9. TasksExact'
  BY <1>1 DEF TasksExact
<1> QED BY <1>5, <1>6, <1>7, <1>8, <1>9

LEMMA FinishKeeps ==
  ASSUME IInv, NEW t \in threads, Finish(t)
  PROVE  IInv'
<1> USE DEF IInv
<1>1. /\ t \in answered /\ m_tasks' = m_tasks - 1 /\ threads' = threads \ {t}
      /\ UNCHANGED <<bridge, joinable, answered, loop, walks, sent, alive>>
  BY DEF Finish
<1>2. /\ IsFiniteSet(threads') /\ Cardinality(threads) \in Nat
      /\ Cardinality(threads') = Cardinality(threads) - 1
  BY <1>1, FS_RemoveElement, FS_CardinalityType DEF Types
<1>3. Types'
  BY <1>1, <1>2 DEF Types, bridge
<1>4. Once'
  BY <1>1, OnceKept DEF bridge
<1>5. Replied'
  BY <1>1, RepliedKept DEF bridge
<1>6. OneBatch'
  BY <1>1 DEF OneBatch
<1>7. TasksExact'
  <2>1. Len(loop.batch) \in Nat
    BY DEF Types, LoopType
  <2> QED BY <1>1, <1>2, <2>1 DEF TasksExact
<1> QED BY <1>3, <1>4, <1>5, <1>6, <1>7
-----------------------------------------------------------------------------
(* The theorems.                                                           *)

LEMMA InitIInv == Init => IInv
<1> SUFFICES ASSUME Init PROVE IInv
  OBVIOUS
<1>1. /\ m_targets = EmptyMap /\ m_tasks = 0 /\ joinable = FALSE /\ threads = {} /\ answered = {}
      /\ loop = [pc |-> "off", senders |-> {}, batch |-> <<>>, from |-> Server]
      /\ walks = [t \in Target |-> "none"] /\ sent = 0 /\ alive = TRUE
  BY DEF Init
<1>2. DOMAIN m_targets = {} /\ DOMAIN <<>> = {}
  BY <1>1 DEF EmptyMap
<1>3. \A p : Inbox(m_targets, p) = <<>> /\ Outbox(m_targets, p) = <<>>
  BY <1>2 DEF Inbox, Outbox
<1>4. Types
  <2>1. Map(m_targets)
    BY <1>2 DEF Map
  <2>2. loop \in LoopType /\ walks \in WalksType
    BY <1>1 DEF LoopType, WalksType, Target
  <2>3. IsFiniteSet(threads) /\ 0 \in 0 .. Len(Script)
    BY <1>1, FS_EmptySet, ScriptAssumption
  <2>4. loop.pc = "off"
    BY <1>1
  <2> QED BY <1>1, <2>1, <2>2, <2>3, <2>4 DEF Types
<1>5. Once
  <2>1. DOMAIN loop.batch = {} /\ threads \cup answered = {}
    BY <1>1, <1>2
  <2> QED BY <1>2, <1>3, <2>1 DEF Once, InboxOnce, BatchOnce, ThreadOnce, InboxNotBatch, InboxNotThread,
                                  BatchNotThread, AllSent
<1>6. Replied
  BY <1>2, <1>3 DEF Replied
<1>7. OneBatch
  BY <1>1 DEF OneBatch
<1>8. TasksExact
  <2>1. Cardinality(threads) = 0 /\ loop.pc = "off"
    BY <1>1, FS_EmptySet
  <2> QED BY <1>1, <2>1 DEF TasksExact
<1> QED BY <1>4, <1>5, <1>6, <1>7, <1>8 DEF IInv

LEMMA NextIInv == IInv /\ [Next]_vars => IInv'
<1> SUFFICES ASSUME IInv, [Next]_vars PROVE IInv'
  OBVIOUS
<1>1. Types
  BY DEF IInv
<1> QED BY <1>1, QuietSteps, QuietKeeps, SendKeeps, ReadKeeps, CountKeeps, StartKeeps, AnswerKeeps, FinishKeeps

\* The invariant holds of every behaviour of plugins, loop and threads.
THEOREM Inductive == Spec => []IInv
<1>1. Init => IInv
  BY InitIInv
<1>2. IInv /\ [Next]_vars => IInv'
  BY NextIInv
<1> QED BY <1>1, <1>2, PTL DEF Spec

\* The counter start() waits for never wraps: every variable keeps its type.
THEOREM TypeCorrect == Spec => []TypeOK
<1>1. IInv => TypeOK
  <2> SUFFICES ASSUME IInv PROVE TypeOK
    OBVIOUS
  <2> USE DEF IInv
  <2>1. m_tasks \in Nat
    <3>1. Cardinality(threads) \in Nat /\ Len(loop.batch) \in Nat
      BY FS_CardinalityType DEF Types, LoopType
    <3> QED BY <3>1 DEF TasksExact
  <2>2. ASSUME NEW t \in DOMAIN m_targets
        PROVE  /\ DOMAIN m_targets[t] \subseteq Target
               /\ \A s \in DOMAIN m_targets[t] : m_targets[t][s] \in Seq(Message \cup Reply)
    <3>1. \A q : q \in Seq(Message) \/ q \in Seq(Reply) => q \in Seq(Message \cup Reply)
      OBVIOUS
    <3>2. CASE t = Server
      BY <3>1, <3>2 DEF Types, Map, Target
    <3>3. CASE t \in Plugin
      BY <3>1, <3>3 DEF Types, Map, Target
    <3> QED BY <3>2, <3>3 DEF Types, Map, Target
  <2>3. sent \in Nat
    BY ScriptAssumption DEF Types
  <2> QED BY <2>1, <2>2, <2>3 DEF Types, Map, LoopType, WalksType, TypeOK
<1> QED BY <1>1, Inductive, PTL

\* m_tasks is what start()'s wait takes it for, at every moment and for any
\* number of senders and messages.
THEOREM TasksCorrect == Spec => []TasksExact
<1>1. IInv => TasksExact
  BY DEF IInv
<1> QED BY <1>1, Inductive, PTL

\* What a plugin reads from the server are answers to its own messages, with
\* their callback ids.
THEOREM RepliesCorrect == Spec => []RepliesMatch
<1>1. IInv => RepliesMatch
  <2> SUFFICES ASSUME IInv, NEW p \in Plugin \cap DOMAIN m_targets, Server \in DOMAIN m_targets[p],
                      NEW i \in DOMAIN m_targets[p][Server]
               PROVE  \E t \in answered :
                        /\ t.from = p
                        /\ t.message.n = m_targets[p][Server][i].to
                        /\ t.message.callbackId = m_targets[p][Server][i].callbackId
    BY DEF RepliesMatch
  <2>1. Outbox(m_targets, p) = m_targets[p][Server]
    BY DEF Outbox
  <2>2. PICK t \in answered : t.from = p /\ Answer(t.message) = m_targets[p][Server][i]
    BY <2>1 DEF IInv, Replied
  <2>3. Answer(t.message).to = t.message.n /\ Answer(t.message).callbackId = t.message.callbackId
    BY DEF Answer
  <2> QED BY <2>2, <2>3
<1> QED BY <1>1, Inductive, PTL

\* parse() over threads nobody joined: a process answers the messages of at most
\* one sender, whatever the schedule.
THEOREM OneSenderCorrect == Spec => []OneSenderServed
<1>1. IInv => OneSenderServed
  BY DEF IInv, OneBatch, OneSenderServed
<1> QED BY <1>1, Inductive, PTL

\* Where a message can be.
LEMMA PlaceForms ==
  ASSUME IInv, NEW n \in Nat, NEW x \in Places(n)
  PROVE  \/ \E s \in Plugin : \E i \in DOMAIN Inbox(m_targets, s) :
              Inbox(m_targets, s)[i].n = n /\ x = <<"queue", <<Server, s>>, i>>
         \/ \E j \in DOMAIN loop.batch : loop.batch[j].n = n /\ x = <<"batch", j>>
         \/ \E t \in threads \cup answered : t.message.n = n /\ x = <<"thread", t>>
<1> DEFINE InQueues == UNION {{<<"queue", q, i>> : i \in Holds(q, n)} : q \in Queues}
           Batch == {<<"batch", i>> : i \in {j \in DOMAIN loop.batch : loop.batch[j].n = n}}
           Threads == {<<"thread", t>> : t \in {u \in threads \cup answered : u.message.n = n}}
<1>0. x \in InQueues \cup Batch \cup Threads
  BY DEF Places
<1>1. CASE x \in InQueues
  <2>1. PICK q \in Queues : x \in {<<"queue", q, i>> : i \in Holds(q, n)}
    BY <1>1
  <2>2. PICK i \in Holds(q, n) : x = <<"queue", q, i>>
    BY <2>1
  <2>3. /\ q = <<q[1], q[2]>> /\ q[1] \in Target /\ q[2] \in Target
        /\ q[1] \in DOMAIN m_targets /\ q[2] \in DOMAIN m_targets[q[1]]
    BY DEF Queues
  <2>4. /\ i \in DOMAIN m_targets[q[1]][q[2]]
        /\ "n" \in DOMAIN m_targets[q[1]][q[2]][i] /\ m_targets[q[1]][q[2]][i].n = n
    BY <2>2 DEF Holds
  <2>5. q[1] \notin Plugin
    <3> SUFFICES ASSUME q[1] \in Plugin PROVE FALSE
      OBVIOUS
    <3>1. m_targets[q[1]][q[2]] \in Seq(Reply)
      BY <2>3 DEF IInv, Types, Map
    <3>2. m_targets[q[1]][q[2]][i] \in Reply
      BY <2>4, <3>1
    <3>3. DOMAIN m_targets[q[1]][q[2]][i] = {"to", "callbackId", "body"}
      BY <3>2 DEF Reply
    <3> QED BY <2>4, <3>3
  <2>6. q[1] = Server /\ q[2] \in Plugin
    BY <2>3, <2>5 DEF Target, IInv, Types, Map
  <2>7. Inbox(m_targets, q[2]) = m_targets[q[1]][q[2]]
    BY <2>3, <2>6 DEF Inbox
  <2> QED BY <2>2, <2>3, <2>4, <2>6, <2>7
<1>2. CASE x \in Batch
  BY <1>2
<1>3. CASE x \in Threads
  BY <1>3
<1> HIDE DEF InQueues, Batch, Threads
<1> QED BY <1>0, <1>1, <1>2, <1>3

\* Sends, reads, the loop and the threads hand a message on and never copy it,
\* so that no second thread handles it.
THEOREM HandledOnceCorrect == Spec => []HandledOnce
<1>1. IInv => HandledOnce
  <2> SUFFICES ASSUME IInv, NEW n \in 1 .. sent PROVE Cardinality(Places(n)) <= 1
    BY DEF HandledOnce
  <2>1. n \in Nat
    BY DEF IInv, Types
  <2>2. ASSUME NEW x \in Places(n), NEW y \in Places(n) PROVE x = y
    <3> USE DEF IInv, Once
    <3>1. CASE \E s \in Plugin : \E i \in DOMAIN Inbox(m_targets, s) :
                 Inbox(m_targets, s)[i].n = n /\ x = <<"queue", <<Server, s>>, i>>
      BY <2>1, <3>1, PlaceForms DEF InboxOnce, InboxNotBatch, InboxNotThread
    <3>2. CASE \E j \in DOMAIN loop.batch : loop.batch[j].n = n /\ x = <<"batch", j>>
      BY <2>1, <3>2, PlaceForms DEF BatchOnce, InboxNotBatch, BatchNotThread
    <3>3. CASE \E t \in threads \cup answered : t.message.n = n /\ x = <<"thread", t>>
      BY <2>1, <3>3, PlaceForms DEF ThreadOnce, InboxNotThread, BatchNotThread
    <3> QED BY <2>1, <3>1, <3>2, <3>3, PlaceForms
  <2>3. CASE Places(n) = {}
    <3>1. Cardinality(Places(n)) = 0
      BY <2>3, FS_EmptySet, Zenon
    <3> QED BY <3>1
  <2>4. CASE Places(n) # {}
    <3>1. PICK x \in Places(n) : TRUE
      BY <2>4
    <3>2. Places(n) = {x}
      BY <2>2, <3>1
    <3>3. Cardinality({x}) = 1
      BY FS_Singleton, Zenon
    <3>4. Cardinality(Places(n)) = 1
      BY <3>2, <3>3, Zenon
    <3> QED BY <3>4
  <2> QED BY <2>3, <2>4
<1> QED BY <1>1, Inductive, PTL
=============================================================================
