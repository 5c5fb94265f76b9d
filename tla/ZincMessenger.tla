--------------------------- MODULE ZincMessenger ---------------------------
(***************************************************************************)
(* The messenger between plugins and the server: ZincMessengerBridge, a    *)
(* map of queues, and ZincServerMessenger, the loop that reads what        *)
(* plugins sent to the server and answers every message in a thread of its *)
(* own.                                                                    *)
(*                                                                         *)
(* The plugins are the callers of the bridge; nothing under src/ starts    *)
(* the loop or registers a target yet, so both are left to them.  A call   *)
(* that holds the bridge's mutex is one action.  getSenders and canRead    *)
(* hold no lock: they are walks with a beginning and an end, and a walk    *)
(* that overlaps a change of the tree it is in has no defined outcome.     *)
(***************************************************************************)
EXTENDS Naturals, FiniteSets, SequencesExt

CONSTANTS
  Plugin,      \* ids of the targets plugins register
  Server,      \* m_serverMessengerId
  Script,      \* what the plugins send, in order of sending
  NoCallback   \* an empty callback id

ASSUME ServerAssumption == Server \notin Plugin

Target == Plugin \cup {Server}
\* The packets parseMessage tells apart: a value, base.test, another call, and
\* a type it does not know.  "n" stands for the packet's content.
Message == [n : Nat, type : {"value", "test", "call", "other"}, callbackId : Nat \cup {NoCallback}]
Reply == [to : Nat, callbackId : Nat \cup {NoCallback}, body : {"none", "bool", "error"}]

\* The packets are numbered, so that no two of them are the same.
ASSUME ScriptAssumption == Script \in Seq(Message) /\ \A i \in DOMAIN Script : Script[i].n = i

VARIABLES
  m_targets,   \* bridge: target -> sender -> queued data
  m_tasks,     \* server messenger: messages handed to threads and unfinished
  joinable,    \* m_workers holds a thread that was started
  threads,     \* running threads: the message and its sender
  loop,        \* start(): where it is, senders to parse, messages being parsed
  walks,       \* unlocked walks over m_targets, by the id they look up
  sent,        \* number of the Script's messages sent
  answered,    \* history: messages whose thread has called send
  alive

bridge == <<m_targets>>
service == <<m_tasks, joinable, threads, answered>>
vars == <<m_targets, m_tasks, joinable, threads, loop, walks, sent, answered, alive>>

EmptyMap == [x \in {} |-> x]

Init ==
  /\ m_targets = EmptyMap
  /\ m_tasks = 0 /\ joinable = FALSE /\ threads = {} /\ answered = {}
  /\ loop = [pc |-> "off", senders |-> {}, batch |-> <<>>, from |-> Server]
  /\ walks = [t \in Target |-> "none"]
  /\ sent = 0 /\ alive = TRUE

Put(f, k, v) == [x \in DOMAIN f \cup {k} |-> IF x = k THEN v ELSE f[x]]
Without(f, k) == [x \in DOMAIN f \ {k} |-> f[x]]

isRegistered(id) == id \in DOMAIN m_targets
\* What send leaves in the queues; data for an unknown target is dropped.
Queued(recvId, senderId, data) ==
  IF ~isRegistered(recvId) THEN m_targets
  ELSE LET queues == m_targets[recvId]
       IN Put(m_targets, recvId,
              Put(queues, senderId, IF senderId \in DOMAIN queues THEN Append(queues[senderId], data)
                                    ELSE <<data>>))

\* A changed set of keys under a walk: of m_targets, or of the queues it is in.
Disturbed ==
  [t \in Target |->
     IF walks[t] = "on" /\ \/ DOMAIN m_targets' # DOMAIN m_targets
                           \/ isRegistered(t) /\ DOMAIN m_targets'[t] # DOMAIN m_targets[t]
     THEN "torn" ELSE walks[t]]

----------------------------------------------------------------------------
(* Plugins. *)

send(recvId, senderId, data) ==
  /\ m_targets' = Queued(recvId, senderId, data)
  /\ walks' = Disturbed

sendToServerTarget(p) ==
  /\ alive /\ sent < Len(Script)
  /\ send(Server, p, Script[sent + 1])
  /\ sent' = sent + 1
  /\ UNCHANGED <<service, loop, alive>>

registerTarget(id) ==
  /\ alive /\ ~isRegistered(id)
  /\ m_targets' = Put(m_targets, id, EmptyMap)
  /\ walks' = Disturbed
  /\ UNCHANGED <<service, loop, sent, alive>>

unregisterTarget(id) ==
  /\ alive /\ isRegistered(id)
  /\ m_targets' = Without(m_targets, id)
  /\ walks' = Disturbed
  /\ UNCHANGED <<service, loop, sent, alive>>

\* What read leaves: the queue is emptied and its sender stays listed.
EmptiedNever(recvId, senderId) == m_targets  \* mutant: messages stay queued
Emptied(recvId, senderId) == Put(m_targets, recvId, Put(m_targets[recvId], senderId, <<>>))

readFromServerTarget(p) ==
  /\ alive /\ isRegistered(p) /\ Server \in DOMAIN m_targets[p]
  /\ m_targets' = Emptied(p, Server)
  /\ UNCHANGED <<service, loop, walks, sent, alive>>

\* A walk begins; its end is EndLook (a plugin's canRead) or getSenders.
BeginWalk(t) == walks[t] = "none" /\ walks' = [walks EXCEPT ![t] = "on"]
EndWalk(t) == walks[t] # "none" /\ walks' = [walks EXCEPT ![t] = "none"]
\* Bound: one plugin looks at a time.
canRead(p) ==
  /\ alive /\ BeginWalk(p) /\ \A q \in Plugin : walks[q] = "none"
  /\ UNCHANGED <<bridge, service, loop, sent, alive>>
\* The operator[] of a walk puts an id back that was erased behind isRegistered:
\* without the lock it changes the map under every other walk.
PutBack(t) ==
  /\ alive /\ walks[t] = "torn" /\ ~isRegistered(t)
  /\ m_targets' = Put(m_targets, t, EmptyMap)
  /\ walks' = Disturbed
  /\ UNCHANGED <<service, loop, sent, alive>>
\* A torn walk may also crash.
EndLook(p) ==
  /\ alive /\ EndWalk(p)
  /\ alive' \in {TRUE, walks[p] # "torn"}
  /\ UNCHANGED <<bridge, service, loop, sent>>

----------------------------------------------------------------------------
(* The loop of the server messenger. *)

Start ==
  /\ alive /\ loop.pc = "off"
  /\ loop' = [loop EXCEPT !.pc = "top"]
  /\ UNCHANGED <<bridge, service, walks, sent, alive>>

getSendersBegin ==
  /\ alive /\ loop.pc = "top" /\ BeginWalk(Server)
  /\ loop' = [loop EXCEPT !.pc = "walking"]
  /\ UNCHANGED <<bridge, service, sent, alive>>

sendersSeveral ==  \* mutant: a target with a single sender is passed over
  IF isRegistered(Server) /\ Cardinality(DOMAIN m_targets[Server]) > 1
  THEN {DOMAIN m_targets[Server]} ELSE {{}}
\* The senders a walk comes back with: those listed, or any when it was torn.
senders ==
  IF walks[Server] = "torn" THEN SUBSET Plugin
  ELSE IF isRegistered(Server) THEN {DOMAIN m_targets[Server]} ELSE {{}}
getSenders ==
  /\ alive /\ loop.pc = "walking" /\ EndWalk(Server)
  /\ \E found \in senders : loop' = [loop EXCEPT !.pc = "parsing", !.senders = found]
  /\ alive' \in {TRUE, walks[Server] # "torn"}
  /\ UNCHANGED <<bridge, service, sent>>

\* parse(): everything one sender has queued is taken at once.
Read(s) ==
  /\ alive /\ loop.pc = "parsing" /\ s \in loop.senders
  /\ LET queued == isRegistered(Server) /\ s \in DOMAIN m_targets[Server]
     IN /\ m_targets' = IF queued THEN Emptied(Server, s) ELSE m_targets
        /\ loop' = [pc |-> "counting", senders |-> loop.senders \ {s}, from |-> s,
                    batch |-> IF queued THEN m_targets[Server][s] ELSE <<>>]
  /\ UNCHANGED <<service, walks, sent, alive>>

\* The messages are counted; assigning m_workers destroys the threads in it,
\* and a started thread that nobody joined ends the process.
CountedOnce(n) == m_tasks + 1  \* mutant: a batch is counted as one message
Counted(n) == m_tasks + n
SurvivesIdle == joinable => m_tasks = 0  \* mutant: finished threads may be destroyed
Survives == ~joinable
AfterThreads(batch) == IF batch = <<>> THEN "parsing" ELSE "starting"
Count ==
  /\ alive /\ loop.pc = "counting"
  /\ m_tasks' = Counted(Len(loop.batch))
  /\ alive' = Survives
  /\ loop' = [loop EXCEPT !.pc = AfterThreads(loop.batch)]
  /\ UNCHANGED <<bridge, joinable, threads, answered, walks, sent>>

StartThread ==
  /\ alive /\ loop.pc = "starting"
  /\ threads' = threads \cup {[from |-> loop.from, message |-> Head(loop.batch)]}
  /\ joinable' = TRUE
  /\ loop' = [loop EXCEPT !.batch = Tail(@), !.pc = AfterThreads(Tail(loop.batch))]
  /\ UNCHANGED <<bridge, m_tasks, answered, walks, sent, alive>>

\* while (m_tasks) {}: m_tasks is not atomic, so a build may wait, take the loop
\* out, or read m_tasks only once.  Behind it m_workers is cleared.
ClearWorkers ==
  /\ alive /\ loop.pc = "parsing" /\ loop.senders = {}
  /\ alive' = Survives
  /\ loop' = [loop EXCEPT !.pc = "top"]
  /\ UNCHANGED <<bridge, service, walks, sent>>
WaitForEver ==
  /\ alive /\ loop.pc = "parsing" /\ loop.senders = {} /\ m_tasks # 0
  /\ loop' = [loop EXCEPT !.pc = "stuck"]
  /\ UNCHANGED <<bridge, service, walks, sent, alive>>

----------------------------------------------------------------------------
(* The threads. *)

AnswerAnonymous(message) ==  \* mutant: a value is answered without its callback id
  [to |-> message.n, callbackId |-> IF message.type = "value" THEN NoCallback ELSE message.callbackId,
   body |-> "none"]
\* Every reply begins with the callback id of its message, if it has one.
Answer(message) ==
  [to |-> message.n, callbackId |-> message.callbackId,
   body |-> CASE message.type = "test" -> "bool" [] message.type = "other" -> "error" [] OTHER -> "none"]

parseMessage(t) ==
  /\ alive /\ t \in threads /\ t \notin answered
  /\ send(t.from, Server, Answer(t.message))
  /\ answered' = answered \cup {t}
  /\ UNCHANGED <<m_tasks, joinable, threads, loop, sent, alive>>

Finish(t) ==
  /\ alive /\ t \in threads \cap answered
  /\ m_tasks' = m_tasks - 1
  /\ threads' = threads \ {t}
  /\ UNCHANGED <<bridge, joinable, answered, loop, walks, sent, alive>>

----------------------------------------------------------------------------
LoopStep ==
  \/ getSendersBegin \/ getSenders \/ Count \/ StartThread
  \/ ClearWorkers \/ WaitForEver
  \/ \E s \in Plugin : Read(s)
Next ==
  \/ \E t \in Target : registerTarget(t) \/ unregisterTarget(t) \/ PutBack(t)
  \/ \E p \in Plugin : sendToServerTarget(p) \/ readFromServerTarget(p) \/ canRead(p) \/ EndLook(p)
  \/ Start
  \/ LoopStep
  \/ \E t \in threads : parseMessage(t) \/ Finish(t)

ThreadSet == [from : Plugin, message : Range(Script)]
\* The operating system runs every thread that can run.
Spec ==
  /\ Init /\ [][Next]_vars
  /\ WF_vars(LoopStep)
  /\ \A t \in ThreadSet : WF_vars(parseMessage(t)) /\ WF_vars(Finish(t))

----------------------------------------------------------------------------
(* Properties. *)

Running == [from : Plugin, message : Message]
\* The types of the bridge's map, the loop and the counters; m_tasks is a
\* size_t, so it may never be decremented below zero.
TypeOK ==
  /\ DOMAIN m_targets \subseteq Target
  /\ \A t \in DOMAIN m_targets :
       /\ DOMAIN m_targets[t] \subseteq Target
       /\ \A s \in DOMAIN m_targets[t] : m_targets[t][s] \in Seq(Message \cup Reply)
  /\ m_tasks \in Nat /\ joinable \in BOOLEAN /\ alive \in BOOLEAN
  /\ threads \subseteq Running /\ answered \subseteq Running
  /\ loop \in [pc : {"off", "top", "walking", "parsing", "counting", "starting", "stuck"},
               senders : SUBSET Plugin, batch : Seq(Message), from : Target]
  /\ walks \in [Target -> {"none", "on", "torn"}]
  /\ sent \in Nat

\* m_tasks is the number of messages handed to threads that have not finished,
\* whatever threads of this and of earlier batches do: what start()'s wait needs.
TasksExact ==
  m_tasks = Cardinality(threads) + IF loop.pc = "starting" THEN Len(loop.batch) ELSE 0

\* Where a message is: in a queue, in the batch that is parsed, in a thread.
Queues == {q \in Target \X Target : q[1] \in DOMAIN m_targets /\ q[2] \in DOMAIN m_targets[q[1]]}
Holds(q, n) ==
  LET queue == m_targets[q[1]][q[2]]
  IN {i \in DOMAIN queue : "n" \in DOMAIN queue[i] /\ queue[i].n = n}
Places(n) ==
  (UNION {{<<"queue", q, i>> : i \in Holds(q, n)} : q \in Queues})
  \cup {<<"batch", i>> : i \in {j \in DOMAIN loop.batch : loop.batch[j].n = n}}
  \cup {<<"thread", t>> : t \in {u \in threads \cup answered : u.message.n = n}}
\* A message is never in two places, so that no thread handles it a second time:
\* send, read, parse and the threads hand it on, each under its own lock or none.
HandledOnce == \A n \in 1 .. sent : Cardinality(Places(n)) <= 1

\* Threads answer in any order; what a plugin finds in its queue from the server
\* is the answer to a message it sent itself, and carries that message's callback.
RepliesMatch ==
  \A p \in Plugin \cap DOMAIN m_targets : Server \in DOMAIN m_targets[p] =>
    \A i \in DOMAIN m_targets[p][Server] : \E t \in answered :
      /\ t.from = p
      /\ t.message.n = m_targets[p][Server][i].to
      /\ t.message.callbackId = m_targets[p][Server][i].callbackId

\* What the code comes to: m_workers is overwritten and cleared with threads in
\* it that nobody joined, so the messages of one sender are all a process answers.
OneSenderServed == \A t, u \in threads \cup answered : t.from = u.from

\* ... and the process ends, unless its wait was compiled to one that never does.
WorkEndsProcess == joinable ~> (~alive \/ loop.pc = "stuck")

\* A message that is queued for a server whose loop runs is answered, unless the
\* process dies, waits for ever, the server is unregistered, or getSenders ran
\* into a change of the map it walks: by a call or by another walk's operator[].
QueuedForServer(n) ==
  isRegistered(Server) /\ \E p \in DOMAIN m_targets[Server] :
    \E i \in DOMAIN m_targets[Server][p] : m_targets[Server][p][i].n = n
ServedUnlessTorn ==
  \A n \in 1 .. Len(Script) :
    (QueuedForServer(n) /\ loop.pc # "off") ~>
      \/ \E t \in answered : t.message.n = n
      \/ ~alive \/ loop.pc = "stuck" \/ ~isRegistered(Server) \/ walks[Server] = "torn"
============================================================================
