---------------------------- MODULE LanguageServers ----------------------------
(***************************************************************************)
(* The pool of language servers and the sessions with them (valyria-lsp):  *)
(* a server is started under the pool's mutex, asked over a queue that a   *)
(* writer task drains, answered through a table of pending requests that   *)
(* a reader task serves, and given up after a deadline or with its stream. *)
(*                                                                         *)
(* The server is external: it answers in any order or not at all, asks     *)
(* something itself and blocks, breaks the framing, or exits.  A request   *)
(* is its id, an answer says whose it is; documents and positions are data.*)
(***************************************************************************)
EXTENDS Integers, Sequences, FiniteSets

CONSTANTS
  Languages,
  Configured,    \* languages of DEFAULT_SERVERS
  Callers,       \* tasks that use the pool
  NoCaller,
  Ops,           \* what they do with it
  MaxServers,    \* PoolConfig.max_servers
  MaxSessions,   \* bound: servers started
  MaxIds,        \* bound: requests made of one server
  MaxCalls,      \* bound: calls of the pool
  MaxFaults      \* bound: how often servers block, break the framing or exit

ASSUME LanguageServersAssumption ==
  /\ IsFiniteSet(Languages) /\ Configured \subseteq Languages
  /\ NoCaller \notin Callers
  /\ Ops \subseteq {"query", "open", "shutdown"}
  /\ {MaxServers, MaxSessions, MaxIds} \subseteq Nat \ {0}
  /\ {MaxCalls, MaxFaults} \subseteq Nat

Sessions == 1..MaxSessions
Ids == 1..MaxIds
Nobody == 0
Reasons == {"NoServerConfigured", "NotInstalled", "FailedToStart"}
Replies == {"open", "ok", "error"}

VARIABLES
  slots,     \* LspPool.slots: the session of each Slot::Running
  why,       \* LspPool.slots: the reason of each Slot::Unavailable
  lock,      \* who holds their mutex
  at,        \* where each caller is
  calls,     \* calls begun
  born,      \* sessions there have been
  language,  \* per session, what it serves
  pending,   \* LspClient.pending: ids with a sender in the table
  reply,     \* per id, what its oneshot holds
  nextId,    \* LspClient.next_id
  able,      \* LspClient.capabilities
  outgoing,  \* queue the writer task drains
  writer,    \* the writer task
  reader,    \* the reader task
  proc,      \* the server process
  blocked,   \* the server waits for an answer of ours
  seen,      \* requests the server has read and may still answer
  incoming,  \* what the server wrote and the reader has not read
  faults     \* how often servers have misbehaved

callers == <<at, calls>>
pool    == <<slots, why, lock>>
table   == <<pending, reply, nextId>>
tasks   == <<writer, reader>>
server  == <<proc, blocked, seen>>
past    == <<born, language, faults>>
vars == <<pool, callers, past, table, able, outgoing, tasks, server, incoming>>

Idle == [pc |-> "idle", op |-> "query", lang |-> "none", s |-> Nobody, id |-> 0, then |-> "none",
         rest |-> {}]

Set(c, pc) == at' = [at EXCEPT ![c].pc = pc]
Returns(c) == at' = [at EXCEPT ![c] = Idle]

IsAlive(s) == s # Nobody /\ writer[s] = "running"

Running == {l \in Languages : slots[l] # Nobody}

\* Who waits for the answer to request id of session s.
Waits(c, s, id) ==
  /\ at[c].pc \in {"send", "wait"}
  /\ at[c].s = s /\ at[c].id = id

-----------------------------------------------------------------------------
(* LspPool::client_for, under the mutex.                                   *)

Begin(c, op, l) ==
  /\ at[c].pc = "idle" /\ calls < MaxCalls
  /\ at' = [at EXCEPT ![c] = [Idle EXCEPT !.pc = "lock", !.op = op, !.lang = l]]
  /\ calls' = calls + 1
  /\ UNCHANGED <<pool, past, table, able, outgoing, tasks, server, incoming>>

\* A server that lives is used; the mutex is given back.
UsesRunning(c) ==
  /\ at[c].pc = "lock" /\ at[c].op # "shutdown" /\ lock = NoCaller
  /\ IsAlive(slots[at[c].lang])
  /\ at' = [at EXCEPT ![c].pc = "use", ![c].s = slots[at[c].lang]]
  /\ UNCHANGED <<pool, calls, past, table, able, outgoing, tasks, server, incoming>>

\* Faulty variant of Killed: dropping a server leaves its process running.
KilledNot(s) == proc

\* A server that died is dropped, which kills its process (kill_on_drop).
HasNone(l) == ~IsAlive(slots[l])
Dropped(l) == [slots EXCEPT ![l] = Nobody]
Killed(s) == IF s = Nobody THEN proc ELSE [proc EXCEPT ![s] = "gone"]

IsFull(l) == Cardinality(Running \ {l}) >= MaxServers

\* What a process that is gone had read dies with it.
Forgotten(procs) ==
  /\ seen' = [s \in Sessions |-> IF procs[s] = "gone" THEN {} ELSE seen[s]]
  /\ blocked' = [s \in Sessions |-> blocked[s] /\ procs[s] # "gone"]

\* No client: unavailable, not configured, or the pool is full.
DoesWithout(c) ==
  LET l == at[c].lang
  IN /\ at[c].pc = "lock" /\ at[c].op # "shutdown" /\ lock = NoCaller
     /\ HasNone(l)
     /\ \/ why[l] # "none" /\ UNCHANGED why
        \/ why[l] = "none" /\ l \notin Configured /\ why' = [why EXCEPT ![l] = "NoServerConfigured"]
        \/ why[l] = "none" /\ l \in Configured /\ IsFull(l) /\ UNCHANGED why
     /\ slots' = Dropped(l)
     /\ proc' = Killed(slots[l]) /\ Forgotten(proc')
     /\ Returns(c)
     /\ UNCHANGED <<lock, calls, past, table, able, outgoing, tasks, incoming>>

MayStart(c) ==
  LET l == at[c].lang
  IN /\ at[c].pc = "lock" /\ at[c].op # "shutdown" /\ lock = NoCaller
     /\ HasNone(l)
     /\ why[l] = "none" /\ l \in Configured /\ ~IsFull(l)

\* A failed start is remembered.
Remembered(l, reason) == [why EXCEPT ![l] = reason]

\* server::spawn fails: not installed, or not to be started.
SpawnFails(c, reason) ==
  /\ MayStart(c)
  /\ why' = Remembered(at[c].lang, reason)
  /\ slots' = Dropped(at[c].lang)
  /\ proc' = Killed(slots[at[c].lang]) /\ Forgotten(proc')
  /\ Returns(c)
  /\ UNCHANGED <<lock, calls, past, table, able, outgoing, tasks, incoming>>

\* Faulty variant of HeldBy: the mutex is given back before the server is up.
HeldByNobody(c) == NoCaller

\* The mutex is kept for as long as the server takes to start.
HeldBy(c) == c

\* server::spawn and LspClient::connect.
Spawn(c) ==
  /\ MayStart(c) /\ born < MaxSessions
  /\ born' = born + 1
  /\ language' = [language EXCEPT ![born'] = at[c].lang]
  /\ slots' = Dropped(at[c].lang)
  /\ proc' = [Killed(slots[at[c].lang]) EXCEPT ![born'] = "up"] /\ Forgotten(proc')
  /\ writer' = [writer EXCEPT ![born'] = "running"]
  /\ reader' = [reader EXCEPT ![born'] = "running"]
  /\ lock' = HeldBy(c)
  /\ at' = [at EXCEPT ![c].pc = "request", ![c].s = born', ![c].then = "init"]
  /\ UNCHANGED <<why, calls, faults, table, able, outgoing, incoming>>

-----------------------------------------------------------------------------
(* LspClient::request.                                                     *)

Request(c) ==
  /\ at[c].pc = "request"
  /\ LET s == at[c].s
     IN /\ nextId[s] < MaxIds
        /\ nextId' = [nextId EXCEPT ![s] = @ + 1]
        /\ pending' = [pending EXCEPT ![s] = @ \union {nextId'[s]}]
        /\ at' = [at EXCEPT ![c].pc = "send", ![c].id = nextId'[s]]
  /\ UNCHANGED <<pool, calls, past, reply, able, outgoing, tasks, server, incoming>>

Message(kind, id) == [kind |-> kind, id |-> id]

\* The queue takes anything as long as the writer task is there to drain it.
Queue(s, message) ==
  outgoing' = [outgoing EXCEPT ![s] = IF IsAlive(s) THEN Append(@, message) ELSE @]

Send(c) ==
  /\ at[c].pc = "send" /\ IsAlive(at[c].s)
  /\ Queue(at[c].s, Message("request", at[c].id))
  /\ Set(c, "wait")
  /\ UNCHANGED <<pool, calls, past, table, able, tasks, server, incoming>>

\* What a request comes to decides what its caller does next.
GoesOn(c, good) ==
  CASE at[c].then = "init" -> IF good THEN "ready" ELSE "bye"
    [] at[c].then = "bye"  -> "exit"
    [] OTHER               -> "idle"

Resume(c, good) ==
  at' = [at EXCEPT ![c] = IF GoesOn(c, good) = "idle" THEN Idle
                          ELSE [@ EXCEPT !.pc = GoesOn(c, good), !.id = 0]]

SendFails(c) ==
  /\ at[c].pc = "send" /\ ~IsAlive(at[c].s)
  /\ pending' = [pending EXCEPT ![at[c].s] = @ \ {at[c].id}]
  /\ Resume(c, FALSE)
  /\ UNCHANGED <<pool, calls, past, reply, nextId, able, outgoing, tasks, server,
                 incoming>>

\* The answer to `initialize` says what the server can do.
Receive(c) ==
  LET s == at[c].s
      good == reply[s][at[c].id] = "ok"
  IN /\ at[c].pc = "wait" /\ reply[s][at[c].id] # "open"
     /\ Resume(c, good)
     /\ IF at[c].then = "init" /\ good THEN \E can \in BOOLEAN : able' = [able EXCEPT ![s] = can]
                                       ELSE able' = able
     /\ reply' = [reply EXCEPT ![s][at[c].id] = "open"]
     /\ UNCHANGED <<pool, calls, past, pending, nextId, outgoing, tasks, server, incoming>>

\* Nobody waits any more.
Forgets(s, id) == pending[s] \ {id}

\* Faulty variant of HasDeadline: the handshake has none.
HasDeadlineLater(c) == at[c].then # "init"

\* Every request has a deadline.
HasDeadline(c) == TRUE

TimesOut(c) ==
  LET s == at[c].s
  IN /\ at[c].pc = "wait" /\ reply[s][at[c].id] = "open" /\ HasDeadline(c)
     /\ pending' = [pending EXCEPT ![s] = Forgets(s, at[c].id)]
     /\ Resume(c, FALSE)
     /\ UNCHANGED <<pool, calls, past, reply, nextId, able, outgoing, tasks, server,
                    incoming>>

-----------------------------------------------------------------------------
(* What a caller does with a client, and how a server is put down.         *)

\* A query the server cannot answer is not sent.
UseQuery(c) ==
  /\ at[c].pc = "use" /\ at[c].op = "query"
  /\ at' = [at EXCEPT ![c] = IF able[at[c].s] THEN [@ EXCEPT !.pc = "request", !.then = "query"]
                             ELSE Idle]
  /\ UNCHANGED <<pool, calls, past, table, able, outgoing, tasks, server, incoming>>

UseOpen(c) ==
  /\ at[c].pc = "use" /\ at[c].op = "open"
  /\ Queue(at[c].s, Message("note", 0))
  /\ Returns(c)
  /\ UNCHANGED <<pool, calls, past, table, able, tasks, server, incoming>>

\* `initialized` is sent, the slot is filled, the mutex given back.
Ready(c) ==
  /\ at[c].pc = "ready"
  /\ Queue(at[c].s, Message("note", 0))
  /\ slots' = [slots EXCEPT ![at[c].lang] = at[c].s]
  /\ lock' = NoCaller
  /\ Set(c, "use")
  /\ UNCHANGED <<why, calls, past, table, able, tasks, server, incoming>>

\* RunningServer::terminate asks first.
Bye(c) ==
  /\ at[c].pc = "bye"
  /\ at' = [at EXCEPT ![c].pc = "request", ![c].then = "bye"]
  /\ UNCHANGED <<pool, calls, past, table, able, outgoing, tasks, server, incoming>>

Exit(c) ==
  /\ at[c].pc = "exit"
  /\ Queue(at[c].s, Message("exit", 0))
  /\ Set(c, "reap")
  /\ UNCHANGED <<pool, calls, past, table, able, tasks, server, incoming>>

\* It has exited or is killed.  After a failed start the pool goes on without
\* it; at shutdown the next server is put down.
Reap(c) ==
  /\ at[c].pc = "reap"
  /\ proc' = Killed(at[c].s) /\ Forgotten(proc')
  /\ IF at[c].op # "shutdown"
       THEN /\ why' = Remembered(at[c].lang, "FailedToStart")
                      /\ lock' = NoCaller
            /\ Returns(c)
       ELSE /\ at' = [at EXCEPT ![c].pc = "next"]
            /\ UNCHANGED <<why, lock>>
  /\ UNCHANGED <<slots, calls, past, table, able, outgoing, tasks, incoming>>

\* LspPool::shutdown_all empties the slots and lets the mutex go.
ShutdownAll(c) ==
  /\ at[c].pc = "lock" /\ at[c].op = "shutdown" /\ lock = NoCaller
  /\ at' = [at EXCEPT ![c].pc = "next", ![c].rest = {slots[l] : l \in Running}]
  /\ slots' = [l \in Languages |-> Nobody] /\ why' = [l \in Languages |-> "none"]
  /\ UNCHANGED <<lock, calls, past, table, able, outgoing, tasks, server, incoming>>

ShutdownNext(c) ==
  /\ at[c].pc = "next"
  /\ IF at[c].rest = {} THEN Returns(c)
     ELSE \E s \in at[c].rest :
            at' = [at EXCEPT ![c].pc = "bye", ![c].s = s, ![c].rest = @ \ {s}]
  /\ UNCHANGED <<pool, calls, past, table, able, outgoing, tasks, server, incoming>>

-----------------------------------------------------------------------------
(* The two tasks of a session.                                             *)

\* A write fails only once the process is gone.
Writes(s) ==
  /\ writer[s] = "running" /\ outgoing[s] # <<>>
  /\ LET message == Head(outgoing[s])
     IN IF proc[s] = "gone"
          THEN /\ writer' = [writer EXCEPT ![s] = "ended"]
               /\ outgoing' = [outgoing EXCEPT ![s] = <<>>]
               /\ UNCHANGED <<seen, blocked>>
          ELSE /\ outgoing' = [outgoing EXCEPT ![s] = Tail(@)]
               /\ seen' = [seen EXCEPT ![s] = IF message.kind = "request" /\ reader[s] = "running"
                                                   THEN @ \union {message.id}
                                                   ELSE @]
               /\ blocked' = [blocked EXCEPT ![s] = @ /\ message.kind # "answer"]
               /\ UNCHANGED writer
  /\ UNCHANGED <<pool, callers, past, table, able, reader, proc, incoming>>

\* Faulty variant of Addressee: answers are taken to come in order.
FirstPending(s, id) == {i \in pending[s] : \A j \in pending[s] : i <= j}

\* The request an answer is for, if somebody still waits for it.
Addressee(s, id) == {id} \intersect pending[s]

\* Faulty variant of Reaction: what a server asks is ignored.
ReactionNone(s) == outgoing

\* What a server asks is answered, with nothing.
Reaction(s) == [outgoing EXCEPT ![s] = IF IsAlive(s) THEN Append(@, Message("answer", 0)) ELSE @]

\* dispatch
Dispatch(s) ==
  /\ reader[s] = "running" /\ incoming[s] # <<>>
  /\ LET message == Head(incoming[s])
     IN \/ /\ message.kind \in {"ok", "error"}
           /\ LET to == Addressee(s, message.id)
              IN /\ pending' = [pending EXCEPT ![s] = @ \ to]
                 /\ reply' = [reply EXCEPT ![s] =
                                [i \in Ids |-> IF i \in to THEN message.kind ELSE @[i]]]
           /\ UNCHANGED outgoing
        \/ /\ message.kind = "ask"
           /\ outgoing' = Reaction(s)
           /\ UNCHANGED <<pending, reply>>
  /\ incoming' = [incoming EXCEPT ![s] = Tail(@)]
  /\ UNCHANGED <<pool, callers, past, nextId, able, tasks, server>>

\* The stream has ended, or a frame is malformed: whoever waits is told so.
ReaderEnds(s) ==
  /\ reader[s] = "running"
  /\ IF incoming[s] = <<>> THEN proc[s] = "gone" ELSE Head(incoming[s]).kind = "garbage"
  /\ reader' = [reader EXCEPT ![s] = "ended"]
  /\ pending' = [pending EXCEPT ![s] = {}]
  /\ reply' = [reply EXCEPT ![s] =
                 [i \in Ids |-> IF i \in pending[s] THEN "error" ELSE @[i]]]
  /\ incoming' = [incoming EXCEPT ![s] = <<>>]
  /\ seen' = [seen EXCEPT ![s] = {}]
  /\ UNCHANGED <<pool, callers, past, nextId, able, outgoing, writer, proc, blocked>>

-----------------------------------------------------------------------------
(* The server.                                                             *)

Writable(s) == proc[s] = "up" /\ ~blocked[s] /\ reader[s] = "running"

\* Bound: servers misbehave so often.
Misbehaves ==
  /\ faults < MaxFaults /\ faults' = faults + 1
  /\ UNCHANGED <<born, language>>

ServerSays(s, message) ==
  /\ incoming' = [incoming EXCEPT ![s] = Append(@, message)]
  /\ UNCHANGED <<pool, callers, table, able, outgoing, tasks, proc>>

\* In any order, or never.
ServerAnswers(s, id, kind) ==
  /\ Writable(s) /\ id \in seen[s]
  /\ seen' = [seen EXCEPT ![s] = @ \ {id}]
  /\ ServerSays(s, Message(kind, id))
  /\ UNCHANGED <<past, blocked>>

\* client/registerCapability and the like: it does nothing until answered.
\* Bound: only while it starts, when everybody waits for it.
ServerAsks(s) ==
  /\ Writable(s) /\ nextId[s] = 1
  /\ blocked' = [blocked EXCEPT ![s] = TRUE]
  /\ ServerSays(s, Message("ask", 0)) /\ Misbehaves
  /\ UNCHANGED seen

ServerGarbles(s) ==
  /\ Writable(s) /\ incoming[s] = <<>>
  /\ ServerSays(s, Message("garbage", 0)) /\ Misbehaves
  /\ UNCHANGED <<seen, blocked>>

ServerExits(s) ==
  /\ proc[s] = "up"
  /\ proc' = Killed(s) /\ Forgotten(proc') /\ Misbehaves
  /\ UNCHANGED <<pool, callers, table, able, outgoing, tasks, incoming>>

-----------------------------------------------------------------------------

Init ==
  /\ slots = [l \in Languages |-> Nobody] /\ why = [l \in Languages |-> "none"]
  /\ lock = NoCaller
  /\ at = [c \in Callers |-> Idle] /\ calls = 0
  /\ born = 0 /\ faults = 0
  /\ language = [s \in Sessions |-> "none"]
  /\ pending = [s \in Sessions |-> {}]
  /\ reply = [s \in Sessions |-> [i \in Ids |-> "open"]]
  /\ nextId = [s \in Sessions |-> 0]
  /\ able = [s \in Sessions |-> FALSE]
  /\ outgoing = [s \in Sessions |-> <<>>]
  /\ writer = [s \in Sessions |-> "none"] /\ reader = [s \in Sessions |-> "none"]
  /\ proc = [s \in Sessions |-> "none"]
  /\ blocked = [s \in Sessions |-> FALSE]
  /\ seen = [s \in Sessions |-> {}]
  /\ incoming = [s \in Sessions |-> <<>>]

\* The caller goes on with a call it has begun.
CallerSteps(c) ==
  \/ UsesRunning(c) \/ DoesWithout(c)
  \/ \E reason \in {"NotInstalled", "FailedToStart"} : SpawnFails(c, reason)
  \/ Spawn(c)
  \/ Request(c) \/ Send(c) \/ SendFails(c) \/ Receive(c) \/ TimesOut(c)
  \/ UseQuery(c) \/ UseOpen(c) \/ Ready(c)
  \/ Bye(c) \/ Exit(c) \/ Reap(c)
  \/ ShutdownAll(c) \/ ShutdownNext(c)

TaskSteps(s) == Writes(s) \/ Dispatch(s) \/ ReaderEnds(s)

ServerSteps(s) ==
  \/ \E id \in Ids, kind \in {"ok", "error"} : ServerAnswers(s, id, kind)
  \/ ServerAsks(s) \/ ServerGarbles(s) \/ ServerExits(s)

Next ==
  \/ \E c \in Callers : CallerSteps(c)
  \/ \E c \in Callers, op \in Ops, l \in Languages : Begin(c, op, l)
  \/ \E s \in Sessions : TaskSteps(s)
  \/ \E s \in Sessions : ServerSteps(s)

Spec == Init /\ [][Next]_vars

\* Callers are polled and deadlines pass.  Servers owe nothing, and even the
\* two tasks of a session may be late.
FairSpec == Spec /\ \A c \in Callers : WF_vars(CallerSteps(c))

-----------------------------------------------------------------------------
(* Properties.                                                             *)

Ends == {"none", "running", "ended"}

Places == {"idle", "lock", "use", "request", "send", "wait", "ready", "bye", "exit", "reap", "next"}

Caller ==
  [pc : Places, op : {"query", "open", "shutdown"}, lang : Languages \union {"none"},
   s : Sessions \union {Nobody}, id : Ids \union {0},
   then : {"none", "init", "query", "bye"}, rest : SUBSET Sessions]

TypeOK ==
  /\ slots \in [Languages -> Sessions \union {Nobody}]
  /\ why \in [Languages -> Reasons \union {"none"}]
  /\ lock \in Callers \union {NoCaller}
  /\ {calls, faults} \subseteq Nat /\ born \in Sessions \union {0}
  /\ at \in [Callers -> Caller]
  /\ pending \in [Sessions -> SUBSET Ids]
  /\ reply \in [Sessions -> [Ids -> Replies]]
  /\ nextId \in [Sessions -> Ids \union {0}]
  /\ {able, blocked} \subseteq [Sessions -> BOOLEAN]
  /\ {writer, reader} \subseteq [Sessions -> Ends]
  /\ proc \in [Sessions -> {"none", "up", "gone"}]
  /\ seen \in [Sessions -> SUBSET Ids]

\* The table of a session is those who wait for it: no sender of a request
\* that was given up is left in it (client.rs 361-363), nobody waits for an
\* answer that has come for somebody else or after the stream has ended.
TableIsWaiters ==
  \A s \in Sessions :
    pending[s] = {id \in Ids : reply[s][id] = "open" /\ \E c \in Callers : Waits(c, s, id)}

\* Answers reach who asked.  The table is kept, and while a server lives and is
\* read, what a caller receives is nothing the server has still to read or to
\* answer, also when another request was given up before.
AnswersFindTheirWaiters ==
  /\ TableIsWaiters
  /\ \A s \in Sessions, id \in Ids :
       reply[s][id] # "open" =>
         /\ id \notin seen[s]
         /\ reader[s] = "running" => id \notin {outgoing[s][i].id : i \in DOMAIN outgoing[s]}

\* A server somebody is putting down because the workspace closes.
PutDown(s) == \E c \in Callers : at[c].op = "shutdown" /\ (at[c].s = s \/ s \in at[c].rest)

\* No more than max_servers run at once (pool.rs 28-31), those aside that are
\* being shut down, however many callers want one of however many languages.
CapHolds ==
  Cardinality({s \in Sessions : proc[s] = "up" /\ ~PutDown(s)}) <= MaxServers

\* A server that runs is in a slot, being started or being put down: none is
\* leaked by a handshake that failed, a restart or a shutdown (server.rs 91-95).
Owned(s) ==
  \/ \E l \in Languages : slots[l] = s
  \/ \E c \in Callers : s \in at[c].rest \/ (at[c].s = s /\ at[c].then \in {"init", "bye"})
  \/ PutDown(s)

NoOrphans == \A s \in Sessions : proc[s] = "up" => Owned(s)

\* Whatever servers do, a call of the pool returns (client.rs 11-13): no
\* server that hangs, blocks or dies holds a caller, nor, through the mutex,
\* those of other languages.
EveryCallReturns == \A c \in Callers : at[c].pc # "idle" ~> at[c].pc = "idle"

\* A server that asks and blocks until it is told is not left so (client.rs
\* 14-18): its question or our answer is on the way for as long as it is read.
AskIsAnswered ==
  \A s \in Sessions : blocked[s] /\ reader[s] = "running" =>
    \/ \E i \in DOMAIN incoming[s] : incoming[s][i].kind = "ask"
    \/ \E i \in DOMAIN outgoing[s] : outgoing[s][i].kind = "answer"

=============================================================================
