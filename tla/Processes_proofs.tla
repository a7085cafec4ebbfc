-------------------------- MODULE Processes_proofs --------------------------
(***************************************************************************)
(* Theorems about the child processes of the system: the commands that     *)
(* valyria-process runs to their end (CommandRun) and the model servers    *)
(* that valyria-app starts, routes roles to and stops (ModelServing, with  *)
(* the files it serves them from: ModelInstall).                           *)
(*                                                                         *)
(* Commands, for every command, every number of processes it forks, every  *)
(* cap and every deadline: what must be killed is, a check passes by       *)
(* itself, and what is captured of a stream is what was written.  The last *)
(* one rests on the bytes being their positions: what the drain tasks have *)
(* captured, what is in the pipe and what will still be written are        *)
(* neighbouring intervals (NothingBetween), and a full CappedOutput keeps  *)
(* the interval at either end (Captures).                                  *)
(*                                                                         *)
(* Model servers, for any models, roles, clients, installers, footprints   *)
(* and budget: installed files are whole (Alone, FilesInv), roles reach    *)
(* their own servers (NumbersInv, RouteInv), the pool knows of the servers *)
(* there are (PoolInv), and a removed model leaves nothing behind          *)
(* (GoneInv).  Each of these holds of the models and roles that no two     *)
(* operations worked on at once, which the code does not prevent.  What    *)
(* the pool has given away is a sum over a sequence, and admit a loop:     *)
(* what they compute is proved by induction, from the least number at      *)
(* which it would fail (LeastNumber).                                      *)
(***************************************************************************)
EXTENDS CommandRun, ModelServing, SequenceTheorems, FiniteSetTheorems, TLAPS

(* The commands.                                                           *)

\* Until `run` knows why it ends, nothing is killed; before it has spawned the
\* child there is no process.
Undecided ==
  /\ pc \in {"spawn", "supervise"} => reason = "none" /\ doomed = {}
  /\ pc = "spawn" => exit = "running" /\ alive = {}

\* Only what was forked is in the group: a kill cannot be outrun by a fork.
GroupBorn == group \subseteq born

\* The child ends once.
EndsOnce == exit # "running" => Leader \notin alive

\* A run that ends because its child did kills nothing, and the status it
\* reports is the child's.
ByItself ==
  reason = "Exited" =>
    /\ doomed = {}
    /\ exit # "running"
    /\ pc \in {"reap", "stdout", "stderr", "returned"}
    /\ pc # "reap" => status = exit

RunInv == Undecided /\ GroupBorn /\ EndsOnce /\ ByItself /\ NoGroupSurvives

LEMMA RunInvInit == RunInit => RunInv
BY DEF RunInit, RunInv, Undecided, GroupBorn, EndsOnce, ByItself, NoGroupSurvives

\* The supervisor: every step of it moves pc.
LEMMA SupervisorKeeps ==
  ASSUME RunInv, RunSteps
  PROVE  RunInv'
<1>1. CASE Spawn
  BY <1>1 DEF RunInv, Spawn, Undecided, GroupBorn, EndsOnce, ByItself, NoGroupSurvives, reading
<1>2. CASE SpawnFails
  BY <1>2 DEF RunInv, SpawnFails, Undecided, GroupBorn, EndsOnce, ByItself, NoGroupSurvives,
              processes
<1>3. CASE SeesCancel
  BY <1>3 DEF RunInv, SeesCancel, EndsFor, Undecided, GroupBorn, EndsOnce, ByItself,
              NoGroupSurvives, processes
<1>4. CASE SeesExit
  BY <1>4 DEF RunInv, SeesExit, EndsFor, Undecided, GroupBorn, EndsOnce, ByItself,
              NoGroupSurvives, processes
<1>5. CASE PollTimesOut
  BY <1>5 DEF RunInv, PollTimesOut, EndsFor, Undecided, GroupBorn, EndsOnce, ByItself,
              NoGroupSurvives, processes
<1>6. CASE PollIdlesOut
  BY <1>6 DEF RunInv, PollIdlesOut, EndsFor, Undecided, GroupBorn, EndsOnce, ByItself,
              NoGroupSurvives, processes
<1>7. CASE Kill
  BY <1>7 DEF RunInv, Kill, KillTargets, Undecided, GroupBorn, EndsOnce, ByItself, NoGroupSurvives
<1>8. CASE Reap
  BY <1>8 DEF RunInv, Reap, Undecided, GroupBorn, EndsOnce, ByItself, NoGroupSurvives, processes
<1>9. CASE GracePasses
  BY <1>9 DEF RunInv, GracePasses, Undecided, GroupBorn, EndsOnce, ByItself, NoGroupSurvives,
              processes
<1>10. CASE Join("stdout", "stderr") \/ Join("stderr", "returned")
  BY <1>10 DEF RunInv, Join, Undecided, GroupBorn, EndsOnce, ByItself, NoGroupSurvives, processes
<1>11. QED
  BY <1>1, <1>2, <1>3, <1>4, <1>5, <1>6, <1>7, <1>8, <1>9, <1>10 DEF RunSteps

\* A process that is not doomed is outside the group once the group has been
\* killed: so is what it forks.
LEMMA ForkKeeps ==
  ASSUME RunInv, NEW p \in Processes, NEW c \in Children, Forks(p, c)
  PROVE  RunInv'
<1>1. c # Leader
  BY CommandAssumption
<1>2. GroupBorn'
  BY DEF RunInv, Forks, GroupBorn
<1>3. EndsOnce'
  BY <1>1 DEF RunInv, Forks, EndsOnce
<1>4. NoGroupSurvives'
  <2>1. SUFFICES ASSUME reason \in {"TimedOut", "IdleTimedOut", "Cancelled"}, pc # "kill"
                 PROVE  alive' \intersect group' \subseteq doomed
    BY DEF Forks, running, NoGroupSurvives
  <2>2. alive \intersect group \subseteq doomed
    BY <2>1 DEF RunInv, NoGroupSurvives
  <2>3. p \notin group /\ group' = group
    BY <2>2 DEF Forks, Active
  <2>4. c \notin group
    BY DEF RunInv, Forks, GroupBorn
  <2>5. QED
    BY <2>2, <2>3, <2>4 DEF Forks
<1>5. Undecided' /\ ByItself'
  BY DEF RunInv, Forks, Active, Undecided, ByItself, running
<1>6. QED
  BY <1>2, <1>3, <1>4, <1>5 DEF RunInv

\* The processes come and go on their own.
LEMMA ProcessesKeep ==
  ASSUME RunInv,
         LeaderSteps \/ (\E c \in Children : ChildSteps(c)) \/ (\E p \in Processes : Dies(p))
  PROVE  RunInv'
<1>1. CASE LeaderWrites
  BY <1>1 DEF RunInv, LeaderWrites, Emit, Undecided, GroupBorn, EndsOnce, ByItself,
              NoGroupSurvives, running
<1>2. CASE LeaderExits
  <2>1. exit = "running" /\ Leader \in alive
    BY <1>2 DEF RunInv, LeaderExits, Active, EndsOnce
  <2>2. pc # "spawn"
    BY <2>1 DEF RunInv, Undecided
  <2>3. reason # "Exited"
    BY <2>1 DEF RunInv, ByItself
  <2>4. QED
    BY <1>2, <2>1, <2>2, <2>3
       DEF RunInv, LeaderExits, Leaves, Undecided, GroupBorn, EndsOnce, ByItself, NoGroupSurvives,
           running, Codes
<1>3. ASSUME NEW c \in Children, ChildSteps(c) PROVE RunInv'
  <2>1. ASSUME NEW s \in Streams, ChildWrites(c, s) PROVE RunInv'
    BY <2>1 DEF RunInv, ChildWrites, Emit, Undecided, GroupBorn, EndsOnce, ByItself,
                NoGroupSurvives, running
  <2>2. CASE ChildExits(c)
    BY <2>2 DEF RunInv, ChildExits, Leaves, Undecided, GroupBorn, EndsOnce, ByItself,
                NoGroupSurvives, running
  <2>3. CASE LeavesGroup(c)
    BY <2>3 DEF RunInv, LeavesGroup, Undecided, GroupBorn, EndsOnce, ByItself, NoGroupSurvives,
                running
  <2>4. CASE ClosesOutput(c)
    BY <2>4 DEF RunInv, ClosesOutput, Undecided, GroupBorn, EndsOnce, ByItself, NoGroupSurvives,
                running
  <2>5. ASSUME NEW p \in Processes, Forks(p, c) PROVE RunInv'
    BY <2>5, ForkKeeps
  <2>6. QED
    BY <1>3, <2>1, <2>2, <2>3, <2>4, <2>5 DEF ChildSteps
<1>4. ASSUME NEW p \in Processes, Dies(p) PROVE RunInv'
  <2>1. doomed # {} /\ pc \notin {"spawn", "supervise"} /\ reason # "Exited"
    BY <1>4 DEF RunInv, Dies, Undecided, ByItself
  <2>2. QED
    BY <1>4, <2>1 DEF RunInv, Dies, Leaves, Undecided, GroupBorn, EndsOnce, ByItself,
                      NoGroupSurvives, running
<1>5. QED
  BY <1>1, <1>2, <1>3, <1>4 DEF LeaderSteps

LEMMA RunInvNext == RunInv /\ [RunNext]_runVars => RunInv'
<1> SUFFICES ASSUME RunInv, [RunNext]_runVars PROVE RunInv'
  OBVIOUS
<1>1. CASE RunSteps
  BY <1>1, SupervisorKeeps
<1>2. CASE LeaderSteps \/ (\E c \in Children : ChildSteps(c)) \/ (\E p \in Processes : Dies(p))
  BY <1>2, ProcessesKeep
<1>3. ASSUME NEW s \in Streams, DrainSteps(s) PROVE RunInv'
  BY <1>3 DEF DrainSteps, Drain, DrainEnds, RunInv, Undecided, GroupBorn, EndsOnce, ByItself,
              NoGroupSurvives, processes, running
<1>4. CASE Cancel \/ Tick \/ UNCHANGED runVars
  BY <1>4 DEF Cancel, Tick, runVars, RunInv, Undecided, GroupBorn, EndsOnce, ByItself,
              NoGroupSurvives, processes, running
<1>5. QED
  BY <1>1, <1>2, <1>3, <1>4 DEF RunNext

LEMMA RunInvariant == RunSpec => []RunInv
BY RunInvInit, RunInvNext, PTL DEF RunSpec

\* Whatever a command forks, before the kill or while it goes on, is reached
\* by the kill or had left the group of its own accord.
THEOREM GroupIsKilled == RunSpec => []NoGroupSurvives
<1>1. RunInv => NoGroupSurvives
  BY DEF RunInv
<1>2. QED
  BY RunInvariant, <1>1, PTL

\* A passing verdict rests on the child's own exit with status zero, with
\* nothing killed.
THEOREM PassesByItself == RunSpec => []PassIsEarned
<1>1. RunInv => PassIsEarned
  BY DEF RunInv, ByItself, PassIsEarned, Passed
<1>2. QED
  BY RunInvariant, <1>1, PTL
-----------------------------------------------------------------------------
(* What is captured is what was written.                                   *)

\* The bytes after the first a up to b.
Bytes(a, b) == [i \in 1 .. b - a |-> a + i]

\* What a CappedOutput holds once it was given the first c.total bytes.
Captures(c) ==
  /\ c \in [buf : Seq(Nat), head : Seq(Nat), tail : Seq(Nat), total : Nat, truncated : BOOLEAN]
  /\ IF c.truncated
       THEN /\ c.total > MaxBytes
            /\ c.head = Bytes(0, HeadCap)
            /\ c.tail = Bytes(c.total - TailCap, c.total)
       ELSE c.total <= MaxBytes /\ c.buf = Bytes(0, c.total)

\* What was read is captured, and what was not read is in the pipe.
NothingBetween(s) ==
  /\ Captures(captured[s])
  /\ written[s] \in Nat /\ captured[s].total <= written[s]
  /\ pipe[s] = Bytes(captured[s].total, written[s])

\* A drain task that has returned has left nobody who could write.
Drained(s) == s \in drained => pc # "spawn" /\ pipe[s] = <<>> /\ holds[s] = {}

\* `run` returns when both drain tasks have.
JoinsBoth ==
  /\ pc \in {"stderr", "returned"} => "stdout" \in drained
  /\ pc = "returned" => "stderr" \in drained

OutputInv ==
  /\ captured \in [Streams -> [buf : Seq(Nat), head : Seq(Nat), tail : Seq(Nat), total : Nat,
                               truncated : BOOLEAN]]
  /\ written \in [Streams -> Nat] /\ DOMAIN pipe = Streams /\ DOMAIN holds = Streams
  /\ command.todo \in Seq(Streams)
  /\ JoinsBoth
  /\ \A s \in Streams : NothingBetween(s) /\ Drained(s)

LEMMA Caps ==
  /\ MaxBytes \in Nat /\ HeadCap \in Nat /\ TailCap \in Nat
  /\ HeadCap + TailCap = MaxBytes
<1>1. MaxBytes \in Nat
  BY CommandAssumption
<1>2. MaxBytes \div 2 \in Nat /\ MaxBytes \div 2 <= MaxBytes
  BY <1>1
<1>3. QED
  BY <1>1, <1>2 DEF HeadCap, TailCap

LEMMA BytesTyped ==
  ASSUME NEW a \in Nat, NEW b \in Nat, a <= b
  PROVE  /\ Bytes(a, b) \in Seq(Nat) /\ Len(Bytes(a, b)) = b - a
         /\ \A i \in 1 .. b - a : Bytes(a, b)[i] = a + i
BY DEF Bytes

LEMMA BytesAppend ==
  ASSUME NEW a \in Nat, NEW b \in Nat, a <= b
  PROVE  Append(Bytes(a, b), b + 1) = Bytes(a, b + 1)
<1>1. /\ Bytes(a, b) \in Seq(Nat) /\ Len(Bytes(a, b)) = b - a
      /\ \A i \in 1 .. b - a : Bytes(a, b)[i] = a + i
  BY BytesTyped
<1>2. QED
  BY <1>1 DEF Bytes

LEMMA BytesJoin ==
  ASSUME NEW a \in Nat, NEW b \in Nat, NEW n \in Nat, a <= b, b <= n
  PROVE  Bytes(a, b) \o Bytes(b, n) = Bytes(a, n)
<1>1. /\ Bytes(a, b) \in Seq(Nat) /\ Len(Bytes(a, b)) = b - a
      /\ \A i \in 1 .. b - a : Bytes(a, b)[i] = a + i
  BY BytesTyped
<1>2. /\ Bytes(b, n) \in Seq(Nat) /\ Len(Bytes(b, n)) = n - b
      /\ \A i \in 1 .. n - b : Bytes(b, n)[i] = b + i
  BY BytesTyped
<1> DEFINE x == Bytes(a, b)
           y == Bytes(b, n)
           j == x \o y
<1> HIDE DEF x, y
<1>3. x \in Seq(Nat) /\ y \in Seq(Nat) /\ Len(x) = b - a /\ Len(y) = n - b
  BY <1>1, <1>2 DEF x, y
<1> HIDE DEF j
<1>4. /\ j \in Seq(Nat) /\ Len(j) = Len(x) + Len(y)
      /\ \A i \in 1 .. Len(x) + Len(y) : j[i] = IF i <= Len(x) THEN x[i] ELSE y[i - Len(x)]
  BY <1>3, ConcatProperties, Zenon DEF j
<1>5. Len(x) + Len(y) = n - a
  BY <1>3
<1>6. j \in Seq(Nat) /\ Len(j) = n - a
  BY <1>4, <1>5
<1>7. ASSUME NEW i \in 1 .. n - a PROVE j[i] = a + i
  <2>1. i \in Int /\ (i <= b - a => i \in 1 .. b - a) /\ (~(i <= b - a) => i - (b - a) \in 1 .. n - b)
    OBVIOUS
  <2>2. j[i] = IF i <= b - a THEN x[i] ELSE y[i - (b - a)]
    BY <1>3, <1>4
  <2>3. i <= b - a => j[i] = a + i
    BY <1>1, <2>1, <2>2 DEF x
  <2>4. ~(i <= b - a) => j[i] = b + (i - (b - a))
    BY <1>2, <2>1, <2>2 DEF y
  <2>5. QED
    BY <2>1, <2>3, <2>4
<1>8. j = Bytes(a, n)
  BY <1>6, <1>7 DEF Bytes
<1>9. QED
  BY <1>8 DEF j, x, y

LEMMA BytesAre ==
  ASSUME NEW s \in Seq(Nat), NEW a \in Nat, NEW b \in Nat, a <= b, Len(s) = b - a,
         \A i \in 1 .. b - a : s[i] = a + i
  PROVE  s = Bytes(a, b)
BY DEF Bytes

LEMMA BytesUpTo ==
  ASSUME NEW b \in Nat, NEW n \in Nat, n <= b
  PROVE  SubSeq(Bytes(0, b), 1, n) = Bytes(0, n)
<1> DEFINE p == SubSeq(Bytes(0, b), 1, n)
<1>1. p \in Seq(Nat) /\ Len(p) = n - 0 /\ \A i \in 1 .. n - 0 : p[i] = 0 + i
  BY DEF Bytes
<1> HIDE DEF p
<1>2. 0 \in Nat /\ 0 <= n
  OBVIOUS
<1>3. p = Bytes(0, n)
  BY <1>1, <1>2, BytesAre
<1>4. QED
  BY <1>3 DEF p

LEMMA BytesAfter ==
  ASSUME NEW a \in Nat, NEW b \in Nat, NEW n \in Nat, a + n <= b
  PROVE  SubSeq(Bytes(a, b), n + 1, Len(Bytes(a, b))) = Bytes(a + n, b)
<1> DEFINE p == SubSeq(Bytes(a, b), n + 1, Len(Bytes(a, b)))
<1>1. p \in Seq(Nat) /\ Len(p) = b - (a + n) /\ \A i \in 1 .. b - (a + n) : p[i] = (a + n) + i
  BY DEF Bytes
<1> HIDE DEF p
<1>2. a + n \in Nat /\ a + n <= b
  OBVIOUS
<1>3. p = Bytes(a + n, b)
  BY <1>1, <1>2, BytesAre
<1>4. QED
  BY <1>3 DEF p

LEMMA RolledBytes ==
  ASSUME NEW a \in Nat, NEW b \in Nat, a + TailCap <= b
  PROVE  Rolled(Bytes(a, b)) = Bytes(b - TailCap, b)
<1>1. Len(Bytes(a, b)) = b - a /\ TailCap \in Nat
  BY BytesTyped, Caps
<1>2. CASE b - a <= TailCap
  <2>1. a = b - TailCap
    BY <1>1, <1>2
  <2>2. QED
    BY <1>1, <1>2, <2>1 DEF Rolled
<1>3. CASE ~(b - a <= TailCap)
  <2> DEFINE n == b - a - TailCap
  <2>1. n \in Nat /\ a + n <= b /\ a + n = b - TailCap /\ n = Len(Bytes(a, b)) - TailCap
    BY <1>1, <1>3
  <2> HIDE DEF n
  <2>2. SubSeq(Bytes(a, b), n + 1, Len(Bytes(a, b))) = Bytes(a + n, b)
    BY <2>1, BytesAfter
  <2>3. QED
    BY <1>1, <1>3, <2>1, <2>2 DEF Rolled
<1>4. QED
  BY <1>2, <1>3

\* The chunk that follows what was captured so far is captured.
LEMMA PushCaptures ==
  ASSUME NEW c, Captures(c), NEW n \in Nat, c.total <= n
  PROVE  Captures(Push(c, Bytes(c.total, n))) /\ Push(c, Bytes(c.total, n)).total = n
<1> DEFINE chunk == Bytes(c.total, n)
           p == Push(c, chunk)
<1>1. /\ c \in [buf : Seq(Nat), head : Seq(Nat), tail : Seq(Nat), total : Nat, truncated : BOOLEAN]
      /\ c.total \in Nat
  BY DEF Captures
<1>2. chunk \in Seq(Nat) /\ Len(chunk) = n - c.total
  BY <1>1, BytesTyped
<1>3. /\ MaxBytes \in Nat /\ HeadCap \in Nat /\ TailCap \in Nat
      /\ HeadCap + TailCap = MaxBytes
  BY Caps
<1>4. CASE c.truncated
  <2> DEFINE k == c.total - TailCap
  <2>1. k \in Nat /\ k <= c.total /\ k + TailCap <= n /\ c.total > MaxBytes
        /\ c.tail = Bytes(k, c.total) /\ c.head = Bytes(0, HeadCap)
    BY <1>1, <1>3, <1>4 DEF Captures
  <2> HIDE DEF k
  <2>2. c.tail \o chunk = Bytes(k, n)
    BY <1>1, <2>1, BytesJoin
  <2>3. Rolled(c.tail \o chunk) = Bytes(n - TailCap, n)
    BY <2>1, <2>2, RolledBytes
  <2>4. p = [c EXCEPT !.total = n, !.tail = Bytes(n - TailCap, n)]
    <3>1. p = [c EXCEPT !.total = @ + Len(chunk), !.tail = Rolled(@ \o chunk)]
      BY <1>4 DEF Push
    <3>2. c.total + Len(chunk) = n
      BY <1>1, <1>2
    <3> HIDE DEF chunk
    <3>3. QED
      BY <2>3, <3>1, <3>2, <1>1
  <2>5. n - TailCap \in Nat /\ n - TailCap <= n /\ n > MaxBytes
    BY <1>1, <1>3, <2>1
  <2>6. Bytes(n - TailCap, n) \in Seq(Nat)
    BY <2>5, BytesTyped
  <2> HIDE DEF p
  <2>7. /\ p \in [buf : Seq(Nat), head : Seq(Nat), tail : Seq(Nat), total : Nat, truncated : BOOLEAN]
        /\ p.total = n /\ p.truncated /\ p.head = c.head /\ p.tail = Bytes(n - TailCap, n)
    BY <1>1, <1>4, <2>4, <2>6
  <2>8. QED
    BY <2>1, <2>5, <2>7 DEF Captures, p
<1>5. CASE ~c.truncated
  <2> DEFINE all == c.buf \o chunk
  <2>1. c.buf = Bytes(0, c.total) /\ c.total <= MaxBytes
    BY <1>5 DEF Captures
  <2>2. all = Bytes(0, n)
    <3>1. 0 \in Nat /\ 0 <= c.total /\ c.total \in Nat
      BY <1>1
    <3>2. Bytes(0, c.total) \o Bytes(c.total, n) = Bytes(0, n)
      BY <3>1, BytesJoin
    <3>3. QED
      BY <2>1, <3>2
  <2>3. all \in Seq(Nat) /\ Len(all) = n
    BY <2>2, BytesTyped
  <2>4. CASE n <= MaxBytes
    <3>1. p = [c EXCEPT !.total = @ + Len(chunk), !.buf = all]
      BY <1>5, <2>3, <2>4 DEF Push
    <3>2. c.total + Len(chunk) = n
      BY <1>1, <1>2
    <3> HIDE DEF all, p, chunk
    <3>3. /\ p \in [buf : Seq(Nat), head : Seq(Nat), tail : Seq(Nat), total : Nat, truncated : BOOLEAN]
          /\ p.total = n /\ ~p.truncated /\ p.buf = Bytes(0, n)
      BY <1>1, <1>5, <2>2, <2>3, <3>1, <3>2
    <3>4. QED
      BY <2>4, <3>3 DEF Captures, p, chunk
  <2>5. CASE ~(n <= MaxBytes)
    <3>1. p = [buf |-> <<>>, head |-> SubSeq(all, 1, HeadCap),
               tail |-> Rolled(SubSeq(all, HeadCap + 1, Len(all))),
               total |-> c.total + Len(chunk), truncated |-> TRUE]
      BY <1>5, <2>3, <2>5 DEF Push
    <3>2. c.total + Len(chunk) = n /\ n > MaxBytes /\ HeadCap <= n /\ HeadCap + TailCap <= n
          /\ n - TailCap \in Nat /\ n - TailCap <= n
      BY <1>1, <1>2, <1>3, <2>5
    <3>3. SubSeq(all, 1, HeadCap) = Bytes(0, HeadCap)
      BY <1>3, <2>2, <3>2, BytesUpTo
    <3>4. SubSeq(all, HeadCap + 1, Len(all)) = Bytes(HeadCap, n)
      <4> DEFINE z == 0
      <4>1. z \in Nat /\ z + HeadCap = HeadCap /\ z + HeadCap <= n /\ all = Bytes(z, n)
        BY <1>3, <2>2, <3>2
      <4> HIDE DEF z
      <4>2. SubSeq(Bytes(z, n), HeadCap + 1, Len(Bytes(z, n))) = Bytes(z + HeadCap, n)
        BY <1>3, <4>1, BytesAfter
      <4> HIDE DEF all
      <4>3. QED
        BY <4>1, <4>2
    <3>5. Rolled(Bytes(HeadCap, n)) = Bytes(n - TailCap, n)
      BY <1>3, <3>2, RolledBytes
    <3>6. Bytes(0, HeadCap) \in Seq(Nat) /\ Bytes(n - TailCap, n) \in Seq(Nat)
      <4>1. 0 \in Nat /\ 0 <= HeadCap
        BY <1>3
      <4>2. QED
        BY <1>3, <3>2, <4>1, BytesTyped
    <3>7. p = [buf |-> <<>>, head |-> Bytes(0, HeadCap), tail |-> Bytes(n - TailCap, n),
               total |-> n, truncated |-> TRUE]
      BY <3>1, <3>2, <3>3, <3>4, <3>5
    <3> HIDE DEF p, all, chunk
    <3>8. /\ p \in [buf : Seq(Nat), head : Seq(Nat), tail : Seq(Nat), total : Nat, truncated : BOOLEAN]
          /\ p.total = n /\ p.truncated /\ p.head = Bytes(0, HeadCap) /\ p.tail = Bytes(n - TailCap, n)
      BY <3>6, <3>7
    <3>9. QED
      BY <3>2, <3>8 DEF Captures, p, chunk
  <2>6. QED
    BY <2>4, <2>5
<1>6. QED
  BY <1>4, <1>5

\* What is reported of a stream of n bytes.
LEMMA CapturesReported ==
  ASSUME NEW c, Captures(c)
  PROVE  IntoOutput(c) = Expected(c.total)
<1>1. c.total \in Nat
  BY DEF Captures
<1>2. /\ MaxBytes \in Nat /\ HeadCap \in Nat /\ TailCap \in Nat
      /\ HeadCap + TailCap = MaxBytes
  BY Caps
<1>3. CASE ~c.truncated
  <2>1. c.total <= MaxBytes /\ c.buf = Bytes(0, c.total)
    BY <1>3 DEF Captures
  <2>2. Bytes(0, c.total) = [i \in 1 .. c.total |-> i]
    BY <1>1 DEF Bytes
  <2>3. QED
    BY <1>3, <2>1, <2>2 DEF IntoOutput, Expected
<1>4. CASE c.truncated
  <2> DEFINE n == c.total
             x == Bytes(0, HeadCap)
             y == Bytes(n - TailCap, n)
             e == [i \in 1 .. MaxBytes |-> IF i <= HeadCap THEN i ELSE n - MaxBytes + i]
  <2>1. n \in Nat /\ n > MaxBytes /\ c.head = x /\ c.tail = y
    BY <1>1, <1>4 DEF Captures
  <2>2. n - TailCap \in Nat /\ n - TailCap <= n /\ n - (n - TailCap) = TailCap
    BY <1>2, <2>1
  <2>3. x \in Seq(Nat) /\ Len(x) = HeadCap /\ \A i \in 1 .. HeadCap : x[i] = i
    BY <1>2 DEF Bytes
  <2>4. y \in Seq(Nat) /\ Len(y) = n - (n - TailCap)
        /\ \A i \in 1 .. n - (n - TailCap) : y[i] = n - TailCap + i
    BY <2>1, <2>2, BytesTyped
  <2>5. y \in Seq(Nat) /\ Len(y) = TailCap /\ \A i \in 1 .. TailCap : y[i] = n - TailCap + i
    BY <2>2, <2>4
  <2> HIDE DEF x, y
  <2>6. /\ x \o y \in Seq(Nat) /\ Len(x \o y) = Len(x) + Len(y)
        /\ \A i \in 1 .. Len(x) + Len(y) : (x \o y)[i] = IF i <= Len(x) THEN x[i] ELSE y[i - Len(x)]
    BY <2>3, <2>5, ConcatProperties, Zenon
  <2>7. Len(x) + Len(y) = MaxBytes
    BY <1>2, <2>3, <2>5
  <2>8. ASSUME NEW i \in 1 .. MaxBytes PROVE (x \o y)[i] = e[i]
    <3>1. i \in Int /\ (i <= HeadCap => i \in 1 .. HeadCap)
          /\ (~(i <= HeadCap) => i - HeadCap \in 1 .. TailCap)
      BY <1>2
    <3>2. (x \o y)[i] = IF i <= HeadCap THEN x[i] ELSE y[i - HeadCap]
      BY <2>3, <2>6, <2>7
    <3>3. i <= HeadCap => (x \o y)[i] = i
      BY <2>3, <3>1, <3>2
    <3>4. ~(i <= HeadCap) => (x \o y)[i] = n - TailCap + (i - HeadCap)
      BY <2>5, <3>1, <3>2
    <3>5. ~(i <= HeadCap) => n - TailCap + (i - HeadCap) = n - MaxBytes + i
      BY <1>2, <2>1, <3>1
    <3>6. QED
      BY <3>3, <3>4, <3>5
  <2> DEFINE z == x \o y
  <2>9. z \in Seq(Nat) /\ Len(z) = MaxBytes /\ \A i \in 1 .. MaxBytes : z[i] = e[i]
    BY <2>6, <2>7, <2>8
  <2> HIDE DEF z
  <2>10. z = e
    BY <1>2, <2>9
  <2>11. c.total - Len(c.head) - Len(c.tail) = n - MaxBytes
    BY <1>2, <2>1, <2>3, <2>5
  <2>12. IntoOutput(c) = [kept |-> z, elided |-> n - MaxBytes]
    BY <1>4, <2>1, <2>11 DEF IntoOutput, z
  <2>13. QED
    BY <1>2, <2>1, <2>10, <2>12 DEF Expected
<1>5. QED
  BY <1>3, <1>4 DEF Captures

\* Steps that leave the pipes and what is captured alone: nobody gets hold of
\* a write end that everybody has closed.
LEMMA OutputKept ==
  ASSUME OutputInv, UNCHANGED <<captured, written, pipe, drained>>,
         command'.todo = command.todo, DOMAIN holds' = Streams, JoinsBoth',
         pc' = "spawn" => pc = "spawn",
         \A s \in Streams : s \in drained => holds'[s] = {}
  PROVE  OutputInv'
BY DEF OutputInv, NothingBetween, Drained

\* Writing one byte.
LEMMA EmitKeeps ==
  ASSUME OutputInv, NEW s \in Streams, Emit(s), holds[s] # {},
         UNCHANGED <<captured, drained, holds, pc>>, command'.todo \in Seq(Streams)
  PROVE  OutputInv'
<1>1. s \notin drained
  BY DEF OutputInv, Drained
<1>2. /\ written' = [written EXCEPT ![s] = written[s] + 1]
      /\ pipe' = [pipe EXCEPT ![s] = Append(pipe[s], written[s] + 1)]
  BY DEF Emit, OutputInv
<1>3. /\ captured[s].total \in Nat /\ written[s] \in Nat /\ captured[s].total <= written[s]
      /\ pipe[s] = Bytes(captured[s].total, written[s])
  BY DEF OutputInv, NothingBetween, Captures
<1>4. Append(pipe[s], written[s] + 1) = Bytes(captured[s].total, written[s] + 1)
  BY <1>3, BytesAppend
<1>5. written'[s] = written[s] + 1 /\ pipe'[s] = Bytes(captured[s].total, written[s] + 1)
      /\ \A q \in Streams : q # s => written'[q] = written[q] /\ pipe'[q] = pipe[q]
  BY <1>2, <1>4 DEF OutputInv
<1>6. NothingBetween(s)' /\ Drained(s)'
  BY <1>1, <1>3, <1>5 DEF OutputInv, NothingBetween, Drained
<1>7. ASSUME NEW q \in Streams, q # s PROVE NothingBetween(q)' /\ Drained(q)'
  BY <1>5, <1>7 DEF OutputInv, NothingBetween, Drained
<1>8. written' \in [Streams -> Nat] /\ DOMAIN pipe' = Streams
  BY <1>2, <1>3 DEF OutputInv
<1>9. JoinsBoth'
  BY DEF OutputInv, JoinsBoth
<1>10. QED
  BY <1>6, <1>7, <1>8, <1>9 DEF OutputInv

LEMMA DrainKeeps ==
  ASSUME OutputInv, NEW s \in Streams, Drain(s)
  PROVE  OutputInv'
<1> DEFINE c == captured[s]
           n == written[s]
<1>1. Captures(c) /\ c.total \in Nat /\ n \in Nat /\ c.total <= n /\ pipe[s] = Bytes(c.total, n)
  BY DEF OutputInv, NothingBetween, Captures
<1>2. /\ captured' = [captured EXCEPT ![s] = Push(c, Bytes(c.total, n))]
      /\ pipe' = [pipe EXCEPT ![s] = <<>>]
      /\ UNCHANGED <<command, holds, written, drained, pc>>
      /\ s \notin drained
  BY <1>1 DEF Drain, MayDrain, OutputInv, processes, running
<1> DEFINE d == Push(c, Bytes(c.total, n))
<1>3. Captures(d) /\ d.total = n
  BY <1>1, PushCaptures
<1> HIDE DEF d
<1>4. captured'[s] = d /\ pipe'[s] = <<>>
      /\ \A q \in Streams : q # s => captured'[q] = captured[q] /\ pipe'[q] = pipe[q]
  BY <1>2 DEF OutputInv, d
<1>5. <<>> = Bytes(n, n)
  BY <1>1 DEF Bytes
<1>6. Captures(captured[s])'
  <2>1. Captures(captured'[s])
    BY <1>3, <1>4
  <2>2. QED
    BY <2>1 DEF Captures
<1>7. NothingBetween(s)' /\ Drained(s)'
  BY <1>1, <1>2, <1>3, <1>4, <1>5, <1>6 DEF NothingBetween, Drained
<1>8. ASSUME NEW q \in Streams, q # s PROVE NothingBetween(q)' /\ Drained(q)'
  BY <1>2, <1>4, <1>8 DEF OutputInv, NothingBetween, Drained, Captures
<1>9. captured' \in [Streams -> [buf : Seq(Nat), head : Seq(Nat), tail : Seq(Nat), total : Nat,
                                 truncated : BOOLEAN]]
  <2>1. d \in [buf : Seq(Nat), head : Seq(Nat), tail : Seq(Nat), total : Nat, truncated : BOOLEAN]
    BY <1>3 DEF Captures
  <2>2. captured' = [captured EXCEPT ![s] = d]
    BY <1>2 DEF d
  <2>3. QED
    BY <2>1, <2>2 DEF OutputInv
<1>10. DOMAIN pipe' = Streams /\ JoinsBoth'
  BY <1>2 DEF OutputInv, JoinsBoth
<1>11. QED
  BY <1>2, <1>7, <1>8, <1>9, <1>10 DEF OutputInv

LEMMA OutputNext ==
  ASSUME OutputInv, [RunNext]_runVars
  PROVE  OutputInv'
<1> USE DEF processes, reading, running
<1>0. \A s \in Streams : s \in drained => holds[s] = {} /\ pc # "spawn"
  BY DEF OutputInv, Drained
<1>1. CASE RunSteps
  <2>1. UNCHANGED <<captured, written, pipe, drained, command>>
    BY <1>1 DEF RunSteps, Spawn, SpawnFails, SeesCancel, SeesExit, PollTimesOut, PollIdlesOut,
                EndsFor, Kill, Reap, GracePasses, Join
  <2>2. pc' # "spawn"
    BY <1>1 DEF RunSteps, Spawn, SpawnFails, SeesCancel, SeesExit, PollTimesOut, PollIdlesOut,
                EndsFor, Kill, Reap, GracePasses, Join
  <2>3. JoinsBoth'
    BY <1>1 DEF RunSteps, Spawn, SpawnFails, SeesCancel, SeesExit, PollTimesOut, PollIdlesOut,
                EndsFor, Kill, Reap, GracePasses, Join, OutputInv, JoinsBoth
  <2>4. DOMAIN holds' = Streams /\ \A s \in Streams : s \in drained => holds'[s] = {}
    BY <1>0, <1>1 DEF RunSteps, Spawn, SpawnFails, SeesCancel, SeesExit, PollTimesOut,
                PollIdlesOut, EndsFor, Kill, Reap, GracePasses, Join, OutputInv
  <2>5. QED
    BY <2>1, <2>2, <2>3, <2>4, OutputKept
<1>2. ASSUME NEW s \in Streams, Drain(s) PROVE OutputInv'
  BY <1>2, DrainKeeps
<1>3. ASSUME NEW s \in Streams, DrainEnds(s) PROVE OutputInv'
  BY <1>3 DEF DrainEnds, MayDrain, OutputInv, NothingBetween, Drained, JoinsBoth
<1>4. CASE LeaderWrites
  <2>1. command.todo \in Seq(Streams) /\ command.todo # <<>>
    BY <1>4 DEF LeaderWrites, OutputInv
  <2>2. Head(command.todo) \in Streams /\ Tail(command.todo) \in Seq(Streams)
    BY <2>1
  <2>3. command' = [command EXCEPT !.todo = Tail(@)]
    BY <1>4 DEF LeaderWrites
  <2>4. command'.todo \in Seq(Streams)
    BY <2>2, <2>3
  <2>5. QED
    BY <1>4, <2>2, <2>4, EmitKeeps DEF LeaderWrites, CanWrite
<1>5. ASSUME NEW c \in Children, NEW s \in Streams, ChildWrites(c, s) PROVE OutputInv'
  BY <1>5, EmitKeeps DEF ChildWrites, CanWrite, OutputInv
<1>6. ASSUME NEW p \in Processes, NEW c \in Children, Forks(p, c) PROVE OutputInv'
  <2>1. DOMAIN holds' = Streams /\ \A s \in Streams : s \in drained => holds'[s] = {}
    BY <1>0, <1>6 DEF Forks
  <2>2. QED
    BY <1>6, <2>1, OutputKept DEF Forks, OutputInv, JoinsBoth
<1>7. ASSUME NEW p, holds' = [s \in Streams |-> holds[s] \ {p}],
             UNCHANGED <<captured, written, pipe, drained, command, pc>>
      PROVE OutputInv'
  <2>1. DOMAIN holds' = Streams /\ \A s \in Streams : s \in drained => holds'[s] = {}
    BY <1>0, <1>7
  <2>2. JoinsBoth'
    BY <1>7 DEF OutputInv, JoinsBoth
  <2>3. QED
    BY <1>7, <2>1, <2>2, OutputKept
<1>8. ASSUME NEW p \in Processes, Dies(p) PROVE OutputInv'
  BY <1>7, <1>8 DEF Dies, Leaves
<1>9. CASE LeaderExits
  BY <1>7, <1>9 DEF LeaderExits, Leaves
<1>10. ASSUME NEW c \in Children, ChildExits(c) \/ ClosesOutput(c) PROVE OutputInv'
  BY <1>7, <1>10 DEF ChildExits, ClosesOutput, Leaves
<1>11. ASSUME UNCHANGED <<captured, written, pipe, drained, command, holds, pc>> PROVE OutputInv'
  BY <1>0, <1>11, OutputKept DEF OutputInv, JoinsBoth
<1>12. ASSUME NEW c \in Children, LeavesGroup(c) PROVE OutputInv'
  BY <1>11, <1>12 DEF LeavesGroup
<1>13. CASE Cancel \/ Tick \/ UNCHANGED runVars
  BY <1>11, <1>13 DEF Cancel, Tick, runVars
<1>14. QED
  BY <1>1, <1>2, <1>3, <1>4, <1>5, <1>6, <1>8, <1>9, <1>10, <1>12, <1>13
     DEF RunNext, DrainSteps, LeaderSteps, ChildSteps

\* When `run` returns, what it reports of each stream is all that was ever
\* written to it, or its first and last bytes and the number of the others.
THEOREM CapturesFaithfully == RunSpec => []OutputIsFaithful
<1>1. RunInit => OutputInv
  <2> SUFFICES ASSUME RunInit PROVE OutputInv
    OBVIOUS
  <2>1. command.todo \in Seq(Streams)
    BY CommandAssumption DEF RunInit
  <2>2. EmptyOutput \in [buf : Seq(Nat), head : Seq(Nat), tail : Seq(Nat), total : Nat,
                         truncated : BOOLEAN]
        /\ EmptyOutput.total = 0 /\ ~EmptyOutput.truncated /\ EmptyOutput.buf = <<>>
    BY DEF EmptyOutput
  <2>3. Bytes(0, 0) = <<>>
    BY DEF Bytes
  <2>4. Captures(EmptyOutput)
    BY <2>2, <2>3, Caps DEF Captures
  <2>5. \A s \in Streams : NothingBetween(s)
    BY <2>2, <2>3, <2>4 DEF RunInit, NothingBetween
  <2>6. QED
    BY <2>1, <2>2, <2>5 DEF RunInit, OutputInv, JoinsBoth, Drained
<1>2. OutputInv /\ [RunNext]_runVars => OutputInv'
  BY OutputNext
<1>3. OutputInv => OutputIsFaithful
  <2> SUFFICES ASSUME OutputInv, pc = "returned", NEW s \in Streams
               PROVE  IntoOutput(captured[s]) = Expected(written[s])
    BY DEF OutputIsFaithful
  <2>1. s \in drained
    BY DEF OutputInv, JoinsBoth, Streams
  <2>2. /\ Captures(captured[s]) /\ captured[s].total \in Nat /\ written[s] \in Nat
        /\ captured[s].total <= written[s] /\ <<>> = Bytes(captured[s].total, written[s])
    BY <2>1 DEF OutputInv, NothingBetween, Drained, Captures
  <2>3. written[s] - captured[s].total = 0
    <3>1. Len(Bytes(captured[s].total, written[s])) = written[s] - captured[s].total
      BY <2>2, BytesTyped
    <3>2. QED
      BY <2>2, <3>1
  <2>4. captured[s].total = written[s]
    BY <2>2, <2>3
  <2>5. QED
    BY <2>2, <2>4, CapturesReported
<1>4. QED
  BY <1>1, <1>2, <1>3, PTL DEF RunSpec

-----------------------------------------------------------------------------
(* Counting.                                                               *)

\* A set of numbers that is not empty has a least one: what the inductions below rest on.
LEMMA LeastNumber ==
  ASSUME NEW T \in SUBSET Nat, T # {}
  PROVE  \E x \in T : \A y \in T : x <= y
<1> DEFINE R == OpToRel(<, Nat)
<1>1. IsWellFoundedOn(R, Nat)
  BY NatLessThanWellFounded
<1>2. \A x, y \in Nat : x < y => <<x, y>> \in R
  BY DEF OpToRel
<1>3. PICK x \in T : \A y \in T : ~ (<<y, x>> \in R)
  <2> HIDE DEF R
  <2> QED BY <1>1, WFMin
<1>4. \A y \in T : ~ (y < x)
  <2> HIDE DEF R
  <2> QED BY <1>2, <1>3
<1>5. QED
  BY <1>4

\* What holds at 0 and passes from each number to the next holds up to N.
LEMMA Counting ==
  ASSUME NEW N \in Nat, NEW T, 0 \in T, \A n \in 0 .. (N - 1) : n \in T => n + 1 \in T
  PROVE  \A n \in 0 .. N : n \in T
<1> DEFINE S == {n \in 0 .. N : n \notin T}
<1>1. SUFFICES ASSUME S # {} PROVE FALSE
  OBVIOUS
<1>2. S \in SUBSET Nat
  OBVIOUS
<1>3. PICK x \in S : \A y \in S : x <= y
  <2> HIDE DEF S
  <2> QED BY <1>1, <1>2, LeastNumber
<1>4. x # 0 /\ x - 1 \in 0 .. (N - 1) /\ x - 1 \notin S
  BY <1>3
<1>5. QED
  BY <1>4, <1>3

\* Max, which FoldSet chooses by, is the largest element.
LEMMA MaxIsLargest ==
  ASSUME NEW n \in Nat, NEW T \in SUBSET (1 .. n), T # {}
  PROVE  Max(T) \in T /\ \A x \in T : x <= Max(T)
<1> DEFINE D == {n - x : x \in T}
<1>a. \A x \in T : n - x \in Nat
  OBVIOUS
<1>b. D \in SUBSET Nat
  BY <1>a
<1>c. PICK t \in T : TRUE
  OBVIOUS
<1>d. n - t \in D
  OBVIOUS
<1>1. D \in SUBSET Nat /\ D # {}
  BY <1>b, <1>d
<1>2. PICK d \in D : \A e \in D : d <= e
  <2> HIDE DEF D
  <2> QED BY <1>1, LeastNumber
<1>3. PICK m \in T : d = n - m
  OBVIOUS
<1>4. \A x \in T : m >= x
  <2>1. ASSUME NEW x \in T PROVE n - m <= n - x
    BY <1>2, <1>3
  <2>2. QED
    BY <2>1
<1>5. QED
  BY <1>4 DEF Max

\* The function on 0 .. N with a first value and a step from one value to the next.
Steps(N, V, step) == step \in [1 .. N -> [V -> V]]
Iterates(N, V, c, step, f) ==
  f \in [0 .. N -> V] /\ f[0] = c /\ \A n \in 1 .. N : f[n] = step[n][f[n - 1]]

\* A first value and a step from each value to the next make a function: one
\* that is defined by recursion on a number exists.
LEMMA Iteration ==
  ASSUME NEW V, NEW c \in V, NEW N \in Nat, NEW step, Steps(N, V, step)
  PROVE  \E f : Iterates(N, V, c, step, f)
<1> DEFINE T == {k \in 0 .. N : \E f : Iterates(k, V, c, step, f)}
<1>1. 0 \in T
  <2> DEFINE g == [k \in 0 .. 0 |-> c]
  <2>1. g \in [0 .. 0 -> V] /\ Iterates(0, V, c, step, g)
    BY DEF Iterates
  <2>2. \E f : Iterates(0, V, c, step, f)
    <3> HIDE DEF g
    <3> QED BY <2>1
  <2>3. QED
    BY <2>2
<1>2. ASSUME NEW k \in 0 .. (N - 1), k \in T PROVE k + 1 \in T
  <2>1. PICK f : Iterates(k, V, c, step, f)
    BY <1>2
  <2> DEFINE g == [n \in 0 .. k + 1 |-> IF n = k + 1 THEN step[k + 1][f[k]] ELSE f[n]]
  <2>2. step[k + 1][f[k]] \in V
    <3>1. k + 1 \in 1 .. N /\ k \in 0 .. k
      OBVIOUS
    <3>2. QED
      BY <2>1, <3>1 DEF Iterates, Steps
  <2>3. g \in [0 .. k + 1 -> V]
    BY <2>1, <2>2 DEF Iterates
  <2>4. \A n \in 1 .. k : g[n] = f[n] /\ g[n - 1] = f[n - 1]
    OBVIOUS
  <2>5. g[k + 1] = step[k + 1][g[k]] /\ g[0] = f[0]
    OBVIOUS
  <2>6. ASSUME NEW n \in 1 .. k + 1 PROVE g[n] = step[n][g[n - 1]]
    <3>1. (n = k + 1 /\ n - 1 = k) \/ n \in 1 .. k
      OBVIOUS
    <3> HIDE DEF g
    <3>2. QED
      BY <2>1, <2>4, <2>5, <3>1 DEF Iterates
  <2>7. Iterates(k + 1, V, c, step, g)
    <3> HIDE DEF g
    <3> QED BY <2>1, <2>3, <2>5, <2>6 DEF Iterates
  <2>8. \E h : Iterates(k + 1, V, c, step, h)
    <3> HIDE DEF g
    <3> QED BY <2>7
  <2>9. QED
    BY <2>8
<1>3. \A k \in 0 .. (N - 1) : k \in T => k + 1 \in T
  BY <1>2
<1>4. \A k \in 0 .. N : k \in T
  <2> HIDE DEF T
  <2> QED BY <1>1, <1>3, Counting
<1>5. QED
  BY <1>4

-----------------------------------------------------------------------------
(* Sums of weights, added up one by one.                                   *)

Sums(N, w, sum) ==
  sum \in [0 .. N -> Nat] /\ sum[0] = 0 /\ \A k \in 1 .. N : sum[k] = sum[k - 1] + w[k]

LEMMA SumsExist ==
  ASSUME NEW N \in Nat, NEW w \in [1 .. N -> Nat]
  PROVE  \E sum : Sums(N, w, sum)
<1> DEFINE step == [k \in 1 .. N |-> [n \in Nat |-> n + w[k]]]
<1>1. \A k \in 1 .. N : [n \in Nat |-> n + w[k]] \in [Nat -> Nat]
  OBVIOUS
<1>2. Steps(N, Nat, step) /\ \A k \in 1 .. N, n \in Nat : step[k][n] = n + w[k]
  BY <1>1 DEF Steps
<1>3. PICK f : Iterates(N, Nat, 0, step, f)
  <2> HIDE DEF step
  <2> QED BY <1>2, Iteration
<1>4. \A k \in 1 .. N : k - 1 \in 0 .. N
  OBVIOUS
<1>5. Sums(N, w, f)
  <2> HIDE DEF step
  <2> QED BY <1>2, <1>3, <1>4 DEF Sums, Iterates
<1>6. QED
  BY <1>5

\* The function by which FoldLeft adds up the weights of a set of places.
Folded(N, w, g) ==
  g = [t \in SUBSET (1 .. N) |-> IF t = {} THEN 0 ELSE g[t \ {Max(t)}] + w[Max(t)]]

\* The recursive function that FoldLeft speaks of exists.
LEMMA FoldedExists ==
  ASSUME NEW N \in Nat, NEW w \in [1 .. N -> Nat]
  PROVE  \E g : Folded(N, w, g)
<1> DEFINE Upto(g, k) ==
             \A t \in SUBSET (1 .. k) : g[t] = IF t = {} THEN 0 ELSE g[t \ {Max(t)}] + w[Max(t)]
           T == {k \in 0 .. N : \E g \in [SUBSET (1 .. k) -> Nat] : Upto(g, k)}
<1>1. 0 \in T
  <2> DEFINE g == [t \in SUBSET (1 .. 0) |-> 0]
  <2>1. g \in [SUBSET (1 .. 0) -> Nat] /\ \A t \in SUBSET (1 .. 0) : t = {} /\ g[t] = 0
    OBVIOUS
  <2>2. Upto(g, 0)
    <3> HIDE DEF g
    <3> QED BY <2>1
  <2>3. \E h \in [SUBSET (1 .. 0) -> Nat] : Upto(h, 0)
    <3> HIDE DEF g, Upto
    <3> QED BY <2>1, <2>2
  <2>4. 0 \in 0 .. N
    OBVIOUS
  <2>5. QED
    <3> HIDE DEF Upto
    <3> QED BY <2>3, <2>4
<1>2. ASSUME NEW k \in 0 .. (N - 1), k \in T PROVE k + 1 \in T
  <2>1. PICK f \in [SUBSET (1 .. k) -> Nat] : Upto(f, k)
    BY <1>2
  <2> DEFINE g == [t \in SUBSET (1 .. k + 1) |->
                     IF k + 1 \in t THEN f[t \ {k + 1}] + w[k + 1] ELSE f[t]]
  <2>2. k \in Nat /\ k + 1 \in Nat /\ k + 1 \in 1 .. N /\ w[k + 1] \in Nat /\ k + 1 \in 0 .. N
    OBVIOUS
  <2>3. \A t \in SUBSET (1 .. k + 1) : /\ t \ {k + 1} \in SUBSET (1 .. k)
                                       /\ k + 1 \notin t => t \in SUBSET (1 .. k)
    BY <2>2
  <2>4. g \in [SUBSET (1 .. k + 1) -> Nat]
    BY <2>2, <2>3
  <2>5. ASSUME NEW t \in SUBSET (1 .. k + 1), t # {}
        PROVE  g[t] = g[t \ {Max(t)}] + w[Max(t)]
    <3>1. Max(t) \in t /\ \A x \in t : x <= Max(t)
      <4> HIDE DEF g
      <4> QED BY <2>2, <2>5, MaxIsLargest
    <3>2. CASE k + 1 \in t
      <4>1. Max(t) = k + 1
        <5>1. Max(t) \in 1 .. k + 1 /\ k + 1 <= Max(t)
          BY <3>1, <3>2
        <5>2. QED
          BY <2>2, <5>1
      <4>2. g[t] = f[t \ {k + 1}] + w[k + 1]
        BY <3>2
      <4>3. t \ {k + 1} \in SUBSET (1 .. k + 1) /\ k + 1 \notin t \ {k + 1}
        OBVIOUS
      <4>4. g[t \ {k + 1}] = f[t \ {k + 1}]
        BY <4>3
      <4>5. QED
        BY <4>1, <4>2, <4>4
    <3>3. CASE k + 1 \notin t
      <4>1. t \in SUBSET (1 .. k)
        BY <2>3, <3>3
      <4>2. f[t] = f[t \ {Max(t)}] + w[Max(t)]
        BY <2>1, <2>5, <4>1
      <4>3. t \ {Max(t)} \in SUBSET (1 .. k + 1) /\ k + 1 \notin t \ {Max(t)}
        BY <3>3
      <4>4. g[t] = f[t] /\ g[t \ {Max(t)}] = f[t \ {Max(t)}]
        BY <3>3, <4>3
      <4>5. QED
        BY <4>2, <4>4
    <3>4. QED
      BY <3>2, <3>3
  <2>6. g[{}] = 0
    <3>1. {} \in SUBSET (1 .. k) /\ {} \in SUBSET (1 .. k + 1)
      OBVIOUS
    <3>2. f[{}] = 0
      BY <2>1, <3>1
    <3>3. QED
      BY <3>1, <3>2
  <2>7. Upto(g, k + 1)
    <3> HIDE DEF g
    <3> QED BY <2>5, <2>6
  <2>8. \E h \in [SUBSET (1 .. k + 1) -> Nat] : Upto(h, k + 1)
    <3> HIDE DEF g, Upto
    <3> QED BY <2>4, <2>7
  <2>9. QED
    <3> HIDE DEF Upto
    <3> QED BY <2>2, <2>8
<1>3. N \in T
  <2> HIDE DEF T
  <2>1. \A k \in 0 .. (N - 1) : k \in T => k + 1 \in T
    BY <1>2
  <2>2. \A k \in 0 .. N : k \in T
    BY <1>1, <2>1, Counting
  <2>3. QED
    BY <2>2
<1>4. PICK g \in [SUBSET (1 .. N) -> Nat] : Upto(g, N)
  BY <1>3
<1>5. g = [t \in SUBSET (1 .. N) |-> g[t]]
  OBVIOUS
<1>6. Folded(N, w, g)
  BY <1>4, <1>5 DEF Folded
<1>7. QED
  BY <1>6

\* Its value at all the places is the sum of all the weights.
LEMMA FoldedIsSum ==
  ASSUME NEW N \in Nat, NEW w \in [1 .. N -> Nat], NEW sum, Sums(N, w, sum), NEW g, Folded(N, w, g)
  PROVE  g[1 .. N] = sum[N]
<1> DEFINE T == {k \in 0 .. N : g[1 .. k] = sum[k]}
<1>1. 0 \in T
  <2>1. 1 .. 0 = {} /\ {} \in SUBSET (1 .. N) /\ 0 \in 0 .. N
    OBVIOUS
  <2>2. g[{}] = 0 /\ sum[0] = 0
    BY <2>1 DEF Folded, Sums
  <2>3. QED
    BY <2>1, <2>2
<1>2. ASSUME NEW k \in 0 .. (N - 1), k \in T PROVE k + 1 \in T
  <2>a. k \in Nat /\ k + 1 \in Nat /\ k + 1 \in 1 .. N /\ k + 1 \in 0 .. N
    OBVIOUS
  <2>b. (1 .. k + 1) \ {k + 1} = 1 .. k /\ k + 1 \in 1 .. k + 1
    BY <2>a
  <2>c. 1 .. k + 1 \in SUBSET (1 .. N)
    BY <2>a
  <2>1. /\ 1 .. k + 1 \in SUBSET (1 .. N) /\ 1 .. k + 1 # {} /\ k + 1 \in Nat
        /\ (1 .. k + 1) \ {k + 1} = 1 .. k /\ k + 1 \in 1 .. N /\ k + 1 \in 0 .. N
    BY <2>a, <2>b, <2>c
  <2>2. Max(1 .. k + 1) = k + 1
    <3>1. 1 .. k + 1 \in SUBSET (1 .. k + 1) /\ k + 1 \in 1 .. k + 1
      OBVIOUS
    <3>2. Max(1 .. k + 1) \in 1 .. k + 1 /\ \A x \in 1 .. k + 1 : x <= Max(1 .. k + 1)
      <4> HIDE DEF T
      <4> QED BY <2>1, <3>1, MaxIsLargest
    <3>3. k + 1 <= Max(1 .. k + 1)
      BY <3>1, <3>2
    <3>4. QED
      BY <3>2, <3>3
  <2>3. g[1 .. k + 1] = g[1 .. k] + w[k + 1]
    BY <2>1, <2>2 DEF Folded
  <2>4. sum[k + 1] = sum[k] + w[k + 1]
    BY <2>1 DEF Sums
  <2>5. QED
    BY <1>2, <2>1, <2>3, <2>4
<1>3. N \in T
  <2> HIDE DEF T
  <2>1. \A k \in 0 .. (N - 1) : k \in T => k + 1 \in T
    BY <1>2
  <2>2. \A k \in 0 .. N : k \in T
    BY <1>1, <2>1, Counting
  <2>3. QED
    BY <2>2
<1>4. QED
  BY <1>3

-----------------------------------------------------------------------------
(* The memory the pool has given away.                                     *)

Entries == [id : Models, role : Roles]
Weights(p) == [k \in 1 .. Len(p) |-> Footprint[p[k].id]]

LEMMA WeightsTyped ==
  ASSUME NEW p \in Seq(Entries)
  PROVE  Len(p) \in Nat /\ Weights(p) \in [1 .. Len(p) -> Nat]
<1>1. \A k \in 1 .. Len(p) : Footprint[p[k].id] \in Nat
  <2>1. ASSUME NEW k \in 1 .. Len(p) PROVE p[k] \in Entries
    OBVIOUS
  <2>2. QED
    BY <2>1, ModelPoolAssumption DEF Entries
<1>2. QED
  BY <1>1 DEF Weights

\* Used is the sum of the footprints, place by place.
LEMMA UsedIsSum ==
  ASSUME NEW p \in Seq(Entries), NEW sum, Sums(Len(p), Weights(p), sum)
  PROVE  Used(p) = sum[Len(p)]
<1>1. Len(p) \in Nat /\ Weights(p) \in [1 .. Len(p) -> Nat]
  BY WeightsTyped
<1>2. PICK g : Folded(Len(p), Weights(p), g)
  BY <1>1, FoldedExists
<1>3. DOMAIN p = 1 .. Len(p)
  OBVIOUS
<1>4. ASSUME NEW t \in SUBSET (1 .. Len(p)), t # {}
      PROVE  Weights(p)[Max(t)] = Footprint[p[Max(t)].id]
  <2>1. Max(t) \in 1 .. Len(p)
    BY <1>1, <1>4, MaxIsLargest
  <2>2. QED
    BY <2>1 DEF Weights
<1> DEFINE G(h) == [t \in SUBSET (1 .. Len(p)) |->
                      IF t = {} THEN 0 ELSE h[t \ {Max(t)}] + Footprint[p[Max(t)].id]]
<1>5. g = G(g)
  BY <1>2, <1>4 DEF Folded
<1>6. \E h : h = G(h) /\ Used(p) = h[1 .. Len(p)]
  BY <1>3, <1>5 DEF Used, FoldLeft, MapThenFoldSet
<1>7. PICK h : h = G(h) /\ Used(p) = h[1 .. Len(p)]
  BY <1>6
<1>8. Folded(Len(p), Weights(p), h)
  BY <1>4, <1>7 DEF Folded
<1>9. h[1 .. Len(p)] = sum[Len(p)]
  <2> HIDE DEF G
  <2> QED BY <1>1, <1>8, FoldedIsSum
<1>10. QED
  BY <1>7, <1>9

\* An entry that is added uses its footprint.
LEMMA AppendUses ==
  ASSUME NEW p \in Seq(Entries), NEW x \in Entries
  PROVE  Used(p) \in Nat /\ Used(Append(p, x)) = Used(p) + Footprint[x.id]
<1> DEFINE q == Append(p, x)
           w == Footprint[x.id]
           N == Len(p)
<1>1. /\ N \in Nat /\ Weights(p) \in [1 .. N -> Nat]
      /\ q \in Seq(Entries) /\ Len(q) = N + 1 /\ Weights(q) \in [1 .. N + 1 -> Nat]
  <2>1. q \in Seq(Entries) /\ Len(q) = N + 1
    OBVIOUS
  <2>2. N \in Nat /\ Weights(p) \in [1 .. N -> Nat]
    BY WeightsTyped
  <2>3. Weights(q) \in [1 .. Len(q) -> Nat]
    <3> HIDE DEF q
    <3> QED BY <2>1, WeightsTyped
  <2>4. QED
    BY <2>1, <2>2, <2>3
<1>2. w \in Nat
  BY ModelPoolAssumption DEF Entries
<1>3. PICK sum : Sums(N, Weights(p), sum)
  BY <1>1, SumsExist
<1>4. sum[N] \in Nat /\ Used(p) = sum[N]
  <2>1. sum[N] \in Nat
    BY <1>1, <1>3 DEF Sums
  <2>2. QED
    BY <1>3, <2>1, UsedIsSum
<1>5. /\ \A k \in 1 .. N : Weights(q)[k] = Weights(p)[k]
      /\ Weights(q)[N + 1] = w
  BY <1>1 DEF Weights
<1> DEFINE sumq == [k \in 0 .. N + 1 |-> IF k = N + 1 THEN sum[N] + w ELSE sum[k]]
<1>6. Sums(N + 1, Weights(q), sumq)
  <2>1. sumq \in [0 .. N + 1 -> Nat] /\ sumq[0] = 0 /\ sumq[N + 1] = sum[N] + w
    BY <1>1, <1>2, <1>3, <1>4 DEF Sums
  <2>2. \A k \in 0 .. N : sumq[k] = sum[k]
    BY <1>1
  <2>3. ASSUME NEW k \in 1 .. N + 1 PROVE sumq[k] = sumq[k - 1] + Weights(q)[k]
    <3>1. CASE k = N + 1
      <4>1. k - 1 = N /\ N \in 0 .. N
        BY <1>1, <3>1
      <4>2. QED
        BY <1>5, <2>1, <2>2, <3>1, <4>1
    <3>2. CASE k # N + 1
      <4>1. k \in 1 .. N /\ k \in 0 .. N /\ k - 1 \in 0 .. N
        BY <1>1, <3>2
      <4>2. QED
        BY <1>3, <1>5, <2>2, <4>1 DEF Sums
    <3>3. QED
      BY <3>1, <3>2
  <2>4. QED
    <3> HIDE DEF sumq
    <3> QED BY <2>1, <2>3 DEF Sums
<1>7. Used(q) = sumq[N + 1]
  <2> HIDE DEF sumq, q
  <2> QED BY <1>1, <1>6, UsedIsSum
<1>8. sumq[N + 1] = sum[N] + w
  BY <1>1
<1>9. QED
  BY <1>4, <1>7, <1>8

\* What RemoveAt leaves.
LEMMA RemoveAtIs ==
  ASSUME NEW p \in Seq(Entries), NEW i \in DOMAIN p
  PROVE  /\ RemoveAt(p, i) \in Seq(Entries) /\ Len(RemoveAt(p, i)) = Len(p) - 1
         /\ \A k \in 1 .. (Len(p) - 1) :
              RemoveAt(p, i)[k] = IF k < i THEN p[k] ELSE p[k + 1]
<1> DEFINE a == SubSeq(p, 1, i - 1)
           b == SubSeq(p, i + 1, Len(p))
<1>1. i \in 1 .. Len(p) /\ Len(p) \in Nat
  OBVIOUS
<1>2. a \in Seq(Entries) /\ Len(a) = i - 1 /\ \A k \in 1 .. (i - 1) : a[k] = p[k]
  BY <1>1
<1>3. b \in Seq(Entries) /\ Len(b) = Len(p) - i /\ \A k \in 1 .. (Len(p) - i) : b[k] = p[k + i]
  BY <1>1
<1>4. RemoveAt(p, i) = a \o b
  BY DEF RemoveAt
<1> HIDE DEF a, b
<1>5. QED
  BY <1>1, <1>2, <1>3, <1>4

\* An entry that is removed frees its footprint.
LEMMA RemoveFrees ==
  ASSUME NEW p \in Seq(Entries), NEW i \in DOMAIN p
  PROVE  /\ Used(p) \in Nat /\ Used(RemoveAt(p, i)) \in Nat /\ Footprint[p[i].id] \in Nat
         /\ Used(RemoveAt(p, i)) + Footprint[p[i].id] = Used(p)
<1> DEFINE q == RemoveAt(p, i)
           w == Footprint[p[i].id]
           N == Len(p)
<1>1. /\ N \in Nat /\ i \in 1 .. N /\ Weights(p) \in [1 .. N -> Nat]
      /\ q \in Seq(Entries) /\ Len(q) = N - 1 /\ N - 1 \in Nat
      /\ Weights(q) \in [1 .. (N - 1) -> Nat]
  <2>1. N \in Nat /\ i \in 1 .. N
    OBVIOUS
  <2>2. q \in Seq(Entries) /\ Len(q) = N - 1
    BY RemoveAtIs
  <2> HIDE DEF q
  <2>3. QED
    BY <2>1, <2>2, WeightsTyped
<1>2. w \in Nat
  <2>1. p[i] \in Entries
    OBVIOUS
  <2>2. QED
    BY <2>1, ModelPoolAssumption DEF Entries
<1>3. PICK sum : Sums(N, Weights(p), sum)
  BY <1>1, SumsExist
<1>4. PICK sumq : Sums(N - 1, Weights(q), sumq)
  <2> HIDE DEF q
  <2> QED BY <1>1, SumsExist
<1>5. Used(p) = sum[N] /\ Used(q) = sumq[N - 1]
  <2> HIDE DEF q
  <2> QED BY <1>1, <1>3, <1>4, UsedIsSum
<1>6. \A k \in 1 .. (N - 1) : Weights(q)[k] = IF k < i THEN Weights(p)[k] ELSE Weights(p)[k + 1]
  <2>1. \A k \in 1 .. (N - 1) : q[k] = IF k < i THEN p[k] ELSE p[k + 1]
    BY RemoveAtIs
  <2> HIDE DEF q
  <2>2. QED
    BY <1>1, <2>1 DEF Weights
<1>7. Weights(p)[i] = w
  BY <1>1 DEF Weights
<1> HIDE DEF q, w, N
<1> DEFINE T == {k \in 0 .. (N - 1) : IF k < i THEN sumq[k] = sum[k] ELSE sumq[k] + w = sum[k + 1]}
<1>8. 0 \in T
  BY <1>1, <1>3, <1>4 DEF Sums
<1>9. ASSUME NEW k \in 0 .. (N - 2), k \in T PROVE k + 1 \in T
  <2>1. /\ k \in Nat /\ k + 1 \in 1 .. (N - 1) /\ k + 1 \in 1 .. N /\ k + 2 \in 1 .. N
        /\ k \in 0 .. (N - 1) /\ k + 1 \in 0 .. (N - 1) /\ (k + 1) + 1 = k + 2
        /\ (k + 2) - 1 = k + 1 /\ (k + 1) - 1 = k
    BY <1>1
  <2>2. /\ sumq[k + 1] = sumq[k] + Weights(q)[k + 1]
        /\ sum[k + 1] = sum[k] + Weights(p)[k + 1]
        /\ sum[k + 2] = sum[k + 1] + Weights(p)[k + 2]
    BY <1>3, <1>4, <2>1 DEF Sums
  <2>3. /\ sumq[k] \in Nat /\ sum[k] \in Nat /\ sum[k + 1] \in Nat
        /\ Weights(p)[k + 1] \in Nat /\ Weights(p)[k + 2] \in Nat
    <3>1. k \in 0 .. N /\ k + 1 \in 0 .. N
      BY <1>1, <2>1
    <3>2. sum[k] \in Nat /\ sum[k + 1] \in Nat
      BY <1>3, <3>1 DEF Sums
    <3>3. sumq[k] \in Nat
      BY <1>4, <2>1 DEF Sums
    <3>4. Weights(p)[k + 1] \in Nat /\ Weights(p)[k + 2] \in Nat
      BY <1>1, <2>1
    <3>5. QED
      BY <3>2, <3>3, <3>4
  <2>4. Weights(q)[k + 1] = IF k + 1 < i THEN Weights(p)[k + 1] ELSE Weights(p)[k + 2]
    BY <1>6, <2>1
  <2>5. CASE k + 1 < i
    <3>1. sumq[k] = sum[k]
      BY <1>1, <1>9, <2>1, <2>5
    <3>2. sumq[k + 1] = sum[k + 1]
      BY <2>2, <2>4, <2>5, <3>1
    <3>3. QED
      BY <2>1, <2>5, <3>2
  <2>6. CASE k + 1 = i
    <3>1. sumq[k] = sum[k]
      BY <1>1, <1>9, <2>1, <2>6
    <3>2. sum[k + 1] = sum[k] + w
      BY <1>7, <2>2, <2>6
    <3>3. sumq[k + 1] + w = sum[k + 2]
      BY <1>2, <2>2, <2>3, <2>4, <2>6, <3>1, <3>2
    <3>4. QED
      BY <2>1, <2>6, <3>3
  <2>7. CASE k + 1 > i
    <3>1. sumq[k] + w = sum[k + 1]
      BY <1>1, <1>9, <2>1, <2>7
    <3>2. sumq[k + 1] + w = sum[k + 2]
      BY <1>2, <2>2, <2>3, <2>4, <2>7, <3>1
    <3>3. QED
      BY <2>1, <2>7, <3>2
  <2>8. QED
    BY <1>1, <2>1, <2>5, <2>6, <2>7
<1>10. \A k \in 0 .. ((N - 1) - 1) : k \in T => k + 1 \in T
  <2>1. (N - 1) - 1 = N - 2
    BY <1>1
  <2> HIDE DEF T
  <2>2. QED
    BY <1>9, <2>1
<1>11. N - 1 \in T
  <2> HIDE DEF T
  <2>1. \A k \in 0 .. (N - 1) : k \in T
    BY <1>1, <1>8, <1>10, Counting
  <2>2. QED
    BY <1>1, <2>1
<1>12. sumq[N - 1] + w = sum[N]
  <2>1. (~ (N - 1 < i) /\ (N - 1) + 1 = N) \/ (i = N /\ N - 1 < i)
    BY <1>1
  <2>2. CASE ~ (N - 1 < i) /\ (N - 1) + 1 = N
    BY <1>11, <2>2
  <2>3. CASE i = N /\ N - 1 < i
    <3>1. sumq[N - 1] = sum[N - 1]
      BY <1>11, <2>3
    <3>2. sum[N] = sum[N - 1] + Weights(p)[N]
      BY <1>1, <1>3, <2>3 DEF Sums
    <3>3. QED
      BY <1>7, <2>3, <3>1, <3>2
  <2>4. QED
    BY <2>1, <2>2, <2>3
<1>13. sum[N] \in Nat /\ sumq[N - 1] \in Nat
  BY <1>1, <1>3, <1>4 DEF Sums
<1>14. QED
  BY <1>2, <1>5, <1>12, <1>13 DEF q, w

LEMMA UsedTyped ==
  ASSUME NEW p \in Seq(Entries)
  PROVE  Used(p) \in Nat
<1>1. PICK sum : Sums(Len(p), Weights(p), sum)
  BY WeightsTyped, SumsExist
<1>2. Len(p) \in 0 .. Len(p)
  BY WeightsTyped
<1>3. QED
  BY <1>1, <1>2, UsedIsSum DEF Sums

\* Who is resident after an entry is added, or removed.
LEMMA AppendResident ==
  ASSUME NEW p \in Seq(Entries), NEW x \in Entries, NEW m
  PROVE  Resident(Append(p, x), m) <=> Resident(p, m) \/ m = x.id
<1> DEFINE q == Append(p, x)
<1>1. DOMAIN q = 1 .. Len(p) + 1 /\ DOMAIN p = 1 .. Len(p) /\ Len(p) \in Nat
  OBVIOUS
<1>2. q[Len(p) + 1] = x /\ \A k \in 1 .. Len(p) : q[k] = p[k]
  OBVIOUS
<1> HIDE DEF q
<1>3. \A k \in DOMAIN q : k \in DOMAIN p \/ k = Len(p) + 1
  BY <1>1
<1>4. Len(p) + 1 \in DOMAIN q /\ \A k \in DOMAIN p : k \in DOMAIN q
  BY <1>1
<1>5. Resident(q, m) <=> Resident(p, m) \/ m = x.id
  BY <1>1, <1>2, <1>3, <1>4 DEF Resident
<1>6. QED
  BY <1>5 DEF q

LEMMA RemoveResident ==
  ASSUME NEW p \in Seq(Entries), NEW i \in DOMAIN p
  PROVE  \A m : m # p[i].id => (Resident(p, m) <=> Resident(RemoveAt(p, i), m))
<1> DEFINE q == RemoveAt(p, i)
<1>1. /\ DOMAIN p = 1 .. Len(p) /\ Len(p) \in Nat /\ i \in 1 .. Len(p)
      /\ DOMAIN q = 1 .. (Len(p) - 1)
      /\ \A k \in 1 .. (Len(p) - 1) : q[k] = IF k < i THEN p[k] ELSE p[k + 1]
  <2>1. /\ q \in Seq(Entries) /\ Len(q) = Len(p) - 1
        /\ \A k \in 1 .. (Len(p) - 1) : q[k] = IF k < i THEN p[k] ELSE p[k + 1]
    BY RemoveAtIs
  <2> HIDE DEF q
  <2>2. QED
    BY <2>1
<1> HIDE DEF q
<1>2. ASSUME NEW m, m # p[i].id, Resident(p, m) PROVE Resident(q, m)
  <2>1. PICK k \in DOMAIN p : p[k].id = m
    BY <1>2 DEF Resident
  <2>2. CASE k < i
    <3>1. k \in 1 .. (Len(p) - 1)
      BY <1>1, <2>2
    <3>2. QED
      BY <1>1, <2>1, <2>2, <3>1 DEF Resident
  <2>3. CASE k > i
    <3>1. k - 1 \in 1 .. (Len(p) - 1) /\ ~ (k - 1 < i) /\ (k - 1) + 1 = k
      BY <1>1, <2>3
    <3>2. q[k - 1] = p[(k - 1) + 1]
      BY <1>1, <3>1
    <3>3. QED
      BY <1>1, <2>1, <3>1, <3>2 DEF Resident
  <2>4. k # i /\ k \in Int /\ i \in Int
    BY <1>1, <1>2, <2>1
  <2>5. QED
    BY <2>2, <2>3, <2>4
<1>3. ASSUME NEW m, Resident(q, m) PROVE Resident(p, m)
  <2>1. PICK k \in DOMAIN q : q[k].id = m
    BY <1>3 DEF Resident
  <2>2. k \in DOMAIN p /\ k + 1 \in DOMAIN p /\ (q[k] = p[k] \/ q[k] = p[k + 1])
    BY <1>1
  <2>3. QED
    BY <2>1, <2>2 DEF Resident
<1>4. QED
  BY <1>2, <1>3 DEF q

\* One round of the loop of admit.
Rooms == [residents : Seq(Entries), victims : Seq(Models)]
Round(was, m, r) ==
  LET i == CHOOSE k \in Victims(was.residents, r) : TRUE
  IN  IF Used(was.residents) + Footprint[m] <= Budget \/ Victims(was.residents, r) = {} THEN was
      ELSE [residents |-> RemoveAt(was.residents, i),
            victims   |-> Append(was.victims, was.residents[i].id)]

\* Who was resident is still, or is among the victims.
Keeps(p, room) ==
  /\ \A x \in Models : Resident(p, x) =>
       Resident(room.residents, x) \/ \E i \in DOMAIN room.victims : room.victims[i] = x
  /\ \A x \in Models : Resident(room.residents, x) => Resident(p, x)
  /\ Used(room.residents) <= Used(p)

\* A round loses nobody: who was resident is still, or becomes a victim.
LEMMA RoundKeeps ==
  ASSUME NEW p \in Seq(Entries), NEW was \in Rooms, NEW m \in Models, NEW r \in Roles
  PROVE  /\ Round(was, m, r) \in Rooms
         /\ Keeps(p, was) => Keeps(p, Round(was, m, r))
<1> DEFINE q == was.residents
           i == CHOOSE k \in Victims(q, r) : TRUE
<1>1. CASE Used(q) + Footprint[m] <= Budget \/ Victims(q, r) = {}
  BY <1>1 DEF Round
<1>2. CASE ~ (Used(q) + Footprint[m] <= Budget \/ Victims(q, r) = {})
  <2> DEFINE next == [residents |-> RemoveAt(q, i), victims |-> Append(was.victims, q[i].id)]
  <2>1. Round(was, m, r) = next
    BY <1>2 DEF Round
  <2>2. i \in DOMAIN q /\ q \in Seq(Entries) /\ was.victims \in Seq(Models)
    BY <1>2 DEF Victims, Rooms
  <2> HIDE DEF i
  <2>3. q[i] \in Entries /\ i \in 1 .. Len(q) /\ Len(q) \in Nat /\ DOMAIN q = 1 .. Len(q)
    BY <2>2
  <2>4. /\ RemoveAt(q, i) \in Seq(Entries) /\ Len(RemoveAt(q, i)) = Len(q) - 1
        /\ \A k \in 1 .. (Len(q) - 1) : RemoveAt(q, i)[k] = IF k < i THEN q[k] ELSE q[k + 1]
    BY <2>2, RemoveAtIs
  <2>5. q[i].id \in Models
    BY <2>3 DEF Entries
  <2>6. next \in Rooms
    BY <2>2, <2>4, <2>5 DEF Rooms
  <2>7. ASSUME Keeps(p, was) PROVE Keeps(p, next)
    <3>1. /\ Used(q) \in Nat /\ Used(RemoveAt(q, i)) \in Nat /\ Footprint[q[i].id] \in Nat
          /\ Used(RemoveAt(q, i)) + Footprint[q[i].id] = Used(q)
      BY <2>2, RemoveFrees
    <3>2. Used(p) \in Nat
      <4>1. PICK x \in Entries : x = q[i]
        BY <2>3
      <4>2. QED
        BY AppendUses
    <3>3. Used(RemoveAt(q, i)) <= Used(p)
      BY <2>7, <3>1, <3>2 DEF Keeps
    <3> DEFINE q2 == RemoveAt(q, i)
               v2 == Append(was.victims, q[i].id)
    <3>4. DOMAIN q2 = 1 .. (Len(q) - 1)
      BY <2>3, <2>4
    <3>5. /\ v2[Len(was.victims) + 1] = q[i].id
          /\ Len(was.victims) + 1 \in DOMAIN v2
          /\ \A k \in DOMAIN was.victims : k \in DOMAIN v2 /\ v2[k] = was.victims[k]
      BY <2>2, <2>5
    <3>6. ASSUME NEW k \in DOMAIN q, k # i
          PROVE  \E j \in DOMAIN q2 : q2[j] = q[k]
      <4>1. CASE k < i
        <5>1. k \in 1 .. (Len(q) - 1)
          BY <2>3, <4>1
        <5>2. QED
          BY <2>4, <3>4, <4>1, <5>1
      <4>2. CASE k > i
        <5>1. k - 1 \in 1 .. (Len(q) - 1) /\ ~ (k - 1 < i) /\ (k - 1) + 1 = k
          BY <2>3, <4>2
        <5>2. q2[k - 1] = q[(k - 1) + 1]
          BY <2>4, <5>1
        <5>3. QED
          BY <3>4, <5>1, <5>2
      <4>3. QED
        BY <2>3, <3>6, <4>1, <4>2
    <3>7. ASSUME NEW j \in DOMAIN q2
          PROVE  \E k \in DOMAIN q : q2[j] = q[k]
      <4>1. j \in 1 .. (Len(q) - 1) /\ j \in DOMAIN q /\ j + 1 \in DOMAIN q
        BY <2>3, <3>4
      <4>2. q2[j] = IF j < i THEN q[j] ELSE q[j + 1]
        BY <2>4, <4>1
      <4> HIDE DEF q2
      <4>3. QED
        BY <4>1, <4>2
    <3> HIDE DEF q2, v2
    <3>8. ASSUME NEW x \in Models, Resident(q, x)
          PROVE  Resident(q2, x) \/ \E k \in DOMAIN v2 : v2[k] = x
      <4>1. PICK k \in DOMAIN q : q[k].id = x
        BY <3>8 DEF Resident
      <4>2. CASE k = i
        BY <3>5, <4>1, <4>2
      <4>3. CASE k # i
        BY <3>6, <4>1, <4>3 DEF Resident
      <4>4. QED
        BY <4>2, <4>3
    <3>9. ASSUME NEW x \in Models, Resident(q2, x) PROVE Resident(q, x)
      BY <3>7, <3>9 DEF Resident
    <3>10. next.residents = q2 /\ next.victims = v2
      BY DEF q2, v2
    <3>11. Used(q2) <= Used(p)
      BY <3>3 DEF q2
    <3> HIDE DEF next
    <3>12. QED
      BY <2>7, <3>5, <3>8, <3>9, <3>10, <3>11 DEF Keeps
  <2>8. QED
    BY <2>1, <2>6, <2>7
<1>3. QED
  BY <1>1, <1>2

StartRoom(p) == [residents |-> p, victims |-> <<>>]

\* Nor does the loop, however many rounds it goes.
LEMMA EvictionsKeep ==
  ASSUME NEW p \in Seq(Entries), NEW m \in Models, NEW r \in Roles
  PROVE  Evictions(p, m, r) \in Rooms /\ Keeps(p, Evictions(p, m, r))
<1> DEFINE N == Len(p)
           step == [k \in 1 .. N |-> [was \in Rooms |-> Round(was, m, r)]]
<1>1. N \in Nat /\ StartRoom(p) \in Rooms /\ Keeps(p, StartRoom(p))
  <2>1. StartRoom(p).residents = p /\ StartRoom(p) \in Rooms
    BY DEF StartRoom, Rooms
  <2>2. \E x : x \in Entries \/ p = <<>>
    OBVIOUS
  <2>3. Used(p) \in Nat
    BY UsedTyped
  <2>4. QED
    BY <2>1, <2>3 DEF Keeps
<1>2. Steps(N, Rooms, step)
  <2>1. \A k \in 1 .. N : [was \in Rooms |-> Round(was, m, r)] \in [Rooms -> Rooms]
    BY RoundKeeps
  <2>2. QED
    BY <2>1 DEF Steps
<1>3. \A k \in 1 .. N, was \in Rooms : step[k][was] = Round(was, m, r)
  OBVIOUS
<1> DEFINE G(f) == [n \in 0 .. N |-> IF n = 0 THEN StartRoom(p) ELSE Round(f[n - 1], m, r)]
<1>4. \E f : f = G(f)
  <2>1. PICK f : Iterates(N, Rooms, StartRoom(p), step, f)
    <3> HIDE DEF step
    <3> QED BY <1>1, <1>2, Iteration
  <2>2. f = [n \in 0 .. N |-> f[n]] /\ f[0] = StartRoom(p)
    BY <2>1 DEF Iterates
  <2>3. \A n \in 1 .. N : f[n] = Round(f[n - 1], m, r)
    <3>1. \A n \in 1 .. N : f[n - 1] \in Rooms
      BY <1>1, <2>1 DEF Iterates
    <3>2. \A n \in 1 .. N : f[n] = step[n][f[n - 1]]
      BY <2>1 DEF Iterates
    <3> HIDE DEF step
    <3>3. QED
      BY <1>3, <3>1, <3>2
  <2>4. \A n \in 0 .. N : f[n] = IF n = 0 THEN StartRoom(p) ELSE Round(f[n - 1], m, r)
    <3>1. \A n \in 0 .. N : n = 0 \/ n \in 1 .. N
      BY <1>1
    <3>2. QED
      BY <2>2, <2>3, <3>1
  <2>5. f = G(f)
    BY <2>2, <2>4
  <2>6. QED
    BY <2>5
<1>5. \E f : f = G(f) /\ Evictions(p, m, r) = f[N]
  BY <1>4 DEF Evictions, Round, StartRoom
<1>6. PICK f : f = G(f) /\ Evictions(p, m, r) = f[N]
  BY <1>5
<1> DEFINE T == {n \in 0 .. N : f[n] \in Rooms /\ Keeps(p, f[n])}
<1>7. 0 \in T
  <2>1. f[0] = StartRoom(p)
    BY <1>1, <1>6
  <2>2. QED
    BY <1>1, <2>1
<1>8. ASSUME NEW n \in 0 .. (N - 1), n \in T PROVE n + 1 \in T
  <2>1. n + 1 \in 0 .. N /\ n + 1 # 0 /\ (n + 1) - 1 = n
    BY <1>1
  <2>2. f[n + 1] = Round(f[n], m, r)
    BY <1>6, <2>1
  <2>3. f[n] \in Rooms /\ Keeps(p, f[n])
    BY <1>8
  <2>4. Round(f[n], m, r) \in Rooms /\ Keeps(p, Round(f[n], m, r))
    BY <2>3, RoundKeeps
  <2>5. QED
    BY <2>1, <2>2, <2>4
<1>9. N \in T
  <2> HIDE DEF T
  <2>1. \A n \in 0 .. (N - 1) : n \in T => n + 1 \in T
    BY <1>8
  <2>2. \A n \in 0 .. N : n \in T
    BY <1>1, <1>7, <2>1, Counting
  <2>3. QED
    BY <1>1, <2>2
<1>10. QED
  BY <1>6, <1>9

\* What admit promises: the budget holds; a model that fits is resident; and
\* who was resident is still, or is among the victims to be stopped.
LEMMA AdmitIs ==
  ASSUME NEW p \in Seq(Entries), Used(p) <= Budget, NEW m \in Models, NEW r \in Roles
  PROVE  LET result == Admit(p, m, r) IN
         /\ result.residents \in Seq(Entries) /\ result.victims \in Seq(Models)
         /\ result.fits \in BOOLEAN
         /\ Used(result.residents) <= Budget
         /\ result.fits => Resident(result.residents, m)
         /\ \A x \in Models : Resident(result.residents, x) => Resident(p, x) \/ x = m
         /\ \A x \in Models : Resident(p, x) /\ result.fits =>
              \/ Resident(result.residents, x)
              \/ \E i \in DOMAIN result.victims : result.victims[i] = x
<1> DEFINE result == Admit(p, m, r)
           new == Entry(m, r)
<1>1. new \in Entries /\ new.id = m /\ Footprint[m] \in Nat /\ Budget \in Nat
  BY ModelPoolAssumption DEF Entries, Entry
<1>2. Used(p) \in Nat
  BY UsedTyped
<1> HIDE DEF new
<1>3. CASE Resident(p, m)
  <2> DEFINE i == Place(p, m)
             q == RemoveAt(p, i)
  <2>1. result = [residents |-> Append(q, new), victims |-> <<>>, fits |-> TRUE]
    BY <1>3 DEF Admit, new
  <2>2. i \in DOMAIN p /\ p[i].id = m
    BY <1>3 DEF Resident, Place
  <2> HIDE DEF i
  <2>3. /\ q \in Seq(Entries) /\ Len(q) = Len(p) - 1
        /\ \A k \in 1 .. (Len(p) - 1) : q[k] = IF k < i THEN p[k] ELSE p[k + 1]
    BY <2>2, RemoveAtIs
  <2>4. Used(q) \in Nat /\ Used(q) + Footprint[m] = Used(p)
    BY <2>2, RemoveFrees
  <2>5. \A x \in Models : x # m => (Resident(p, x) <=> Resident(q, x))
    BY <2>2, RemoveResident
  <2> HIDE DEF q
  <2>6. Used(Append(q, new)) = Used(p)
    BY <1>1, <2>3, <2>4, AppendUses
  <2>7. Append(q, new) \in Seq(Entries)
    BY <1>1, <2>3
  <2>8. \A x \in Models : Resident(Append(q, new), x) <=> Resident(q, x) \/ x = m
    BY <1>1, <2>3, AppendResident
  <2>9. <<>> \in Seq(Models)
    OBVIOUS
  <2> HIDE DEF result
  <2>10. QED
    BY <1>3, <2>1, <2>5, <2>6, <2>7, <2>8, <2>9 DEF result
<1>4. CASE ~ Resident(p, m) /\ Footprint[m] > Budget
  <2>1. result = [residents |-> p, victims |-> <<>>, fits |-> FALSE]
    BY <1>4 DEF Admit
  <2>2. <<>> \in Seq(Models)
    OBVIOUS
  <2> HIDE DEF result
  <2>3. QED
    BY <2>1, <2>2 DEF result
<1>5. CASE ~ Resident(p, m) /\ ~ (Footprint[m] > Budget)
  <2> DEFINE room == Evictions(p, m, r)
             fits == Used(room.residents) + Footprint[m] <= Budget
  <2>1. /\ result.residents = IF fits THEN Append(room.residents, new) ELSE room.residents
        /\ result.victims = IF fits THEN room.victims ELSE <<>>
        /\ result.fits = fits
    BY <1>5 DEF Admit, new
  <2>2. room \in Rooms /\ Keeps(p, room)
    BY EvictionsKeep
  <2>3. room.residents \in Seq(Entries) /\ room.victims \in Seq(Models) /\ <<>> \in Seq(Models)
    BY <2>2 DEF Rooms
  <2> HIDE DEF room
  <2>4. Used(room.residents) \in Nat /\ Used(room.residents) <= Budget
    BY <1>1, <1>2, <2>2, <2>3, UsedTyped DEF Keeps
  <2>5. CASE fits
    <3>1. Used(Append(room.residents, new)) = Used(room.residents) + Footprint[m]
      BY <1>1, <2>3, AppendUses
    <3>2. \A x \in Models : Resident(Append(room.residents, new), x)
                              <=> Resident(room.residents, x) \/ x = m
      BY <1>1, <2>3, AppendResident
    <3>3. Append(room.residents, new) \in Seq(Entries)
      BY <1>1, <2>3
    <3>4. /\ result.residents = Append(room.residents, new) /\ result.victims = room.victims
          /\ result.fits
      BY <2>1, <2>5
    <3>5. Used(Append(room.residents, new)) <= Budget
      BY <2>5, <3>1
    <3> HIDE DEF result, fits
    <3>6. QED
      BY <2>2, <2>3, <3>2, <3>3, <3>4, <3>5 DEF Keeps, result
  <2>6. CASE ~ fits
    <3> HIDE DEF result, fits
    <3>1. result.residents = room.residents /\ result.victims = <<>> /\ ~ result.fits
      BY <2>1, <2>6, Zenon
    <3>2. result.fits \in BOOLEAN
      BY <2>1 DEF fits
    <3>3. QED
      BY <2>2, <2>3, <2>4, <3>1, <3>2 DEF Keeps, result
  <2>7. QED
    BY <2>5, <2>6
<1>6. QED
  BY <1>3, <1>4, <1>5

-----------------------------------------------------------------------------
(* What the variables of the store and of the runtime hold.                *)

Chunks == {"good", "corrupt", "hole"}
Files == [there : BOOLEAN, content : Seq(Chunks)]
Dirs == [exists : BOOLEAN, part : Files, weights : Files, manifest : BOOLEAN]

Plain     == [pc : {"create", "head", "rename", "discard", "probe", "manifest", "unload"},
              model : Models]
Stating   == [pc : {"stat"}, model : Models, len : Nat, ranges : BOOLEAN]
Opened    == [pc : {"open"}, model : Models, len : Nat, offset : Nat]
Fetching  == [pc : {"fetch"}, model : Models, len : Nat, offset : Nat,
              open : {"part", "weights", "gone"}]

StoreTypeOK ==
  /\ dirs \in [Models -> Dirs]
  /\ inst \in [Installers -> {Resting} \union Plain \union Stating \union Opened \union Fetching]
  /\ installs \in Nat

Boots    == [pc : {"bind", "admit", "evict", "takedown"}, role : Roles, id : Models,
             victims : Seq(Models), roles : SUBSET Roles]
Externals == [pc : {"external", "point", "rewire"}, role : Roles, id : {Endpoint},
             victims : Seq(Models), roles : SUBSET Roles]
Swaps    == [pc : {"swap"}, role : Roles, id : Models, n : Nat]
Removals == [pc : {"unserve", "delete", "erase", "clear"}, id : Models, roles : SUBSET Roles]
Stops    == [pc : {"stop"}, id : Models, roles : SUBSET Roles, role : Roles]
Forgets  == [pc : {"forget", "clear"}, id : {Endpoint}]
ThreadStates ==
  {Idle} \union Boots \union Externals \union Swaps \union Removals \union Stops \union Forgets
Servers  == [kind : {"server"}, id : Models, n : Nat]

ServingTypeOK ==
  /\ endpoint \in BOOLEAN /\ bound \in [Roles -> Ids]
  /\ pool \in Seq(Entries) /\ Used(pool) <= Budget
  /\ live \in [Roles -> {NoServer} \union Servers]
  /\ route \in [Roles -> Ids]
  /\ runtimes \in [Ids -> {Unavailable, External} \union Servers]
  /\ runtimes[Endpoint] = External /\ runtimes[NoModel] = Unavailable
  /\ \A m \in Models : runtimes[m] # External
  /\ stopped \in SUBSET Servers /\ booted \in Nat /\ ops \in Nat
  /\ th \in [Threads -> ThreadStates]
  /\ \A r \in Roles : th[r] \in {Idle} \union Boots \union Swaps
  /\ \A t \in Threads : th[t].pc = "takedown" => th[t].victims # <<>>

HistoryTypeOK ==
  /\ contested \in SUBSET Models /\ raced \in SUBSET Roles /\ shared \in SUBSET Ids
  /\ unaccounted \in SUBSET Models /\ cut \in SUBSET Models

Alone ==
  \A m \in Models \ contested :
    /\ \A i, j \in Installing(m) : i = j
    /\ Installing(m) # {} => Removing(m) = {}

\* What an installer of m in state s relies on, m being in directory d.
Phase(m, d, s) ==
  /\ ~ d.manifest
  /\ m \notin SelfFetched =>
       /\ s.pc \in {"probe", "manifest"} => Whole(d.weights)
       /\ s.pc = "rename" => Whole(d.part)
       /\ s.pc = "fetch" => s.open = "part"

Sound(m, d) == m \notin SelfFetched /\ d.manifest => Whole(d.weights)

Erasing(m) == \E c \in Removing(m) : th[c].pc = "erase"

\* Only a removal may leave a manifest over weights that are gone.
SoundOrCut(m) == Sound(m, dirs[m]) \/ m \in cut \/ Erasing(m)

FilesInv ==
  \A m \in Models \ contested :
    SoundOrCut(m) /\ \A i \in Installing(m) : Phase(m, dirs[m], inst[i])

InstStates == {Resting} \union Plain \union Stating \union Opened \union Fetching
Handles == {"part", "weights", "gone"}
Renames == {PartGone, WeightsGone, NothingMoves, PartIsWeights}

\* The states of an installer are told apart by pc.
LEMMA StatesDiffer ==
  ASSUME NEW s \in InstStates
  PROVE  /\ s # Resting => s.model \in Models
         /\ s = Resting <=> s.pc = "idle"
         /\ s.pc = "fetch" <=> s \in Fetching
         /\ s.pc = "stat" <=> s \in Stating
         /\ s.pc = "open" <=> s \in Opened
         /\ s.pc \notin {"idle", "fetch", "stat", "open"} <=> s \in Plain
         /\ "open" \in DOMAIN s <=> s.pc = "fetch"
<1>1. CASE s = Resting
  BY <1>1 DEF Resting, Plain, Stating, Opened, Fetching
<1>2. CASE s \in Plain
  BY <1>2 DEF Resting, Plain, Stating, Opened, Fetching
<1>3. CASE s \in Stating
  BY <1>3 DEF Resting, Plain, Stating, Opened, Fetching
<1>4. CASE s \in Opened
  BY <1>4 DEF Resting, Plain, Stating, Opened, Fetching
<1>5. CASE s \in Fetching
  BY <1>5 DEF Resting, Plain, Stating, Opened, Fetching
<1>6. QED
  BY <1>1, <1>2, <1>3, <1>4, <1>5 DEF InstStates

LEMMA MovedIs ==
  ASSUME StoreTypeOK, NEW m \in Models, NEW name \in [Handles -> Handles]
  PROVE  /\ Moved(m, name) \in [Installers -> InstStates]
         /\ \A i \in Installers :
              /\ Moved(m, name)[i].pc = inst[i].pc
              /\ inst[i] # Resting => Moved(m, name)[i].model = inst[i].model
              /\ i \notin Installing(m) => Moved(m, name)[i] = inst[i]
<1>1. ASSUME NEW i \in Installers
      PROVE  /\ Moved(m, name)[i] \in InstStates
             /\ Moved(m, name)[i].pc = inst[i].pc
             /\ inst[i] # Resting => Moved(m, name)[i].model = inst[i].model
             /\ i \notin Installing(m) => Moved(m, name)[i] = inst[i]
  <2>1. inst[i] \in InstStates
    BY DEF StoreTypeOK, InstStates
  <2>2. CASE i \in Installing(m) /\ inst[i].pc = "fetch"
    <3>1. inst[i] \in Fetching /\ "open" \in DOMAIN inst[i]
      BY <2>1, <2>2, StatesDiffer
    <3>2. Moved(m, name)[i] = [inst[i] EXCEPT !.open = name[@]]
      BY <2>2, <3>1 DEF Moved
    <3>3. name[inst[i].open] \in Handles
      BY <3>1 DEF Fetching, Handles
    <3>4. [inst[i] EXCEPT !.open = name[@]] \in Fetching
      BY <3>1, <3>3 DEF Fetching, Handles
    <3>5. QED
      BY <2>2, <3>1, <3>2, <3>4 DEF InstStates, Fetching
  <2>3. CASE ~ (i \in Installing(m) /\ inst[i].pc = "fetch")
    <3>1. Moved(m, name)[i] = inst[i]
      BY <2>1, <2>3, StatesDiffer DEF Moved
    <3>2. QED
      BY <2>1, <3>1
  <2>4. QED
    BY <2>2, <2>3
<1>2. Moved(m, name) = [i \in Installers |-> Moved(m, name)[i]]
  BY DEF Moved
<1>3. QED
  BY <1>1, <1>2

\* A chunk written behind the end of a file leaves a hole before it.
LEMMA WriteAtIs ==
  ASSUME NEW chunks \in Seq(Chunks), NEW place \in Nat \ {0}, NEW chunk \in Chunks
  PROVE  WriteAt(chunks, place, chunk) \in Seq(Chunks)
<1>1. \A k \in 1 .. Len(chunks) : chunks[k] \in Chunks
  OBVIOUS
<1>2. "hole" \in Chunks
  BY DEF Chunks
<1>3. PICK n \in Nat : n = IF place > Len(chunks) THEN place ELSE Len(chunks)
  OBVIOUS
<1>4. ASSUME NEW k \in 1 .. n PROVE WriteAt(chunks, place, chunk)[k] \in Chunks
  <2>1. CASE k = place
    BY <1>3, <2>1 DEF WriteAt
  <2>2. CASE k # place /\ k <= Len(chunks)
    <3>1. k \in 1 .. Len(chunks)
      BY <2>2
    <3>2. WriteAt(chunks, place, chunk)[k] = chunks[k]
      BY <1>3, <2>2 DEF WriteAt
    <3>3. QED
      BY <1>1, <3>1, <3>2
  <2>3. CASE k # place /\ ~ (k <= Len(chunks))
    BY <1>2, <1>3, <2>3 DEF WriteAt
  <2>4. QED
    BY <2>1, <2>2, <2>3
<1>5. WriteAt(chunks, place, chunk) = [k \in 1 .. n |-> WriteAt(chunks, place, chunk)[k]]
  BY <1>3 DEF WriteAt
<1>6. QED
  BY <1>4, <1>5

LEMMA FilesTyped ==
  /\ NoFile \in Files /\ File(<<>>) \in Files /\ NoDir \in Dirs
  /\ Renames \subseteq [Handles -> Handles]
  /\ File([k \in 1 .. Size |-> "good"]) \in Files
<1>1. <<>> \in Seq(Chunks) /\ [k \in 1 .. Size |-> "good"] \in Seq(Chunks)
  <2>1. Size \in Nat /\ "good" \in Chunks
    BY InstallAssumption DEF Chunks
  <2>2. QED
    BY <2>1
<1>2. NoFile \in Files /\ File(<<>>) \in Files /\ File([k \in 1 .. Size |-> "good"]) \in Files
  BY <1>1 DEF NoFile, File, Files
<1>3. NoDir \in Dirs
  BY <1>2 DEF NoDir, Dirs
<1>4. Renames \subseteq [Handles -> Handles]
  BY DEF Renames, PartGone, WeightsGone, NothingMoves, PartIsWeights, Handles
<1>5. QED
  BY <1>2, <1>3, <1>4

\* Who has a file of m open follows it when m's directory changes under it.
LEMMA MovedTouches ==
  ASSUME StoreTypeOK, NEW m \in Models, NEW name \in Renames,
         NEW j \in Installers
  PROVE  /\ Moved(m, name)[j] = inst[j] \/ (inst[j] # Resting /\ inst[j].model = m)
         /\ Moved(m, name)[j] = Resting <=> inst[j] = Resting
         /\ Moved(m, name)[j].pc = inst[j].pc
         /\ inst[j] # Resting => Moved(m, name)[j].model = inst[j].model
         /\ Moved(m, name) \in [Installers -> InstStates]
<1> DEFINE mv == Moved(m, name)
<1>1. /\ mv \in [Installers -> InstStates] /\ mv[j].pc = inst[j].pc
      /\ inst[j] # Resting => mv[j].model = inst[j].model
      /\ j \notin Installing(m) => mv[j] = inst[j]
  BY FilesTyped, MovedIs
<1> HIDE DEF mv
<1>2. inst[j] \in InstStates /\ mv[j] \in InstStates
  BY <1>1 DEF StoreTypeOK, InstStates
<1>3. mv[j] = Resting <=> inst[j] = Resting
  BY <1>1, <1>2, StatesDiffer
<1>4. j \in Installing(m) => inst[j] # Resting /\ inst[j].model = m
  BY DEF Installing, Working
<1>5. QED
  BY <1>1, <1>3, <1>4 DEF mv

\* What removing one file of a directory, or the empty directory, does.
LEMMA UnlinkIs ==
  ASSUME StoreTypeOK, NEW m \in Models, UnlinkFile(m)
  PROVE  /\ dirs' \in [Models -> Dirs] /\ inst' \in [Installers -> InstStates]
         /\ \E name \in Renames : inst' = Moved(m, name)
         /\ \A k \in Models : k # m => dirs'[k] = dirs[k]
         /\ dirs'[m].manifest => dirs[m].manifest
<1>1. dirs \in [Models -> Dirs] /\ dirs[m] \in Dirs
  BY DEF StoreTypeOK
<1>2. /\ [dirs[m] EXCEPT !.part = NoFile] \in Dirs
      /\ [dirs[m] EXCEPT !.weights = NoFile] \in Dirs
      /\ [dirs[m] EXCEPT !.manifest = FALSE] \in Dirs
  BY <1>1, FilesTyped DEF Dirs
<1>3. PICK d \in Dirs :
        /\ dirs' = [dirs EXCEPT ![m] = d]
        /\ d.manifest => dirs[m].manifest
  <2>1. CASE dirs' = [dirs EXCEPT ![m].part = NoFile]
    BY <1>1, <1>2, <2>1 DEF Dirs
  <2>2. CASE dirs' = [dirs EXCEPT ![m].weights = NoFile]
    BY <1>1, <1>2, <2>2 DEF Dirs
  <2>3. CASE dirs' = [dirs EXCEPT ![m].manifest = FALSE]
    BY <1>1, <1>2, <2>3 DEF Dirs
  <2>4. QED
    BY <2>1, <2>2, <2>3 DEF UnlinkFile
<1>4. PICK name \in Renames : inst' = Moved(m, name)
  BY DEF UnlinkFile, Renames
<1>5. Moved(m, name) \in [Installers -> InstStates]
  BY FilesTyped, MovedIs
<1>6. QED
  BY <1>1, <1>3, <1>4, <1>5

LEMMA RemoveDirIs ==
  ASSUME StoreTypeOK, NEW m \in Models, RemoveDir(m)
  PROVE  /\ dirs' \in [Models -> Dirs] /\ dirs'[m] = NoDir /\ ~ dirs[m].manifest
         /\ \A k \in Models : k # m => dirs'[k] = dirs[k]
<1>1. dirs' = [dirs EXCEPT ![m] = NoDir] /\ dirs[m] = [NoDir EXCEPT !.exists = TRUE]
  BY DEF RemoveDir
<1>2. ~ [NoDir EXCEPT !.exists = TRUE].manifest
  BY DEF NoDir
<1>3. QED
  BY <1>1, <1>2, FilesTyped DEF StoreTypeOK

LEMMA BeginInstallType ==
  ASSUME StoreTypeOK, NEW i \in Installers, NEW m \in Models, BeginInstall(i, m)
  PROVE  StoreTypeOK'
<1>1. [pc |-> "create", model |-> m] \in Plain
  BY DEF Plain
<1>2. QED
  BY <1>1 DEF BeginInstall, StoreTypeOK

\* A step of an installer keeps the types.
LEMMA StoreTypeStep ==
  ASSUME StoreTypeOK, NEW i \in Installers, InstallStep(i)
  PROVE  StoreTypeOK'
<1> DEFINE s == inst[i]
           m == inst[i].model
<1>1. dirs \in [Models -> Dirs] /\ inst \in [Installers -> InstStates] /\ installs \in Nat
  BY DEF StoreTypeOK, InstStates
<1>2. s \in InstStates
  BY <1>1
<1>3. SUFFICES dirs' \in [Models -> Dirs] /\ inst' \in [Installers -> InstStates] /\ installs' \in Nat
  BY DEF StoreTypeOK, InstStates
<1>4. s.pc # "idle" => m \in Models /\ dirs[m] \in Dirs
  BY <1>1, <1>2, StatesDiffer
<1>5. Resting \in InstStates
  BY DEF InstStates
<1>6. ASSUME NEW at \in {"create", "head", "rename", "discard", "probe", "manifest", "unload"},
             s \in Plain
      PROVE  [inst EXCEPT ![i].pc = at] \in [Installers -> InstStates]
  <2>1. [s EXCEPT !.pc = at] \in Plain
    BY <1>6 DEF Plain
  <2>2. QED
    BY <1>1, <2>1 DEF InstStates
<1>7. CASE CreateDir(i)
  <2>1. s \in Plain /\ m \in Models /\ dirs[m] \in Dirs
    BY <1>2, <1>4, <1>7, StatesDiffer DEF CreateDir, At
  <2>2. [dirs[m] EXCEPT !.exists = TRUE] \in Dirs
    BY <2>1 DEF Dirs
  <2>3. [dirs EXCEPT ![m].exists = TRUE] \in [Models -> Dirs]
    BY <1>1, <2>1, <2>2
  <2>4. QED
    BY <1>1, <1>5, <1>6, <1>7, <2>1, <2>3 DEF CreateDir, Finish, Proceed
<1>8. CASE SkipDownload(i)
  <2>1. s \in Plain
    BY <1>2, <1>8, StatesDiffer DEF SkipDownload, At
  <2>2. QED
    BY <1>1, <1>6, <1>8, <2>1 DEF SkipDownload, Proceed
<1>9. CASE AskServer(i)
  <2>1. s \in Plain
    BY <1>2, <1>9, StatesDiffer DEF AskServer, At
  <2>2. ASSUME NEW len \in Lengths, NEW ranges \in BOOLEAN
        PROVE  [pc |-> "stat", model |-> m, len |-> len, ranges |-> ranges] \in InstStates
    BY <2>1, InstallAssumption DEF Plain, Stating, InstStates
  <2>3. QED
    BY <1>1, <1>9, <2>2 DEF AskServer
<1>10. CASE StatPart(i)
  <2>1. s \in Stating /\ m \in Models /\ dirs[m] \in Dirs
    BY <1>2, <1>4, <1>10, StatesDiffer DEF StatPart, At
  <2>2. ResumeAt(i) \in Nat
    BY <2>1 DEF ResumeAt, Dir, Dirs, Files
  <2> DEFINE next(o) == [pc |-> "open", model |-> m, len |-> s.len, offset |-> o]
  <2>3. \A o \in Nat : next(o) \in InstStates
    BY <2>1 DEF Stating, Opened, InstStates
  <2>4. PICK o \in Nat :
          \/ inst' = [Moved(m, PartGone) EXCEPT ![i] = next(o)]
               /\ dirs' = [dirs EXCEPT ![m].part = NoFile]
          \/ inst' = [inst EXCEPT ![i] = next(o)] /\ dirs' = dirs
    BY <1>10, <2>2 DEF StatPart
  <2>5. Moved(m, PartGone) \in [Installers -> InstStates]
    BY <2>1, FilesTyped, MovedIs DEF Renames
  <2>6. [dirs[m] EXCEPT !.part = NoFile] \in Dirs
    BY <2>1, FilesTyped DEF Dirs
  <2>7. [dirs EXCEPT ![m].part = NoFile] \in [Models -> Dirs]
    BY <1>1, <2>1, <2>6
  <2> HIDE DEF next
  <2>8. inst' \in [Installers -> InstStates]
    BY <1>1, <2>3, <2>4, <2>5
  <2>9. QED
    BY <1>1, <1>10, <2>4, <2>7, <2>8 DEF StatPart
<1>11. CASE OpenPart(i)
  <2>1. s \in Opened /\ m \in Models /\ dirs[m] \in Dirs
    BY <1>2, <1>4, <1>11, StatesDiffer DEF OpenPart, At
  <2>2. [dirs[m] EXCEPT !.part = File(<<>>)] \in Dirs
    BY <2>1, FilesTyped DEF Dirs
  <2>3. [dirs EXCEPT ![m].part = File(<<>>)] \in [Models -> Dirs]
    BY <1>1, <2>1, <2>2
  <2>4. [pc |-> "fetch", model |-> m, len |-> s.len, offset |-> s.offset, open |-> "part"]
           \in InstStates
    BY <2>1 DEF Opened, Fetching, InstStates
  <2>5. QED
    BY <1>1, <1>11, <2>3, <2>4 DEF OpenPart
<1>12. CASE Fetch(i)
  <2>1. s \in Fetching /\ m \in Models /\ dirs[m] \in Dirs
    BY <1>2, <1>4, <1>12, StatesDiffer DEF Fetch, Unfinished, At
  <2>2. [s EXCEPT !.offset = @ + 1] \in Fetching /\ s.offset + 1 \in Nat \ {0}
    BY <2>1 DEF Fetching
  <2>3. inst' \in [Installers -> InstStates]
    BY <1>1, <1>12, <2>2 DEF Fetch, InstStates
  <2>4. ASSUME NEW chunk \in {"good", "corrupt"}
        PROVE  /\ [dirs EXCEPT ![m].part.content = WriteAt(@, s.offset + 1, chunk)]
                    \in [Models -> Dirs]
               /\ [dirs EXCEPT ![m].weights.content = WriteAt(@, s.offset + 1, chunk)]
                    \in [Models -> Dirs]
    <3>1. chunk \in Chunks
      BY DEF Chunks
    <3>2. /\ dirs[m].part \in Files /\ dirs[m].weights \in Files
          /\ dirs[m].part.content \in Seq(Chunks) /\ dirs[m].weights.content \in Seq(Chunks)
      BY <2>1 DEF Dirs, Files
    <3>3. /\ WriteAt(dirs[m].part.content, s.offset + 1, chunk) \in Seq(Chunks)
          /\ WriteAt(dirs[m].weights.content, s.offset + 1, chunk) \in Seq(Chunks)
      BY <2>2, <3>1, <3>2, WriteAtIs
    <3> DEFINE a == WriteAt(dirs[m].part.content, s.offset + 1, chunk)
               b == WriteAt(dirs[m].weights.content, s.offset + 1, chunk)
    <3>4. /\ [dirs EXCEPT ![m].part.content = WriteAt(@, s.offset + 1, chunk)]
                = [dirs EXCEPT ![m].part.content = a]
          /\ [dirs EXCEPT ![m].weights.content = WriteAt(@, s.offset + 1, chunk)]
                = [dirs EXCEPT ![m].weights.content = b]
      OBVIOUS
    <3> HIDE DEF a, b
    <3>5. a \in Seq(Chunks) /\ b \in Seq(Chunks)
      BY <3>3 DEF a, b
    <3>6. /\ [dirs[m].part EXCEPT !.content = a] \in Files
          /\ [dirs[m].weights EXCEPT !.content = b] \in Files
      BY <3>2, <3>5 DEF Files
    <3>7. /\ [dirs[m] EXCEPT !.part.content = a] \in Dirs
          /\ [dirs[m] EXCEPT !.weights.content = b] \in Dirs
      BY <2>1, <3>6 DEF Dirs
    <3>8. /\ [dirs EXCEPT ![m].part.content = a] \in [Models -> Dirs]
          /\ [dirs EXCEPT ![m].weights.content = b] \in [Models -> Dirs]
      BY <1>1, <2>1, <3>7
    <3>9. QED
      BY <3>4, <3>8
  <2>5. dirs' \in [Models -> Dirs]
    BY <1>1, <1>12, <2>4 DEF Fetch
  <2>6. QED
    BY <1>1, <1>12, <2>3, <2>5 DEF Fetch
<1>13. CASE StopFetch(i) \/ NotFound(i) \/ UnloadFails(i) \/ KillInstaller(i)
  BY <1>1, <1>5, <1>13 DEF StopFetch, NotFound, UnloadFails, KillInstaller, Finish
<1>14. CASE HashPart(i)
  <2>1. s \in Fetching
    BY <1>2, <1>14, StatesDiffer DEF HashPart, Complete, At
  <2>2. ASSUME NEW at \in {"rename", "discard"} PROVE [model |-> m, pc |-> at] \in InstStates
    BY <2>1 DEF Fetching, Plain, InstStates
  <2>3. QED
    BY <1>1, <1>14, <2>2 DEF HashPart
<1>15. CASE DiscardPart(i)
  <2>1. m \in Models /\ dirs[m] \in Dirs
    BY <1>4, <1>15 DEF DiscardPart, At
  <2>2. [dirs[m] EXCEPT !.part = NoFile] \in Dirs
    BY <2>1, FilesTyped DEF Dirs
  <2>3. [dirs EXCEPT ![m].part = NoFile] \in [Models -> Dirs]
    BY <1>1, <2>1, <2>2
  <2>4. Moved(m, PartGone) \in [Installers -> InstStates]
    BY <2>1, FilesTyped, MovedIs DEF Renames
  <2>5. QED
    BY <1>1, <1>5, <1>15, <2>3, <2>4 DEF DiscardPart
<1>16. CASE RenamePart(i)
  <2>1. s \in Plain /\ m \in Models /\ dirs[m] \in Dirs
    BY <1>2, <1>4, <1>16, StatesDiffer DEF RenamePart, At
  <2>2. [dirs[m] EXCEPT !.weights = dirs[m].part, !.part = NoFile] \in Dirs
    BY <2>1, FilesTyped DEF Dirs
  <2>3. dirs' \in [Models -> Dirs]
    <3>1. dirs' = [dirs EXCEPT ![m] = [dirs[m] EXCEPT !.weights = dirs[m].part, !.part = NoFile]]
      BY <1>1, <1>16, <2>1 DEF RenamePart, Dir
    <3>2. QED
      BY <1>1, <2>1, <2>2, <3>1
  <2>4. /\ Moved(m, PartIsWeights) \in [Installers -> InstStates]
        /\ Moved(m, PartIsWeights)[i].pc = "rename"
    BY <1>16, <2>1, FilesTyped, MovedIs DEF RenamePart, At, Renames
  <2>5. Moved(m, PartIsWeights)[i] \in Plain
    BY <2>4, StatesDiffer
  <2>6. [Moved(m, PartIsWeights)[i] EXCEPT !.pc = "probe"] \in InstStates
    BY <2>5 DEF Plain, InstStates
  <2>7. inst' = [Moved(m, PartIsWeights) EXCEPT ![i].pc = "probe"] /\ installs' = installs
    BY <1>16 DEF RenamePart
  <2>8. QED
    BY <1>1, <2>3, <2>4, <2>6, <2>7
<1>17. CASE Probe(i)
  <2>1. s \in Plain
    BY <1>2, <1>17, StatesDiffer DEF Probe, At
  <2>2. QED
    BY <1>1, <1>5, <1>6, <1>17, <2>1 DEF Probe, Proceed, Finish
<1>18. CASE Unload(i)
  <2>1. m \in Models
    BY <1>4, <1>18 DEF Unload, At
  <2>2. CASE UnlinkFile(m)
    <3>1. dirs' \in [Models -> Dirs] /\ inst' \in [Installers -> InstStates]
      BY <2>1, <2>2, UnlinkIs
    <3>2. QED
      BY <1>1, <1>18, <3>1 DEF Unload
  <2>3. CASE RemoveDir(m) /\ Finish(i)
    <3>1. dirs' \in [Models -> Dirs]
      BY <2>1, <2>3, RemoveDirIs
    <3>2. QED
      BY <1>1, <1>5, <1>18, <2>3, <3>1 DEF Unload, Finish
  <2>4. QED
    BY <1>18, <2>2, <2>3 DEF Unload
<1>19. CASE WriteManifest(i)
  <2>1. m \in Models /\ dirs[m] \in Dirs
    BY <1>4, <1>19 DEF WriteManifest, At
  <2>2. [dirs[m] EXCEPT !.manifest = TRUE] \in Dirs
    BY <2>1 DEF Dirs
  <2>3. [dirs EXCEPT ![m].manifest = TRUE] \in [Models -> Dirs]
    BY <1>1, <2>1, <2>2
  <2>4. QED
    BY <1>1, <1>5, <1>19, <2>3 DEF WriteManifest, Finish
<1>20. QED
  BY <1>7, <1>8, <1>9, <1>10, <1>11, <1>12, <1>13, <1>14, <1>15, <1>16, <1>17, <1>18, <1>19
     DEF InstallStep

Exchanges(i, before, after) == \E x : after = [before EXCEPT ![i] = x]

\* What a step of an installer touches.
LEMMA InstallerTouches ==
  ASSUME StoreTypeOK, NEW i \in Installers, InstallStep(i)
  PROVE  /\ inst[i] # Resting /\ inst[i].model \in Models
         /\ \A k \in Models : k # inst[i].model => dirs'[k] = dirs[k]
         /\ inst'[i] # Resting => inst'[i].model = inst[i].model
         /\ \A j \in Installers \ {i} :
              /\ inst'[j] = inst[j] \/ (inst[j] # Resting /\ inst[j].model = inst[i].model)
              /\ inst'[j] = Resting <=> inst[j] = Resting
              /\ inst[j] # Resting => inst'[j].model = inst[j].model
<1> DEFINE s == inst[i]
           m == inst[i].model
<1>1. dirs \in [Models -> Dirs] /\ inst \in [Installers -> InstStates]
  BY DEF StoreTypeOK, InstStates
<1>2. s \in InstStates
  BY <1>1
<1>3. s # Resting
  BY <1>1, <1>2, StatesDiffer
     DEF InstallStep, CreateDir, SkipDownload, AskServer, StatPart, OpenPart, Fetch, StopFetch,
         HashPart, DiscardPart, RenamePart, NotFound, Probe, Unload, UnloadFails, WriteManifest,
         KillInstaller, At, Unfinished, Complete, Working
<1>4. m \in Models
  BY <1>2, <1>3, StatesDiffer
<1>5. \/ Exchanges(i, inst, inst')
      \/ \E name \in Renames : Exchanges(i, Moved(m, name), inst')
  <2>1. CASE CreateDir(i) \/ SkipDownload(i) \/ AskServer(i) \/ OpenPart(i) \/ Fetch(i)
             \/ StopFetch(i) \/ HashPart(i) \/ NotFound(i) \/ Probe(i) \/ WriteManifest(i)
             \/ UnloadFails(i) \/ KillInstaller(i)
    BY <2>1 DEF Exchanges, CreateDir, SkipDownload, AskServer, OpenPart, Fetch, StopFetch,
         HashPart, NotFound, Probe, UnloadFails, WriteManifest, KillInstaller, Proceed, Finish
  <2>2. CASE StatPart(i) \/ DiscardPart(i)
    BY <2>2 DEF Exchanges, StatPart, DiscardPart, Renames
  <2>3. CASE RenamePart(i)
    BY <2>3 DEF Exchanges, RenamePart, Renames
  <2>4. CASE Unload(i)
    <3>1. CASE UnlinkFile(m)
      <4>1. PICK name \in Renames : inst' = Moved(m, name)
        BY <1>4, <3>1, UnlinkIs
      <4>2. inst' \in [Installers -> InstStates]
        BY <1>4, <3>1, UnlinkIs
      <4>3. inst' = [inst' EXCEPT ![i] = inst'[i]]
        BY <4>2
      <4>4. QED
        BY <4>1, <4>3 DEF Exchanges
    <3>2. CASE Finish(i)
      BY <3>2 DEF Exchanges, Finish
    <3>3. QED
      BY <2>4, <3>1, <3>2 DEF Unload
  <2>5. QED
    BY <2>1, <2>2, <2>3, <2>4 DEF InstallStep
<1>6. \A k \in Models : k # m => dirs'[k] = dirs[k]
  <2>1. Unload(i) => \A k \in Models : k # m => dirs'[k] = dirs[k]
    BY <1>4, UnlinkIs, RemoveDirIs DEF Unload
  <2>2. QED
    BY <1>1, <1>4, <2>1
       DEF InstallStep, CreateDir, SkipDownload, AskServer, StatPart, OpenPart, Fetch, StopFetch,
           HashPart, DiscardPart, RenamePart, NotFound, Probe, UnloadFails, WriteManifest,
           KillInstaller
<1>7. inst'[i] # Resting => inst'[i].model = m
  <2>1. CASE CreateDir(i) \/ SkipDownload(i) \/ Probe(i)
    <3>1. s \in Plain
      BY <1>2, <2>1, StatesDiffer DEF CreateDir, SkipDownload, Probe, At
    <3>2. ASSUME NEW at PROVE [s EXCEPT !.pc = at].model = m
      BY <3>1 DEF Plain
    <3>3. ASSUME NEW at, Proceed(i, at) PROVE inst'[i].model = m
      <4>1. inst'[i] = [s EXCEPT !.pc = at]
        BY <1>1, <3>3 DEF Proceed
      <4>2. QED
        BY <3>2, <4>1
    <3>4. Finish(i) => inst'[i] = Resting
      BY <1>1 DEF Finish
    <3>5. QED
      BY <2>1, <3>3, <3>4 DEF CreateDir, SkipDownload, Probe
  <2>2. CASE AskServer(i) \/ OpenPart(i) \/ HashPart(i)
    BY <1>1, <2>2 DEF AskServer, OpenPart, HashPart
  <2>3. CASE Fetch(i)
    <3>1. s \in Fetching
      BY <1>2, <2>3, StatesDiffer DEF Fetch, Unfinished, At
    <3>2. [s EXCEPT !.offset = s.offset + 1].model = m
      BY <3>1 DEF Fetching
    <3>3. QED
      BY <1>1, <2>3, <3>2 DEF Fetch
  <2>4. CASE StopFetch(i) \/ NotFound(i) \/ UnloadFails(i) \/ KillInstaller(i) \/ WriteManifest(i)
    BY <1>1, <2>4 DEF StopFetch, NotFound, UnloadFails, KillInstaller, WriteManifest, Finish
  <2>5. CASE StatPart(i) \/ DiscardPart(i)
    <3>1. Moved(m, PartGone) \in [Installers -> InstStates]
      BY <1>4, FilesTyped, MovedIs DEF Renames
    <3>2. QED
      BY <1>1, <2>5, <3>1 DEF StatPart, DiscardPart
  <2>6. CASE RenamePart(i)
    <3> DEFINE mv == Moved(m, PartIsWeights)
    <3>1. mv \in [Installers -> InstStates] /\ mv[i].pc = inst[i].pc /\ mv[i].model = m
      BY <1>3, <1>4, MovedTouches DEF Renames
    <3> HIDE DEF mv
    <3>2. mv[i] \in Plain
      BY <2>6, <3>1, StatesDiffer DEF RenamePart, At
    <3>3. [mv[i] EXCEPT !.pc = "probe"].model = m
      BY <3>1, <3>2 DEF Plain
    <3>4. inst' = [mv EXCEPT ![i].pc = "probe"]
      BY <2>6 DEF RenamePart, mv
    <3>5. QED
      BY <3>1, <3>3, <3>4
  <2>7. CASE Unload(i)
    <3>1. UnlinkFile(m) => inst'[i].model = m
      <4>1. UnlinkFile(m) => \E name \in Renames : inst' = Moved(m, name)
        BY <1>4, UnlinkIs
      <4>2. QED
        BY <1>3, <1>4, <4>1, MovedTouches
    <3>2. Finish(i) => inst'[i] = Resting
      BY <1>1 DEF Finish
    <3>3. QED
      BY <2>7, <3>1, <3>2 DEF Unload
  <2>8. QED
    BY <2>1, <2>2, <2>3, <2>4, <2>5, <2>6, <2>7 DEF InstallStep
<1>8. ASSUME NEW j \in Installers \ {i}
      PROVE  /\ inst'[j] = inst[j] \/ (inst[j] # Resting /\ inst[j].model = m)
             /\ inst'[j] = Resting <=> inst[j] = Resting
             /\ inst[j] # Resting => inst'[j].model = inst[j].model
  <2>1. CASE Exchanges(i, inst, inst')
    BY <1>1, <2>1 DEF Exchanges
  <2>2. ASSUME NEW name \in Renames, Exchanges(i, Moved(m, name), inst')
        PROVE  inst'[j] = Moved(m, name)[j]
    <3>1. Moved(m, name) \in [Installers -> InstStates]
      BY <1>4, MovedTouches
    <3>2. QED
      BY <2>2, <3>1 DEF Exchanges
  <2>3. QED
    <3> HIDE DEF m
    <3> QED BY <1>4, <1>5, <2>1, <2>2, MovedTouches
<1>9. QED
  BY <1>3, <1>4, <1>6, <1>7, <1>8

\* For the model an installer works on alone.
LEMMA PhaseStep ==
  ASSUME StoreTypeOK, NEW i \in Installers, InstallStep(i),
         Phase(inst[i].model, dirs[inst[i].model], inst[i])
  PROVE  /\ Sound(inst[i].model, dirs'[inst[i].model])
         /\ inst'[i] # Resting => Phase(inst[i].model, dirs'[inst[i].model], inst'[i])
         /\ inst[i].model \in Installed => inst[i].model \in Installed'
<1> DEFINE s == inst[i]
           m == inst[i].model
           d == dirs[m]
<1>1. dirs \in [Models -> Dirs] /\ inst \in [Installers -> InstStates]
  BY DEF StoreTypeOK, InstStates
<1>2. s \in InstStates /\ s # Resting /\ m \in Models /\ d \in Dirs
  BY <1>1, InstallerTouches
<1>3. ~ d.manifest /\ m \notin Installed
  BY DEF Phase, Installed
<1>4. s.pc # "idle"
  BY <1>2, StatesDiffer
<1>5. SUFFICES /\ Sound(m, dirs'[m])
               /\ inst'[i] # Resting => Phase(m, dirs'[m], inst'[i])
  BY <1>3
<1>6. \A at : s \in Plain => /\ [inst EXCEPT ![i].pc = at][i].pc = at
                            /\ [inst EXCEPT ![i].pc = at][i] = [s EXCEPT !.pc = at]
  BY <1>1 DEF Plain
<1>7. CASE CreateDir(i)
  <2>1. s \in Plain
    BY <1>2, <1>7, StatesDiffer DEF CreateDir, At
  <2>2. inst'[i].pc = "head" /\ dirs'[m] = [d EXCEPT !.exists = TRUE]
    BY <1>1, <1>2, <1>3, <1>6, <1>7, <2>1 DEF CreateDir, Proceed, Dir
  <2>3. dirs'[m].manifest = d.manifest /\ dirs'[m].weights = d.weights
    BY <1>2, <2>2 DEF Dirs
  <2>4. QED
    BY <1>3, <2>2, <2>3 DEF Phase, Sound
<1>8. CASE SkipDownload(i)
  <2>1. dirs' = dirs /\ m \in SelfFetched
    BY <1>8 DEF SkipDownload
  <2>2. QED
    BY <1>3, <2>1 DEF Phase, Sound
<1>9. CASE AskServer(i)
  <2>1. dirs' = dirs /\ inst'[i].pc = "stat"
    BY <1>1, <1>9 DEF AskServer
  <2>2. QED
    BY <1>3, <2>1 DEF Phase, Sound
<1>10. CASE StatPart(i)
  <2>1. inst'[i].pc = "open"
    <3>1. Moved(m, PartGone) \in [Installers -> InstStates]
      BY <1>2, FilesTyped, MovedIs DEF Renames
    <3>2. QED
      BY <1>1, <1>10, <3>1 DEF StatPart
  <2>2. dirs'[m].manifest = d.manifest /\ dirs'[m].weights = d.weights
    BY <1>1, <1>2, <1>10 DEF StatPart, Dirs
  <2>3. QED
    BY <1>3, <2>1, <2>2 DEF Phase, Sound
<1>11. CASE OpenPart(i)
  <2>1. inst'[i].pc = "fetch" /\ inst'[i].open = "part"
    BY <1>1, <1>11 DEF OpenPart
  <2>2. dirs'[m].manifest = d.manifest /\ dirs'[m].weights = d.weights
    BY <1>1, <1>2, <1>11 DEF OpenPart, Dirs
  <2>3. QED
    BY <1>3, <2>1, <2>2 DEF Phase, Sound
<1>12. CASE Fetch(i)
  <2>1. s \in Fetching
    BY <1>2, <1>12, StatesDiffer DEF Fetch, Unfinished, At
  <2>2. inst'[i] = [s EXCEPT !.offset = s.offset + 1]
    BY <1>1, <1>12 DEF Fetch
  <2>3. inst'[i].pc = "fetch" /\ inst'[i].open = s.open
    BY <2>1, <2>2 DEF Fetching
  <2>4. dirs'[m].manifest = d.manifest
    <3> DEFINE part(chunk) == WriteAt(d.part.content, s.offset + 1, chunk)
               weights(chunk) == WriteAt(d.weights.content, s.offset + 1, chunk)
    <3>1. \E chunk : \/ dirs' = [dirs EXCEPT ![m].part.content = part(chunk)]
                     \/ dirs' = [dirs EXCEPT ![m].weights.content = weights(chunk)]
                     \/ dirs' = dirs
      BY <1>12, <2>1 DEF Fetch, Fetching
    <3> HIDE DEF part, weights
    <3>2. QED
      BY <1>1, <1>2, <3>1 DEF Dirs
  <2>5. QED
    BY <1>3, <2>1, <2>3, <2>4 DEF Phase, Sound, Fetching
<1>13. CASE StopFetch(i) \/ NotFound(i) \/ UnloadFails(i) \/ KillInstaller(i)
  <2>1. dirs' = dirs /\ inst'[i] = Resting
    BY <1>1, <1>13 DEF StopFetch, NotFound, UnloadFails, KillInstaller, Finish
  <2>2. QED
    BY <1>3, <2>1 DEF Sound
<1>14. CASE HashPart(i)
  <2>1. /\ dirs' = dirs
        /\ \/ inst'[i].pc = "rename" /\ Verified(d.part)
           \/ inst'[i].pc = "discard"
    BY <1>1, <1>14 DEF HashPart, Dir
  <2>2. QED
    BY <1>3, <2>1 DEF Phase, Sound, Verified
<1>15. CASE DiscardPart(i)
  <2>1. dirs'[m].manifest = d.manifest /\ dirs'[m].weights = d.weights
    BY <1>1, <1>2, <1>15 DEF DiscardPart, Dirs
  <2>2. inst'[i] = Resting
    <3>1. Moved(m, PartGone) \in [Installers -> InstStates]
      BY <1>2, FilesTyped, MovedIs DEF Renames
    <3>2. QED
      BY <1>15, <3>1 DEF DiscardPart
  <2>3. QED
    BY <1>3, <2>1, <2>2 DEF Sound
<1>16. CASE RenamePart(i)
  <2>1. dirs'[m].manifest = d.manifest /\ dirs'[m].weights = d.part
    BY <1>1, <1>2, <1>16 DEF RenamePart, Dirs, Dir
  <2>2. inst'[i].pc = "probe"
    <3> DEFINE mv == Moved(m, PartIsWeights)
    <3>1. mv \in [Installers -> InstStates] /\ mv[i].pc = inst[i].pc
      BY <1>2, MovedTouches DEF Renames
    <3> HIDE DEF mv
    <3>2. mv[i] \in Plain
      BY <1>16, <3>1, StatesDiffer DEF RenamePart, At
    <3>3. inst' = [mv EXCEPT ![i].pc = "probe"]
      BY <1>16 DEF RenamePart, mv
    <3>4. QED
      BY <3>1, <3>2, <3>3 DEF Plain
  <2>3. m \notin SelfFetched => Whole(d.part)
    BY <1>16 DEF RenamePart, At, Phase
  <2>4. QED
    BY <1>3, <2>1, <2>2, <2>3 DEF Phase, Sound
<1>17. CASE Probe(i)
  <2>1. s \in Plain /\ s.pc = "probe"
    BY <1>2, <1>17, StatesDiffer DEF Probe, At
  <2>2. dirs' = dirs /\ (inst'[i] = Resting \/ inst'[i].pc \in {"manifest", "unload"})
    BY <1>1, <1>6, <1>17, <2>1 DEF Probe, Proceed, Finish
  <2>3. QED
    BY <1>3, <2>1, <2>2 DEF Phase, Sound
<1>18. CASE Unload(i)
  <2>1. CASE UnlinkFile(m)
    <3>1. ~ dirs'[m].manifest /\ \E name \in Renames : inst' = Moved(m, name)
      BY <1>2, <1>3, <2>1, UnlinkIs
    <3>2. inst'[i].pc = "unload"
      BY <1>2, <1>18, <3>1, MovedTouches DEF Unload, At
    <3>3. QED
      BY <3>1, <3>2 DEF Sound, Phase
  <2>2. CASE RemoveDir(m) /\ Finish(i)
    <3>1. dirs'[m] = NoDir /\ inst'[i] = Resting
      BY <1>1, <1>2, <2>2, RemoveDirIs DEF Finish
    <3>2. QED
      BY <3>1 DEF Sound, NoDir
  <2>3. QED
    BY <1>18, <2>1, <2>2 DEF Unload
<1>19. CASE WriteManifest(i)
  <2>1. dirs'[m].weights = d.weights /\ inst'[i] = Resting
    BY <1>1, <1>2, <1>19 DEF WriteManifest, Dirs, Finish
  <2>2. m \notin SelfFetched => Whole(d.weights)
    BY <1>19 DEF WriteManifest, At, Phase
  <2>3. QED
    BY <2>1, <2>2 DEF Sound
<1>20. QED
  BY <1>7, <1>8, <1>9, <1>10, <1>11, <1>12, <1>13, <1>14, <1>15, <1>16, <1>17, <1>18, <1>19
     DEF InstallStep

\* A removal that broke off stays in the books as long as the manifest does.
LEMMA SoundKept ==
  ASSUME History, NEW m \in Models, SoundOrCut(m), dirs'[m] = dirs[m],
         Erasing(m) => Erasing(m)' \/ m \in cut' \/ ~ dirs[m].manifest
  PROVE  SoundOrCut(m)'
<1>1. m \in cut => m \in cut' \/ ~ dirs[m].manifest
  BY DEF History
<1>2. ~ dirs[m].manifest => Sound(m, dirs'[m])
  BY DEF Sound
<1>3. QED
  BY <1>1, <1>2 DEF SoundOrCut

\* A step on the files of a model only one works on keeps what that one relies
\* on: above all, what is renamed to be the weights was verified.
LEMMA FilesStep ==
  ASSUME StoreTypeOK, FilesInv, Alone, History, NEW i \in Installers, Install(i),
         contested \subseteq contested'
  PROVE  /\ FilesInv'
         /\ \A m \in Models \ contested : m \in Installed => m \in Installed'
<1>1. dirs \in [Models -> Dirs] /\ inst \in [Installers -> InstStates]
  BY DEF StoreTypeOK, InstStates
<1>0. th' = th /\ \A m \in Models : Erasing(m) => Erasing(m)'
  BY DEF Install, Erasing, Removing, InFlight
<1>2. CASE \E m \in Models : BeginInstall(i, m)
  <2>1. PICK m \in Models : BeginInstall(i, m)
    BY <1>2
  <2>2. dirs' = dirs /\ m \notin Installed /\ inst' = [inst EXCEPT ![i] = [pc |-> "create", model |-> m]]
    BY <2>1 DEF BeginInstall
  <2>3. ASSUME NEW k \in Models \ contested', NEW j \in Installing(k)'
        PROVE  Phase(k, dirs[k], inst'[j])
    <3>1. CASE j = i
      <4>1. inst'[j] = [pc |-> "create", model |-> m] /\ k = m /\ ~ dirs[m].manifest
        BY <1>1, <2>2, <2>3, <3>1 DEF Installing, Working, Installed
      <4>2. QED
        BY <4>1 DEF Phase
    <3>2. CASE j # i
      <4>1. inst'[j] = inst[j] /\ j \in Installing(k)
        BY <1>1, <2>2, <2>3, <3>2 DEF Installing, Working
      <4>2. QED
        BY <4>1 DEF FilesInv
    <3>3. QED
      BY <3>1, <3>2
  <2>4. \A k \in Models \ contested : SoundOrCut(k)'
    BY <1>0, <2>2, SoundKept DEF FilesInv
  <2>5. QED
    BY <2>2, <2>3, <2>4 DEF FilesInv, Installed
<1>3. CASE InstallStep(i)
  <2>0. PICK m \in Models : m = inst[i].model
    BY <1>3, InstallerTouches
  <2>1. /\ inst[i] # Resting /\ m \in Models
        /\ \A k \in Models : k # m => dirs'[k] = dirs[k]
        /\ inst'[i] # Resting => inst'[i].model = m
        /\ \A j \in Installers \ {i} :
              /\ inst'[j] = inst[j] \/ (inst[j] # Resting /\ inst[j].model = m)
              /\ inst'[j] = Resting <=> inst[j] = Resting
              /\ inst[j] # Resting => inst'[j].model = inst[j].model
    BY <1>3, <2>0, InstallerTouches
  <2>2. i \in Installing(m)
    BY <2>0, <2>1 DEF Installing, Working
  <2>3. m \notin contested =>
          /\ Sound(m, dirs'[m]) /\ (inst'[i] # Resting => Phase(m, dirs'[m], inst'[i]))
          /\ m \in Installed => m \in Installed'
    BY <1>3, <2>0, <2>1, <2>2, PhaseStep DEF FilesInv
  <2>4. ASSUME NEW k \in Models \ contested, k # m
        PROVE  /\ SoundOrCut(k)' /\ \A j \in Installing(k)' : Phase(k, dirs'[k], inst'[j])
               /\ k \in Installed => k \in Installed'
    <3>1. dirs'[k] = dirs[k]
      BY <2>1, <2>4
    <3>2. ASSUME NEW j \in Installing(k)' PROVE j \in Installing(k) /\ inst'[j] = inst[j]
      BY <2>1, <2>4, <3>2 DEF Installing, Working
    <3>3. SoundOrCut(k)'
      BY <1>0, <2>4, <3>1, SoundKept DEF FilesInv
    <3>4. QED
      BY <2>4, <3>1, <3>2, <3>3 DEF FilesInv, Installed
  <2>5. ASSUME m \notin contested, NEW j \in Installing(m)'
        PROVE  Phase(m, dirs'[m], inst'[j])
    <3>1. j # i => j \in Installing(m)
      BY <2>1, <2>5 DEF Installing, Working
    <3>2. j = i
      BY <2>1, <2>2, <2>5, <3>1 DEF Alone
    <3>3. inst'[i] # Resting
      BY <2>5, <3>2 DEF Installing, Working
    <3>4. QED
      BY <2>3, <2>5, <3>2, <3>3
  <2>6. m \notin contested => SoundOrCut(m)'
    BY <2>3 DEF SoundOrCut
  <2>7. QED
    BY <2>1, <2>3, <2>4, <2>5, <2>6 DEF FilesInv
<1>4. QED
  BY <1>2, <1>3 DEF Install

\* The states of a thread are told apart by pc.
LEMMA ThreadIs ==
  ASSUME NEW s \in ThreadStates
  PROVE  /\ s = Idle <=> s.pc = "idle"
         /\ s # Idle => s.id \in Models \union {Endpoint}
         /\ s.pc \in {"bind", "admit", "evict", "takedown"} <=> s \in Boots
         /\ s.pc \in {"external", "point", "rewire"} <=> s \in Externals
         /\ s.pc = "swap" <=> s \in Swaps
         /\ s.pc = "stop" <=> s \in Stops
         /\ s.pc \in {"unserve", "delete", "erase"} => s \in Removals
         /\ s.pc = "forget" => s \in Forgets
         /\ s.pc = "clear" => s \in Removals \union Forgets
         /\ s.pc \in {"forget", "clear"} /\ s.id \notin Models => s \in Forgets
<1>1. CASE s = Idle
  BY <1>1 DEF Idle, Boots, Externals, Swaps, Removals, Stops, Forgets
<1>2. CASE s \in Boots
  BY <1>2 DEF Idle, Boots, Externals, Swaps, Removals, Stops, Forgets
<1>3. CASE s \in Externals
  BY <1>3 DEF Idle, Boots, Externals, Swaps, Removals, Stops, Forgets
<1>4. CASE s \in Swaps
  BY <1>4 DEF Idle, Boots, Externals, Swaps, Removals, Stops, Forgets
<1>5. CASE s \in Removals
  BY <1>5 DEF Idle, Boots, Externals, Swaps, Removals, Stops, Forgets
<1>6. CASE s \in Stops
  BY <1>6 DEF Idle, Boots, Externals, Swaps, Removals, Stops, Forgets
<1>7. CASE s \in Forgets
  BY <1>7 DEF Idle, Boots, Externals, Swaps, Removals, Stops, Forgets
<1>8. QED
  BY <1>1, <1>2, <1>3, <1>4, <1>5, <1>6, <1>7 DEF ThreadStates

LEMMA WorksIs ==
  ASSUME NEW s \in ThreadStates
  PROVE  /\ s = Idle => Works(s) = {}
         /\ s \in Boots \union Externals \union Stops => Works(s) = {s.role} \union s.roles
         /\ s \in Swaps => Works(s) = {s.role}
         /\ s \in Removals => Works(s) = s.roles
         /\ s \in Forgets => Works(s) = {}
         /\ Works(s) \subseteq Roles
         /\ Heads(s) = IF s = Idle THEN {} ELSE {s.id}
<1>1. CASE s = Idle
  BY <1>1 DEF Idle, Boots, Externals, Swaps, Removals, Stops, Forgets, Works, Heads
<1>2. CASE s \in Boots
  BY <1>2 DEF Idle, Boots, Externals, Swaps, Removals, Stops, Forgets, Works, Heads
<1>3. CASE s \in Externals
  BY <1>3 DEF Idle, Boots, Externals, Swaps, Removals, Stops, Forgets, Works, Heads
<1>4. CASE s \in Swaps
  BY <1>4 DEF Idle, Boots, Externals, Swaps, Removals, Stops, Forgets, Works, Heads
<1>5. CASE s \in Removals
  BY <1>5 DEF Idle, Boots, Externals, Swaps, Removals, Stops, Forgets, Works, Heads
<1>6. CASE s \in Stops
  BY <1>6 DEF Idle, Boots, Externals, Swaps, Removals, Stops, Forgets, Works, Heads
<1>7. CASE s \in Forgets
  BY <1>7 DEF Idle, Boots, Externals, Swaps, Removals, Stops, Forgets, Works, Heads
<1>8. QED
  BY <1>1, <1>2, <1>3, <1>4, <1>5, <1>6, <1>7 DEF ThreadStates
TypeOK == StoreTypeOK /\ ServingTypeOK

\* One thread moves, to state s.
Moves(t, s) == th' = [th EXCEPT ![t] = s]

Fits(t, s) ==
  /\ s \in ThreadStates /\ (t \in Roles => s \in {Idle} \union Boots \union Swaps)
  /\ s.pc = "takedown" => s.victims # <<>>

LEMMA MovesType ==
  ASSUME ServingTypeOK, NEW t \in Threads, NEW s, Moves(t, s), Fits(t, s)
  PROVE  /\ th' \in [Threads -> ThreadStates]
         /\ \A r \in Roles : th'[r] \in {Idle} \union Boots \union Swaps
         /\ \A u \in Threads : th'[u].pc = "takedown" => th'[u].victims # <<>>
         /\ th'[t] = s /\ \A u \in Threads \ {t} : th'[u] = th[u]
  BY DEF ServingTypeOK, Moves, Fits, Threads

LEMMA BindSingleType ==
  ASSUME ServingTypeOK, NEW r \in Roles, NEW id \in Ids,
         NEW rt \in {Unavailable, External} \union Servers, BindSingle(r, id, rt),
         id = Endpoint <=> rt = External, id = NoModel => rt = Unavailable
  PROVE  /\ route' \in [Roles -> Ids]
         /\ runtimes' \in [Ids -> {Unavailable, External} \union Servers]
         /\ runtimes'[Endpoint] = External /\ runtimes'[NoModel] = Unavailable
         /\ \A m \in Models : runtimes'[m] # External
<1>1. /\ route \in [Roles -> Ids]
      /\ runtimes \in [Ids -> {Unavailable, External} \union Servers]
      /\ runtimes[Endpoint] = External /\ runtimes[NoModel] = Unavailable
      /\ \A m \in Models : runtimes[m] # External
  BY DEF ServingTypeOK
<1>2. Endpoint \in Ids /\ NoModel \in Ids /\ Models \subseteq Ids /\ Endpoint \notin Models
      /\ NoModel # Endpoint /\ NoModel \notin Models
  BY ServingAssumption DEF Ids
<1>3. route' = [route EXCEPT ![r] = id] /\ runtimes' = [runtimes EXCEPT ![id] = rt]
  BY DEF BindSingle
<1>4. QED
  BY <1>1, <1>2, <1>3

LEMMA TakeDownType ==
  ASSUME ServingTypeOK, NEW r \in Roles, TakeDown(r)
  PROVE  live' \in [Roles -> {NoServer} \union Servers] /\ stopped' \in SUBSET Servers
  BY DEF ServingTypeOK, TakeDown

LEMMA KindsDiffer ==
  /\ Unavailable # External
  /\ \A s \in Servers : /\ s # Unavailable /\ s # External /\ IsServer(s)
                        /\ s.id \in Models /\ s.n \in Nat
  /\ ~ IsServer(Unavailable) /\ ~ IsServer(External)
  /\ \A m \in Models, n \in Nat : Server(m, n) \in Servers /\ Server(m, n).id = m
                                  /\ Server(m, n).n = n
  BY DEF Unavailable, External, Servers, IsServer, Server

Boot(b, at, victims, roles) ==
  [pc |-> at, role |-> b.role, id |-> b.id, victims |-> victims, roles |-> roles]

\* What the steps of a boot do to its thread.
LEMMA BootIs ==
  ASSUME NEW b \in Boots
  PROVE  b = Boot(b, b.pc, b.victims, b.roles)
  BY DEF Boots, Boot

Advanced(b, at, v) == [b EXCEPT !.pc = at, !.victims = v]
Altered(b, at, v, r) == [b EXCEPT !.roles = r, !.pc = at, !.victims = v]

LEMMA BootChanged ==
  ASSUME NEW b \in Boots, NEW at \in {"bind", "admit", "evict", "takedown"},
         NEW v \in Seq(Models), NEW r \in SUBSET Roles
  PROVE  /\ Altered(b, at, v, r) = Boot(b, at, v, r)
         /\ Advanced(b, at, v) = Boot(b, at, v, b.roles)
<1> DEFINE x == [b EXCEPT !.roles = r, !.pc = at, !.victims = v]
           y == [b EXCEPT !.pc = at, !.victims = v]
<1>1. /\ x \in Boots /\ x.pc = at /\ x.victims = v /\ x.roles = r
      /\ x.role = b.role /\ x.id = b.id
  BY DEF Boots
<1>2. /\ y \in Boots /\ y.pc = at /\ y.victims = v /\ y.roles = b.roles
      /\ y.role = b.role /\ y.id = b.id
  BY DEF Boots
<1> HIDE DEF x, y
<1>3. x = Boot(x, x.pc, x.victims, x.roles) /\ y = Boot(y, y.pc, y.victims, y.roles)
  BY <1>1, <1>2, BootIs
<1>4. x = Boot(b, at, v, r) /\ y = Boot(b, at, v, b.roles)
  BY <1>1, <1>2, <1>3 DEF Boot
<1>5. QED
  BY <1>4 DEF x, y, Altered, Advanced

LEMMA BootTyped ==
  ASSUME NEW b \in Boots, NEW at \in {"bind", "admit", "evict", "takedown"},
         NEW victims \in Seq(Models), NEW roles \in SUBSET Roles
  PROVE  Boot(b, at, victims, roles) \in Boots
  BY DEF Boot, Boots

LEMMA DoneIs ==
  ASSUME NEW t \in Threads, Done(t)
  PROVE  Moves(t, Idle) /\ Fits(t, Idle)
  BY DEF Done, Moves, Fits, ThreadStates, Idle

LEMMA BootFits ==
  ASSUME NEW t, NEW s \in Boots \union Swaps, s.pc = "takedown" => s.victims # <<>>
  PROVE  Fits(t, s) /\ s # Idle
  BY DEF Fits, ThreadStates, Boots, Swaps, Idle

LEMMA ThreadTyped ==
  ASSUME ServingTypeOK, NEW t \in Threads
  PROVE  /\ th[t] \in ThreadStates
         /\ t \in Roles => th[t] \in {Idle} \union Boots \union Swaps
         /\ th[t].pc \in {"bind", "admit", "evict", "takedown"} =>
              th[t] \in Boots /\ th[t].role \in Roles /\ th[t].id \in Models
              /\ th[t].victims \in Seq(Models) /\ th[t].roles \in SUBSET Roles
         /\ th[t].pc \in {"external", "point", "rewire"} =>
              th[t] \in Externals /\ t \notin Roles /\ th[t].role \in Roles /\ th[t].id = Endpoint
              /\ th[t].roles \in SUBSET Roles
         /\ th[t].pc = "swap" =>
              th[t] \in Swaps /\ th[t].role \in Roles /\ th[t].id \in Models /\ th[t].n \in Nat
<1>1. th[t] \in ThreadStates /\ (t \in Roles => th[t] \in {Idle} \union Boots \union Swaps)
  BY DEF ServingTypeOK
<1>2. /\ th[t].pc \in {"bind", "admit", "evict", "takedown"} => th[t] \in Boots
      /\ th[t].pc \in {"external", "point", "rewire"} => th[t] \in Externals
      /\ th[t].pc = "swap" => th[t] \in Swaps
  BY <1>1, ThreadIs
<1>3. th[t] \in Externals => t \notin Roles
  BY <1>1 DEF Externals, Boots, Swaps, Idle
<1>4. QED
  BY <1>1, <1>2, <1>3 DEF Boots, Externals, Swaps

\* Each step of a boot, as the change it makes.
LEMMA BindRowIs ==
  ASSUME ServingTypeOK, NEW t \in Threads, BindRow(t)
  PROVE  \/ /\ th[t].pc = "bind" /\ th[t] \in Boots
            /\ Moves(t, Boot(th[t], "admit", th[t].victims, th[t].roles))
         \/ /\ th[t].pc = "external" /\ th[t] \in Externals /\ t \notin Roles
            /\ Moves(t, Boot(th[t], "point", th[t].victims, th[t].roles))
            /\ Boot(th[t], "point", th[t].victims, th[t].roles) \in Externals
<1> DEFINE b == th[t]
<1>1. CASE b.pc = "bind"
  <2>1. b \in Boots
    BY <1>1, ThreadTyped
  <2>2. [b EXCEPT !.pc = "admit"] = Boot(b, "admit", b.victims, b.roles)
    BY <2>1 DEF Boots, Boot
  <2>3. th' = [th EXCEPT ![t] = [b EXCEPT !.pc = "admit"]]
    BY <1>1 DEF BindRow, Goto
  <2>4. QED
    BY <1>1, <2>1, <2>2, <2>3 DEF Moves
<1>2. CASE b.pc = "external"
  <2>1. b \in Externals /\ t \notin Roles
    BY <1>2, ThreadTyped
  <2>2. [b EXCEPT !.pc = "point"] = Boot(b, "point", b.victims, b.roles)
    BY <2>1 DEF Externals, Boot
  <2>3. th' = [th EXCEPT ![t] = [b EXCEPT !.pc = "point"]]
    BY <1>2 DEF BindRow, Goto
  <2>4. Boot(b, "point", b.victims, b.roles) \in Externals
    BY <2>1 DEF Externals, Boot
  <2>5. QED
    BY <1>2, <2>1, <2>2, <2>3, <2>4 DEF Moves
<1>3. QED
  BY <1>1, <1>2 DEF BindRow

LEMMA AdmitToPoolIs ==
  ASSUME ServingTypeOK, NEW t \in Threads, AdmitToPool(t)
  PROVE  LET result == Admit(pool, th[t].id, th[t].role) IN
         /\ th[t] \in Boots /\ th[t].pc = "admit" /\ th[t].role \in Roles /\ th[t].id \in Models
         /\ th[t].id \in Installed /\ pool' = result.residents
         /\ result.fits =>
              /\ Moves(t, Boot(th[t], "evict", result.victims, th[t].roles))
              /\ UNCHANGED <<route, runtimes>>
         /\ ~ result.fits => Done(t) /\ BindSingle(th[t].role, th[t].id, Unavailable)
         /\ UNCHANGED <<disk, live, stopped, booted, ops>>
<1> DEFINE b == th[t]
           result == Admit(pool, th[t].id, th[t].role)
<1>1. b \in Boots /\ b.role \in Roles /\ b.id \in Models
  BY ThreadTyped DEF AdmitToPool
<1>2. ASSUME NEW v \in Seq(Models)
      PROVE  Advanced(b, "evict", v) = Boot(b, "evict", v, b.roles)
  BY <1>1, BootChanged
<1>6. result.victims \in Seq(Models)
  BY <1>1, AdmitIs DEF ServingTypeOK
<1>3. result.fits => th' = [th EXCEPT ![t].pc = "evict", ![t].victims = result.victims]
  BY DEF AdmitToPool
<1>4. result.fits => th' = [th EXCEPT ![t] = Advanced(b, "evict", result.victims)]
  <2> HIDE DEF result
  <2> QED BY <1>3 DEF ServingTypeOK, Advanced
<1>5. QED
  <2> HIDE DEF b
  <2> QED BY <1>1, <1>2, <1>4, <1>6 DEF AdmitToPool, Moves, b

LEMMA FindEvictedIs ==
  ASSUME ServingTypeOK, NEW t \in Threads, FindEvicted(t)
  PROVE  LET b == th[t] m == Head(th[t].victims) IN
         /\ b \in Boots /\ b.pc = "evict" /\ b.victims # <<>> /\ b.role \in Roles
         /\ m \in Models /\ m = b.victims[1] /\ Tail(b.victims) \in Seq(Models)
         /\ RolesFor(m) = {} => Moves(t, Boot(b, "evict", Tail(b.victims), {}))
         /\ RolesFor(m) # {} => Moves(t, Boot(b, "takedown", b.victims, RolesFor(m)))
<1> DEFINE b == th[t]
           m == Head(th[t].victims)
<1>1. b \in Boots /\ b.role \in Roles /\ b.victims \in Seq(Models) /\ b.victims # <<>>
      /\ b.pc = "evict"
  BY ThreadTyped DEF FindEvicted
<1>2. m \in Models /\ m = b.victims[1] /\ Tail(b.victims) \in Seq(Models)
  BY <1>1
<1>3. ASSUME NEW at \in {"evict", "takedown"}, NEW v \in Seq(Models), NEW r \in SUBSET Roles
      PROVE  Altered(b, at, v, r) = Boot(b, at, v, r)
  <2>1. at \in {"bind", "admit", "evict", "takedown"} /\ b \in Boots
    BY <1>1
  <2> HIDE DEF b
  <2>2. QED
    BY <2>1, BootChanged, Zenon
<1>4. th' = [th EXCEPT ![t] = Altered(b, IF RolesFor(m) = {} THEN "evict" ELSE "takedown",
               IF RolesFor(m) = {} THEN Tail(b.victims) ELSE b.victims, RolesFor(m))]
  BY DEF FindEvicted, ServingTypeOK, Altered
<1>5. RolesFor(m) \in SUBSET Roles
  BY DEF RolesFor
<1>6. /\ RolesFor(m) = {} => Moves(t, Boot(b, "evict", Tail(b.victims), {}))
      /\ RolesFor(m) # {} => Moves(t, Boot(b, "takedown", b.victims, RolesFor(m)))
  <2> HIDE DEF b, m
  <2>1. CASE RolesFor(m) = {}
    <3>1. th' = [th EXCEPT ![t] = Altered(b, "evict", Tail(b.victims), {})]
      BY <1>4, <2>1
    <3>2. QED
      BY <1>2, <1>3, <1>5, <2>1, <3>1, Zenon DEF Moves
  <2>2. CASE RolesFor(m) # {}
    <3>1. th' = [th EXCEPT ![t] = Altered(b, "takedown", b.victims, RolesFor(m))]
      BY <1>4, <2>2
    <3>2. QED
      BY <1>1, <1>3, <1>5, <2>2, <3>1, Zenon DEF Moves
  <2>3. QED
    BY <2>1, <2>2
<1>7. QED
  BY <1>1, <1>2, <1>6

LEMMA TakeEvictedIs ==
  ASSUME ServingTypeOK, NEW t \in Threads, TakeEvicted(t)
  PROVE  LET b == th[t] m == Head(th[t].victims) IN
         /\ b \in Boots /\ b.pc = "takedown" /\ b.role \in Roles
         /\ m \in Models /\ m = b.victims[1] /\ Tail(b.victims) \in Seq(Models)
         /\ \E r \in b.roles :
              /\ r \in Roles /\ TakeDown(r)
              /\ IF live[r] # NoServer THEN BindSingle(r, m, Unavailable)
                                       ELSE UNCHANGED <<route, runtimes>>
              /\ b.roles = {r} => Moves(t, Boot(b, "evict", Tail(b.victims), {}))
              /\ b.roles # {r} => Moves(t, Boot(b, "takedown", b.victims, b.roles \ {r}))
<1> DEFINE b == th[t]
           m == Head(th[t].victims)
<1>1. b \in Boots /\ b.role \in Roles /\ b.victims \in Seq(Models) /\ b.roles \in SUBSET Roles
      /\ b.pc = "takedown" /\ b.victims # <<>>
  BY ThreadTyped DEF TakeEvicted, ServingTypeOK
<1>2. m \in Models /\ m = b.victims[1] /\ Tail(b.victims) \in Seq(Models)
  BY <1>1
<1>3. ASSUME NEW at \in {"evict", "takedown"}, NEW v \in Seq(Models), NEW r \in SUBSET Roles
      PROVE  Altered(b, at, v, r) = Boot(b, at, v, r)
  <2>1. at \in {"bind", "admit", "evict", "takedown"} /\ b \in Boots
    BY <1>1
  <2> HIDE DEF b
  <2>2. QED
    BY <2>1, BootChanged, Zenon
<1>4. PICK r \in b.roles :
        /\ TakeDown(r)
        /\ IF live[r] # NoServer THEN BindSingle(r, m, Unavailable)
                                 ELSE UNCHANGED <<route, runtimes>>
        /\ th' = [th EXCEPT ![t].roles = @ \ {r},
                            ![t].pc = IF b.roles = {r} THEN "evict" ELSE @,
                            ![t].victims = IF b.roles = {r} THEN Tail(@) ELSE @]
  BY DEF TakeEvicted
<1>5. th' = [th EXCEPT ![t] = Altered(b, IF b.roles = {r} THEN "evict" ELSE b.pc,
               IF b.roles = {r} THEN Tail(b.victims) ELSE b.victims, b.roles \ {r})]
  <2> DEFINE x == b.roles \ {r}
             y == IF b.roles = {r} THEN "evict" ELSE b.pc
             z == IF b.roles = {r} THEN Tail(b.victims) ELSE b.victims
  <2>1. th' = [th EXCEPT ![t].roles = x, ![t].pc = y, ![t].victims = z]
    BY <1>1, <1>4 DEF Boots, ServingTypeOK
  <2> HIDE DEF x, y, z
  <2>2. th' = [th EXCEPT ![t] = Altered(b, y, z, x)]
    BY <2>1 DEF ServingTypeOK, Altered
  <2>3. QED
    BY <2>2 DEF x, y, z
<1>6. /\ b.roles = {r} => Moves(t, Boot(b, "evict", Tail(b.victims), {}))
      /\ b.roles # {r} => Moves(t, Boot(b, "takedown", b.victims, b.roles \ {r}))
  <2>1. b.roles \ {r} \in SUBSET Roles
    BY <1>1
  <2> HIDE DEF b, m
  <2>2. CASE b.roles = {r}
    <3>1. b.roles \ {r} = {}
      BY <2>2
    <3>2. th' = [th EXCEPT ![t] = Altered(b, "evict", Tail(b.victims), {})]
      BY <1>5, <2>2, <3>1
    <3>3. QED
      BY <1>2, <1>3, <2>1, <2>2, <3>1, <3>2, Zenon DEF Moves
  <2>3. CASE b.roles # {r}
    <3>1. th' = [th EXCEPT ![t] = Altered(b, "takedown", b.victims, b.roles \ {r})]
      BY <1>1, <1>5, <2>3
    <3>2. QED
      BY <1>1, <1>3, <2>1, <2>3, <3>1, Zenon DEF Moves
  <2>4. QED
    BY <2>2, <2>3
<1>7. QED
  BY <1>1, <1>2, <1>4, <1>6

LEMMA BootSucceedsIs ==
  ASSUME ServingTypeOK, NEW t \in Threads, BootSucceeds(t)
  PROVE  LET b == th[t] s == [pc |-> "swap", role |-> th[t].role, id |-> th[t].id, n |-> booted + 1] IN
         /\ b \in Boots /\ b.pc = "evict" /\ b.victims = <<>> /\ b.role \in Roles /\ b.id \in Models
         /\ b.id \in Installed /\ b.roles = {}
         /\ s \in Swaps /\ Moves(t, s) /\ booted' = booted + 1
         /\ BindSingle(b.role, b.id, Server(b.id, booted + 1))
         /\ UNCHANGED <<disk, pool, live, stopped, ops>>
<1>1. th[t] \in Boots /\ th[t].role \in Roles /\ th[t].id \in Models /\ booted \in Nat
  BY ThreadTyped DEF BootSucceeds, ServingTypeOK
<1>2. booted' = booted + 1
  BY DEF BootSucceeds
<1>3. [pc |-> "swap", role |-> th[t].role, id |-> th[t].id, n |-> booted + 1] \in Swaps
  BY <1>1 DEF Swaps
<1>4. QED
  BY <1>1, <1>2, <1>3 DEF BootSucceeds, Moves

LEMMA StopForEndpointIs ==
  ASSUME ServingTypeOK, NEW t \in Threads, StopForEndpoint(t)
  PROVE  LET s == Boot(th[t], "rewire", th[t].victims, th[t].roles) IN
         /\ th[t] \in Externals /\ t \notin Roles /\ th[t].pc = "point" /\ th[t].role \in Roles
         /\ TakeDown(th[t].role) /\ Moves(t, s) /\ s \in Externals
         /\ s.pc = "rewire" /\ s.role = th[t].role
<1> DEFINE b == th[t]
<1>1. b \in Externals /\ t \notin Roles /\ b.role \in Roles /\ b.pc = "point"
  BY ThreadTyped DEF StopForEndpoint
<1>2. [b EXCEPT !.pc = "rewire"] = Boot(b, "rewire", b.victims, b.roles)
  BY <1>1 DEF Externals, Boot
<1>3. th' = [th EXCEPT ![t] = [b EXCEPT !.pc = "rewire"]] /\ TakeDown(b.role)
  BY DEF StopForEndpoint, Goto
<1>4. Boot(b, "rewire", b.victims, b.roles) \in Externals
  BY <1>1 DEF Externals, Boot
<1>5. /\ Boot(b, "rewire", b.victims, b.roles).pc = "rewire"
      /\ Boot(b, "rewire", b.victims, b.roles).role = b.role
  BY DEF Boot
<1>6. QED
  BY <1>1, <1>2, <1>3, <1>4, <1>5 DEF Moves

LEMMA OtherBootSteps ==
  ASSUME ServingTypeOK, NEW t \in Threads
  PROVE  /\ PointAtEndpoint(t) \/ EndpointFails(t) =>
              th[t] \in Externals /\ th[t].role \in Roles
         /\ NoManifest(t) \/ BootFails(t) =>
              th[t] \in Boots /\ th[t].role \in Roles /\ th[t].id \in Models
         /\ Swap(t) => th[t] \in Swaps /\ th[t].role \in Roles /\ th[t].id \in Models
                       /\ th[t].n \in Nat
  BY ThreadTyped DEF PointAtEndpoint, EndpointFails, NoManifest, BootFails, Swap

ThreadsTypeOK ==
  /\ th \in [Threads -> ThreadStates]
  /\ \A r \in Roles : th[r] \in {Idle} \union Boots \union Swaps
  /\ \A t \in Threads : th[t].pc = "takedown" => th[t].victims # <<>>

RouterTypeOK ==
  /\ route \in [Roles -> Ids]
  /\ runtimes \in [Ids -> {Unavailable, External} \union Servers]
  /\ runtimes[Endpoint] = External /\ runtimes[NoModel] = Unavailable
  /\ \A m \in Models : runtimes[m] # External

LiveTypeOK == live \in [Roles -> {NoServer} \union Servers] /\ stopped \in SUBSET Servers

\* The parts of the type invariant.
LEMMA TypeParts ==
  /\ ServingTypeOK <=>
       /\ ThreadsTypeOK /\ RouterTypeOK /\ LiveTypeOK
       /\ endpoint \in BOOLEAN /\ bound \in [Roles -> Ids] /\ pool \in Seq(Entries)
       /\ Used(pool) <= Budget /\ booted \in Nat /\ ops \in Nat
  /\ ServingTypeOK' <=>
       /\ ThreadsTypeOK' /\ RouterTypeOK' /\ LiveTypeOK'
       /\ endpoint' \in BOOLEAN /\ bound' \in [Roles -> Ids] /\ pool' \in Seq(Entries)
       /\ Used(pool') <= Budget /\ booted' \in Nat /\ ops' \in Nat
<1>1. ServingTypeOK <=>
       /\ ThreadsTypeOK /\ RouterTypeOK /\ LiveTypeOK
       /\ endpoint \in BOOLEAN /\ bound \in [Roles -> Ids] /\ pool \in Seq(Entries)
       /\ Used(pool) <= Budget /\ booted \in Nat /\ ops \in Nat
  BY DEF ServingTypeOK, ThreadsTypeOK, RouterTypeOK, LiveTypeOK
<1>2. Used(pool)' = Used(pool')
  OBVIOUS
<1>3. ServingTypeOK' <=>
       /\ ThreadsTypeOK' /\ RouterTypeOK' /\ LiveTypeOK'
       /\ endpoint' \in BOOLEAN /\ bound' \in [Roles -> Ids] /\ pool' \in Seq(Entries)
       /\ Used(pool') <= Budget /\ booted' \in Nat /\ ops' \in Nat
  BY <1>2 DEF ServingTypeOK, ThreadsTypeOK, RouterTypeOK, LiveTypeOK
<1>4. QED
  BY <1>1, <1>3

LEMMA ThreadsTypeStep ==
  ASSUME ServingTypeOK, NEW t \in Threads, NEW s, Moves(t, s), Fits(t, s)
  PROVE  ThreadsTypeOK'
  BY MovesType DEF ThreadsTypeOK

LEMMA RouterTypeStep ==
  ASSUME ServingTypeOK
  PROVE  /\ \A r \in Roles, m \in Models, rt \in {Unavailable} \union Servers :
              BindSingle(r, m, rt) => RouterTypeOK'
         /\ \A r \in Roles : BindSingle(r, Endpoint, External) => RouterTypeOK'
         /\ \A r \in Roles : BindSingle(r, NoModel, Unavailable) => RouterTypeOK'
         /\ UNCHANGED <<route, runtimes>> => RouterTypeOK'
<1>1. /\ Models \subseteq Ids /\ Endpoint \in Ids /\ NoModel \in Ids
      /\ Endpoint \notin Models /\ NoModel \notin Models /\ NoModel # Endpoint
      /\ Unavailable # External /\ \A s \in Servers : s # External
  BY ServingAssumption, KindsDiffer DEF Ids
<1>2. ASSUME NEW r \in Roles, NEW m \in Models, NEW rt \in {Unavailable} \union Servers,
             BindSingle(r, m, rt)
      PROVE  RouterTypeOK'
  BY <1>1, <1>2, BindSingleType DEF RouterTypeOK
<1>3. ASSUME NEW r \in Roles, BindSingle(r, Endpoint, External) PROVE RouterTypeOK'
  BY <1>1, <1>3, BindSingleType DEF RouterTypeOK
<1>4. ASSUME NEW r \in Roles, BindSingle(r, NoModel, Unavailable) PROVE RouterTypeOK'
  BY <1>1, <1>4, BindSingleType DEF RouterTypeOK
<1>5. UNCHANGED <<route, runtimes>> => RouterTypeOK'
  BY DEF RouterTypeOK, ServingTypeOK
<1>6. QED
  BY <1>2, <1>3, <1>4, <1>5

LEMMA LiveTypeStep ==
  ASSUME ServingTypeOK
  PROVE  /\ \A r \in Roles : TakeDown(r) => LiveTypeOK'
         /\ UNCHANGED <<live, stopped>> => LiveTypeOK'
<1>1. ASSUME NEW r \in Roles, TakeDown(r) PROVE LiveTypeOK'
  BY <1>1, TakeDownType DEF LiveTypeOK
<1>2. QED
  BY <1>1 DEF LiveTypeOK, ServingTypeOK

LEMMA BootTypeStep ==
  ASSUME ServingTypeOK, NEW t \in Threads, BootStep(t)
  PROVE  ServingTypeOK'
<1> DEFINE b == th[t]
<1>1. /\ ThreadsTypeOK /\ RouterTypeOK /\ LiveTypeOK
      /\ endpoint \in BOOLEAN /\ bound \in [Roles -> Ids] /\ pool \in Seq(Entries)
      /\ Used(pool) <= Budget /\ booted \in Nat /\ ops \in Nat
  BY TypeParts
<1>2. Done(t) => ThreadsTypeOK'
  BY DoneIs, ThreadsTypeStep
<1>3. \A s \in Boots \union Swaps :
        Moves(t, s) /\ (s.pc = "takedown" => s.victims # <<>>) => ThreadsTypeOK'
  BY BootFits, ThreadsTypeStep
<1>4. CASE BindRow(t)
  <2>1. ThreadsTypeOK'
    <3>1. CASE b.pc = "bind" /\ b \in Boots /\ Moves(t, Boot(b, "admit", b.victims, b.roles))
      <4>1. Boot(b, "admit", b.victims, b.roles) \in Boots
        BY <3>1, BootTyped DEF Boots
      <4>2. Boot(b, "admit", b.victims, b.roles).pc # "takedown"
        BY DEF Boot
      <4>3. QED
        BY <1>3, <3>1, <4>1, <4>2
    <3>2. CASE /\ t \notin Roles /\ Moves(t, Boot(b, "point", b.victims, b.roles))
               /\ Boot(b, "point", b.victims, b.roles) \in Externals
      <4>1. Fits(t, Boot(b, "point", b.victims, b.roles))
        BY <3>2 DEF Fits, ThreadStates, Boot
      <4>2. QED
        BY <3>2, <4>1, ThreadsTypeStep
    <3>3. QED
      BY <1>4, <3>1, <3>2, BindRowIs
  <2>2. bound' \in [Roles -> Ids]
    <3>1. b.id \in Ids
      BY <1>4, ThreadTyped DEF BindRow, Ids
    <3>2. QED
      BY <1>1, <1>4, <3>1 DEF BindRow
  <2>3. UNCHANGED <<endpoint, pool, live, route, runtimes, stopped, booted, ops>>
    BY <1>4 DEF BindRow, serving
  <2>4. QED
    BY <1>1, <2>1, <2>2, <2>3, TypeParts, RouterTypeStep, LiveTypeStep
<1>5. CASE PointAtEndpoint(t)
  <2>1. b.role \in Roles /\ ThreadsTypeOK'
    BY <1>2, <1>5, OtherBootSteps DEF PointAtEndpoint
  <2>2. RouterTypeOK' /\ LiveTypeOK'
    BY <1>5, <2>1, RouterTypeStep, LiveTypeStep DEF PointAtEndpoint
  <2>3. UNCHANGED <<endpoint, bound, pool, booted, ops>>
    BY <1>5 DEF PointAtEndpoint, disk
  <2>4. QED
    BY <1>1, <2>1, <2>2, <2>3, TypeParts
<1>13. CASE StopForEndpoint(t)
  <2> DEFINE s == Boot(b, "rewire", b.victims, b.roles)
  <2>1. /\ b.role \in Roles /\ TakeDown(b.role) /\ t \notin Roles /\ Moves(t, s)
        /\ s \in Externals /\ s.pc = "rewire"
    BY <1>13, StopForEndpointIs
  <2> HIDE DEF s
  <2>2. ThreadsTypeOK'
    <3>1. Fits(t, s)
      BY <2>1 DEF Fits, ThreadStates
    <3>2. QED
      BY <2>1, <3>1, ThreadsTypeStep
  <2>3. LiveTypeOK' /\ UNCHANGED <<endpoint, bound, pool, route, runtimes, booted, ops>>
    BY <1>13, <2>1, LiveTypeStep DEF StopForEndpoint, disk
  <2>4. QED
    BY <1>1, <2>2, <2>3, TypeParts, RouterTypeStep
<1>14. CASE EndpointFails(t)
  <2>1. ThreadsTypeOK'
    BY <1>2, <1>14 DEF EndpointFails
  <2>2. UNCHANGED <<endpoint, bound, pool, live, route, runtimes, stopped, booted, ops>>
    BY <1>14 DEF EndpointFails, disk, serving
  <2>3. QED
    BY <1>1, <2>1, <2>2, TypeParts, RouterTypeStep, LiveTypeStep
<1>6. CASE NoManifest(t) \/ BootFails(t)
  <2>1. b.role \in Roles /\ b.id \in Models /\ ThreadsTypeOK'
    BY <1>2, <1>6, OtherBootSteps DEF NoManifest, BootFails
  <2>2. RouterTypeOK' /\ LiveTypeOK'
    BY <1>6, <2>1, RouterTypeStep, LiveTypeStep DEF NoManifest, BootFails
  <2>3. UNCHANGED <<endpoint, bound, pool, booted, ops>>
    BY <1>6 DEF NoManifest, BootFails, disk
  <2>4. QED
    BY <1>1, <2>1, <2>2, <2>3, TypeParts
<1>7. CASE AdmitToPool(t)
  <2> DEFINE result == Admit(pool, b.id, b.role)
  <2>1. /\ b \in Boots /\ b.role \in Roles /\ b.id \in Models /\ b.roles \in SUBSET Roles
        /\ pool' = result.residents
        /\ result.fits => /\ Moves(t, Boot(b, "evict", result.victims, b.roles))
                          /\ UNCHANGED <<route, runtimes>>
        /\ ~ result.fits => Done(t) /\ BindSingle(b.role, b.id, Unavailable)
        /\ UNCHANGED <<disk, live, stopped, booted, ops>>
    BY <1>7, AdmitToPoolIs DEF Boots
  <2>2. /\ result.residents \in Seq(Entries) /\ result.victims \in Seq(Models)
        /\ Used(result.residents) <= Budget
    BY <1>1, <2>1, AdmitIs
  <2> HIDE DEF result
  <2>3. Boot(b, "evict", result.victims, b.roles) \in Boots
    BY <2>1, <2>2, BootTyped
  <2>4. Boot(b, "evict", result.victims, b.roles).pc # "takedown"
    BY DEF Boot
  <2>5. ThreadsTypeOK'
    BY <1>2, <1>3, <2>1, <2>3, <2>4
  <2>6. RouterTypeOK' /\ LiveTypeOK'
    BY <2>1, RouterTypeStep, LiveTypeStep
  <2>7. QED
    BY <1>1, <2>1, <2>2, <2>5, <2>6, TypeParts DEF disk
<1>8. CASE FindEvicted(t)
  <2> DEFINE m == Head(b.victims)
             R == RolesFor(m)
  <2>1. /\ b \in Boots /\ b.victims # <<>> /\ Tail(b.victims) \in Seq(Models)
        /\ R = {} => Moves(t, Boot(b, "evict", Tail(b.victims), {}))
        /\ R # {} => Moves(t, Boot(b, "takedown", b.victims, R))
    BY <1>8, FindEvictedIs
  <2>2. R \in SUBSET Roles /\ b.victims \in Seq(Models)
    BY <2>1 DEF RolesFor, Boots
  <2> HIDE DEF R
  <2>3. /\ Boot(b, "evict", Tail(b.victims), {}) \in Boots
        /\ Boot(b, "takedown", b.victims, R) \in Boots
    BY <2>1, <2>2, BootTyped
  <2>4. /\ Boot(b, "evict", Tail(b.victims), {}).pc # "takedown"
        /\ Boot(b, "takedown", b.victims, R).victims # <<>>
    BY <2>1 DEF Boot
  <2>5. ThreadsTypeOK'
    BY <1>3, <2>1, <2>3, <2>4
  <2>6. UNCHANGED <<endpoint, bound, pool, live, route, runtimes, stopped, booted, ops>>
    BY <1>8 DEF FindEvicted, disk, serving
  <2>7. QED
    BY <1>1, <2>5, <2>6, TypeParts, RouterTypeStep, LiveTypeStep
<1>9. CASE TakeEvicted(t)
  <2> DEFINE m == Head(b.victims)
  <2>1. /\ b \in Boots /\ b.victims # <<>> /\ Tail(b.victims) \in Seq(Models) /\ m \in Models
        /\ \E r \in b.roles :
              /\ r \in Roles /\ TakeDown(r)
              /\ IF live[r] # NoServer THEN BindSingle(r, m, Unavailable)
                                       ELSE UNCHANGED <<route, runtimes>>
              /\ b.roles = {r} => Moves(t, Boot(b, "evict", Tail(b.victims), {}))
              /\ b.roles # {r} => Moves(t, Boot(b, "takedown", b.victims, b.roles \ {r}))
    BY <1>9, TakeEvictedIs DEF ServingTypeOK, TakeEvicted
  <2>2. b.victims \in Seq(Models) /\ b.roles \in SUBSET Roles
    BY <2>1 DEF Boots
  <2>3. \A r : b.roles \ {r} \in SUBSET Roles
    BY <2>2
  <2> HIDE DEF m
  <2>4. /\ Boot(b, "evict", Tail(b.victims), {}) \in Boots
        /\ \A r : Boot(b, "takedown", b.victims, b.roles \ {r}) \in Boots
    BY <2>1, <2>2, <2>3, BootTyped
  <2>5. /\ Boot(b, "evict", Tail(b.victims), {}).pc # "takedown"
        /\ \A r : Boot(b, "takedown", b.victims, b.roles \ {r}).victims # <<>>
    BY <2>1 DEF Boot
  <2>6. ThreadsTypeOK'
    BY <1>3, <2>1, <2>4, <2>5
  <2>7. RouterTypeOK' /\ LiveTypeOK'
    BY <2>1, RouterTypeStep, LiveTypeStep
  <2>8. UNCHANGED <<endpoint, bound, pool, booted, ops>>
    BY <1>9 DEF TakeEvicted, disk
  <2>9. QED
    BY <1>1, <2>6, <2>7, <2>8, TypeParts
<1>10. CASE BootSucceeds(t)
  <2> DEFINE s == [pc |-> "swap", role |-> b.role, id |-> b.id, n |-> booted + 1]
  <2>1. /\ b.role \in Roles /\ b.id \in Models
        /\ s \in Swaps /\ Moves(t, s) /\ booted' = booted + 1
        /\ BindSingle(b.role, b.id, Server(b.id, booted + 1))
        /\ UNCHANGED <<disk, pool, live, stopped, ops>>
    BY <1>10, BootSucceedsIs
  <2>2. ThreadsTypeOK'
    <3>1. s.pc # "takedown"
      OBVIOUS
    <3> HIDE DEF s
    <3>2. QED
      BY <1>3, <2>1, <3>1
  <2>3. Server(b.id, booted + 1) \in Servers
    BY <1>1, <2>1 DEF Server, Servers
  <2>4. RouterTypeOK' /\ LiveTypeOK'
    BY <2>1, <2>3, RouterTypeStep, LiveTypeStep
  <2>5. QED
    BY <1>1, <2>1, <2>2, <2>4, TypeParts DEF disk
<1>11. CASE Swap(t)
  <2>1. b.role \in Roles /\ b.id \in Models /\ b.n \in Nat /\ ThreadsTypeOK'
    BY <1>2, <1>11, OtherBootSteps DEF Swap
  <2>2. Server(b.id, b.n) \in Servers
    BY <2>1 DEF Server, Servers
  <2>3. LiveTypeOK'
    BY <1>1, <1>11, <2>1, <2>2 DEF Swap, LiveTypeOK
  <2>4. UNCHANGED <<endpoint, bound, pool, route, runtimes, booted, ops>>
    BY <1>11 DEF Swap, disk
  <2>5. QED
    BY <1>1, <2>1, <2>3, <2>4, TypeParts, RouterTypeStep
<1>12. QED
  BY <1>4, <1>5, <1>6, <1>7, <1>8, <1>9, <1>10, <1>11, <1>13, <1>14 DEF BootStep

Removal(at, id, roles) == [pc |-> at, id |-> id, roles |-> roles]

LEMMA RemovalTyped ==
  ASSUME NEW at \in {"unserve", "delete", "erase", "clear"}, NEW id \in Models,
         NEW roles \in SUBSET Roles
  PROVE  Removal(at, id, roles) \in Removals /\ Removal(at, id, roles) # Idle
  BY DEF Removals, Removal, Idle

\* The states of a client, and each of its steps as the change it makes.
LEMMA ClientTyped ==
  ASSUME ServingTypeOK, NEW c \in Threads
  PROVE  /\ th[c].pc \in {"unserve", "delete", "erase"} => th[c] \in Removals /\ c \notin Roles
         /\ th[c].pc = "stop" => th[c] \in Stops /\ c \notin Roles /\ th[c].role \in Roles
         /\ th[c].pc = "forget" => th[c] \in Forgets /\ c \notin Roles
         /\ th[c].pc = "clear" => th[c] \in Removals \union Forgets /\ c \notin Roles
<1>1. th[c] \in ThreadStates /\ (c \in Roles => th[c] \in {Idle} \union Boots \union Swaps)
  BY DEF ServingTypeOK
<1>2. \A s \in {Idle} \union Boots \union Swaps :
        s.pc \notin {"unserve", "delete", "erase", "stop", "forget", "clear"}
  BY DEF Idle, Boots, Swaps
<1>3. th[c] \in Stops => th[c].role \in Roles
  BY DEF Stops
<1>4. QED
  BY <1>1, <1>2, <1>3, ThreadIs

LEMMA ClientsAreNotRoles ==
  ASSUME NEW c \in Clients
  PROVE  c \in Threads /\ c \notin Roles
  BY ServingAssumption DEF Threads

LEMMA BeginActivateIs ==
  ASSUME NEW c \in Clients, NEW r \in Roles, NEW id \in Models \union {Endpoint},
         BeginActivate(c, r, id)
  PROVE  \E s \in Boots \union Externals :
           /\ Moves(c, s) /\ s.pc \in {"external", "bind"} /\ s.role = r /\ s.id = id
           /\ s.roles = {}
           /\ s.pc = "bind" => s \in Boots /\ id \in Installed
<1> DEFINE s == [pc |-> IF id = Endpoint THEN "external" ELSE "bind", role |-> r,
                 id |-> id, victims |-> <<>>, roles |-> {}]
<1>1. <<>> \in Seq(Models) /\ Endpoint \notin Models
  BY ServingAssumption
<1>2. /\ id = Endpoint => s \in Externals
      /\ id # Endpoint => s \in Boots /\ id \in Installed
  BY <1>1 DEF BeginActivate, Externals, Boots
<1>3. Moves(c, s)
  BY DEF BeginActivate, Moves
<1>4. s.pc = (IF id = Endpoint THEN "external" ELSE "bind") /\ s.role = r /\ s.id = id /\ s.roles = {}
  OBVIOUS
<1> HIDE DEF s
<1>5. QED
  BY <1>2, <1>3, <1>4

LEMMA BeginRemoveIs ==
  ASSUME NEW c \in Clients, NEW m \in Models, BeginRemove(c, m)
  PROVE  \E at \in {"delete", "unserve"} :
           /\ Moves(c, Removal(at, m, RolesFor(m))) /\ RolesFor(m) \in SUBSET Roles
           /\ at = "delete" => RolesFor(m) = {}
  BY DEF BeginRemove, Moves, Removal, RolesFor

LEMMA UnbindIs ==
  ASSUME ServingTypeOK, NEW c \in Clients, Unbind(c)
  PROVE  /\ th[c] \in Removals /\ th[c].pc = "unserve"
         /\ \E r \in th[c].roles :
              LET s == [pc |-> "stop", id |-> th[c].id, roles |-> th[c].roles \ {r}, role |-> r] IN
              r \in Roles /\ BindSingle(r, NoModel, Unavailable) /\ Moves(c, s) /\ s \in Stops
<1>1. th[c] \in Removals /\ th[c].id \in Models /\ th[c].roles \in SUBSET Roles /\ th[c].pc = "unserve"
  BY ClientsAreNotRoles, ClientTyped DEF Unbind, Removals
<1>2. PICK r \in th[c].roles :
        /\ BindSingle(r, NoModel, Unavailable)
        /\ th' = [th EXCEPT ![c] = [pc |-> "stop", id |-> @.id, roles |-> @.roles \ {r}, role |-> r]]
  BY DEF Unbind
<1>3. th[c].roles \ {r} \in SUBSET Roles /\ r \in Roles
  BY <1>1
<1>4. [pc |-> "stop", id |-> th[c].id, roles |-> th[c].roles \ {r}, role |-> r] \in Stops
  BY <1>1, <1>3 DEF Stops
<1>5. c \in Threads
  BY ClientsAreNotRoles
<1>6. Moves(c, [pc |-> "stop", id |-> th[c].id, roles |-> th[c].roles \ {r}, role |-> r])
  BY <1>2, <1>5 DEF Moves, ServingTypeOK
<1>7. QED
  BY <1>1, <1>2, <1>3, <1>4, <1>6

LEMMA StopServerIs ==
  ASSUME ServingTypeOK, NEW c \in Clients, StopServer(c)
  PROVE  /\ th[c] \in Stops /\ th[c].pc = "stop" /\ th[c].role \in Roles /\ th[c].id \in Models
         /\ th[c].roles \in SUBSET Roles /\ TakeDown(th[c].role)
         /\ \E at \in {"delete", "unserve"} :
              /\ Moves(c, Removal(at, th[c].id, th[c].roles))
              /\ at = "delete" => th[c].roles = {}
<1>1. c \in Threads
  BY ClientsAreNotRoles
<1>2. /\ th[c] \in Stops /\ th[c].pc = "stop" /\ th[c].role \in Roles /\ th[c].id \in Models
      /\ th[c].roles \in SUBSET Roles
  BY <1>1, ClientTyped DEF StopServer, Stops
<1>3. QED
  BY <1>1, <1>2 DEF StopServer, Moves, Removal, ServingTypeOK

LEMMA FilesMovesIs ==
  ASSUME ServingTypeOK, NEW c \in Clients, FindFiles(c) \/ DeleteFiles(c) \/ DeleteFails(c)
  PROVE  /\ th[c] \in Removals /\ th[c].pc \in {"delete", "erase"} /\ th[c].id \in Models
         /\ th[c].roles \in SUBSET Roles
         /\ FindFiles(c) => Done(c) \/ Moves(c, Removal("erase", th[c].id, th[c].roles))
         /\ DeleteFiles(c) =>
              \/ UnlinkFile(th[c].id) /\ th' = th
              \/ /\ RemoveDir(th[c].id) /\ inst' = inst
                 /\ Moves(c, Removal("clear", th[c].id, th[c].roles))
         /\ DeleteFails(c) => Done(c)
<1>1. c \in Threads
  BY ClientsAreNotRoles
<1>2. /\ th[c] \in Removals /\ th[c].pc \in {"delete", "erase"} /\ th[c].id \in Models
      /\ th[c].roles \in SUBSET Roles
  BY <1>1, ClientTyped DEF FindFiles, DeleteFiles, DeleteFails, Removals
<1>3. \A at \in {"erase", "clear"} : Goto(c, at) => Moves(c, Removal(at, th[c].id, th[c].roles))
  <2>1. ASSUME NEW at \in {"erase", "clear"}, Goto(c, at)
        PROVE  Moves(c, Removal(at, th[c].id, th[c].roles))
    <3>1. th' = [th EXCEPT ![c] = [th[c] EXCEPT !.pc = at]]
      BY <2>1 DEF Goto
    <3>2. [th[c] EXCEPT !.pc = at] = Removal(at, th[c].id, th[c].roles)
      BY <1>2 DEF Removals, Removal
    <3>3. QED
      BY <3>1, <3>2 DEF Moves
  <2>2. QED
    BY <2>1
<1>4. QED
  BY <1>2, <1>3 DEF FindFiles, DeleteFiles, DeleteFails

LEMMA ForgetEndpointIs ==
  ASSUME ServingTypeOK, NEW c \in Clients, ForgetEndpoint(c)
  PROVE  /\ th[c] \in Forgets
         /\ Done(c) \/ Moves(c, [pc |-> "clear", id |-> Endpoint])
<1>1. c \in Threads
  BY ClientsAreNotRoles
<1>2. th[c] \in Forgets
  BY <1>1, ClientTyped DEF ForgetEndpoint
<1>3. [th[c] EXCEPT !.pc = "clear"] = [pc |-> "clear", id |-> Endpoint]
  BY <1>2 DEF Forgets
<1>4. QED
  BY <1>2, <1>3 DEF ForgetEndpoint, Goto, Moves

LEMMA ClientTypeStep ==
  ASSUME ServingTypeOK, NEW c \in Clients, RemoveStep(c) \/ Request(c)
  PROVE  ServingTypeOK'
<1> DEFINE b == th[c]
<1>1. /\ ThreadsTypeOK /\ RouterTypeOK /\ LiveTypeOK
      /\ endpoint \in BOOLEAN /\ bound \in [Roles -> Ids] /\ pool \in Seq(Entries)
      /\ Used(pool) <= Budget /\ booted \in Nat /\ ops \in Nat
  BY TypeParts
<1>2. c \in Threads /\ c \notin Roles
  BY ClientsAreNotRoles
<1>3. \A s \in ThreadStates : Moves(c, s) /\ s.pc # "takedown" => ThreadsTypeOK'
  BY <1>2, ThreadsTypeStep DEF Fits
<1>4. Done(c) => ThreadsTypeOK'
  BY <1>2, DoneIs, ThreadsTypeStep
<1>5. \A at \in {"unserve", "delete", "erase", "clear"}, id \in Models, roles \in SUBSET Roles :
        Moves(c, Removal(at, id, roles)) => ThreadsTypeOK'
  <2>1. ASSUME NEW at \in {"unserve", "delete", "erase", "clear"}, NEW id \in Models,
               NEW roles \in SUBSET Roles
        PROVE  Removal(at, id, roles) \in ThreadStates /\ Removal(at, id, roles).pc # "takedown"
    BY RemovalTyped DEF ThreadStates, Removal
  <2>2. QED
    BY <1>3, <2>1
<1>6. CASE \E r \in Roles, id \in Models \union {Endpoint} : BeginActivate(c, r, id)
  <2>1. PICK r \in Roles, id \in Models \union {Endpoint} : BeginActivate(c, r, id)
    BY <1>6
  <2>2. PICK s \in Boots \union Externals : Moves(c, s) /\ s.pc \in {"external", "bind"}
    BY <2>1, BeginActivateIs
  <2>3. ThreadsTypeOK'
    BY <1>3, <2>2 DEF ThreadStates
  <2>4. ops' \in Nat /\ UNCHANGED <<endpoint, bound, pool, live, route, runtimes, stopped, booted>>
    BY <1>1, <2>1 DEF BeginActivate, disk, serving
  <2>5. QED
    BY <1>1, <2>3, <2>4, TypeParts, RouterTypeStep, LiveTypeStep
<1>7. CASE \E m \in Models : BeginRemove(c, m)
  <2>1. PICK m \in Models : BeginRemove(c, m)
    BY <1>7
  <2>2. ThreadsTypeOK'
    <3>1. RolesFor(m) \in SUBSET Roles
      BY DEF RolesFor
    <3>2. QED
      BY <1>5, <2>1, <3>1, BeginRemoveIs
  <2>3. ops' \in Nat /\ UNCHANGED <<endpoint, bound, pool, live, route, runtimes, stopped, booted>>
    BY <1>1, <2>1 DEF BeginRemove, disk, serving
  <2>4. QED
    BY <1>1, <2>2, <2>3, TypeParts, RouterTypeStep, LiveTypeStep
<1>8. CASE BeginEndpointRemove(c)
  <2>1. ThreadsTypeOK'
    <3>1. [pc |-> "forget", id |-> Endpoint] \in ThreadStates
      BY DEF ThreadStates, Forgets
    <3>2. Moves(c, [pc |-> "forget", id |-> Endpoint])
      BY <1>8 DEF BeginEndpointRemove, Moves
    <3>3. QED
      BY <1>3, <3>1, <3>2
  <2>2. RouterTypeOK'
    BY <1>1, <1>8 DEF BeginEndpointRemove, RouterTypeOK, Ids
  <2>3. ops' \in Nat /\ UNCHANGED <<endpoint, bound, pool, live, stopped, booted>>
    BY <1>1, <1>8 DEF BeginEndpointRemove, disk
  <2>4. QED
    BY <1>1, <2>1, <2>2, <2>3, TypeParts, LiveTypeStep
<1>9. CASE AddEndpoint(c)
  <2>1. /\ ops' \in Nat /\ endpoint' \in BOOLEAN
        /\ UNCHANGED <<bound, pool, live, route, runtimes, stopped, booted, th>>
    BY <1>1, <1>9 DEF AddEndpoint, serving
  <2>2. ThreadsTypeOK'
    BY <1>1, <2>1 DEF ThreadsTypeOK
  <2>3. QED
    BY <1>1, <2>1, <2>2, TypeParts, RouterTypeStep, LiveTypeStep
<1>10. CASE Unbind(c)
  <2>1. PICK r \in b.roles, s \in Stops : r \in Roles /\ BindSingle(r, NoModel, Unavailable) /\ Moves(c, s)
    BY <1>10, UnbindIs
  <2>2. ThreadsTypeOK'
    BY <1>3, <2>1 DEF ThreadStates, Stops
  <2>3. UNCHANGED <<endpoint, bound, pool, live, stopped, booted, ops>>
    BY <1>10 DEF Unbind, disk
  <2>4. QED
    BY <1>1, <2>1, <2>2, <2>3, TypeParts, RouterTypeStep, LiveTypeStep
<1>11. CASE StopServer(c)
  <2>1. ThreadsTypeOK' /\ LiveTypeOK'
    BY <1>5, <1>11, StopServerIs, LiveTypeStep
  <2>2. UNCHANGED <<endpoint, bound, pool, route, runtimes, booted, ops>>
    BY <1>11 DEF StopServer, disk
  <2>3. QED
    BY <1>1, <2>1, <2>2, TypeParts, RouterTypeStep
<1>12. CASE FindFiles(c) \/ DeleteFiles(c) \/ DeleteFails(c)
  <2>1. ThreadsTypeOK'
    <3>1. th' = th => ThreadsTypeOK'
      BY <1>1 DEF ThreadsTypeOK
    <3>2. QED
      BY <1>4, <1>5, <1>12, <3>1, FilesMovesIs
  <2>2. UNCHANGED <<endpoint, bound, pool, live, route, runtimes, stopped, booted, ops>>
    BY <1>12 DEF FindFiles, DeleteFiles, DeleteFails, disk, serving
  <2>3. QED
    BY <1>1, <2>1, <2>2, TypeParts, RouterTypeStep, LiveTypeStep
<1>13. CASE ForgetEndpoint(c)
  <2>1. ThreadsTypeOK'
    <3>1. [pc |-> "clear", id |-> Endpoint] \in ThreadStates
      BY DEF ThreadStates, Forgets
    <3>2. QED
      BY <1>3, <1>4, <1>13, <3>1, ForgetEndpointIs
  <2>2. endpoint' \in BOOLEAN /\ UNCHANGED <<bound, pool, live, route, runtimes, stopped, booted, ops>>
    BY <1>13 DEF ForgetEndpoint, serving
  <2>3. QED
    BY <1>1, <2>1, <2>2, TypeParts, RouterTypeStep, LiveTypeStep
<1>14. CASE ClearRows(c)
  <2>1. ThreadsTypeOK'
    BY <1>4, <1>14 DEF ClearRows
  <2>2. UNCHANGED <<endpoint, pool, live, route, runtimes, stopped, booted, ops>>
    BY <1>14 DEF ClearRows, serving
  <2>3. bound' \in [Roles -> Ids]
    BY <1>1, <1>14 DEF ClearRows, Ids
  <2>4. QED
    BY <1>1, <2>1, <2>2, <2>3, TypeParts, RouterTypeStep, LiveTypeStep
<1>15. QED
  BY <1>6, <1>7, <1>8, <1>9, <1>10, <1>11, <1>12, <1>13, <1>14 DEF RemoveStep, Request

\* Overlap: who works on the same thing.
LEMMA OverlapIs ==
  ASSUME NEW at \in [Threads -> ThreadStates]
  PROVE  /\ \A r : r \in Overlap(at, Works) <=>
              \E t, u \in Threads : t # u /\ r \in Works(at[t]) /\ r \in Works(at[u])
         /\ \A m : m \in Overlap(at, Heads) <=>
              \E t, u \in Threads : t # u /\ m \in Heads(at[t]) /\ m \in Heads(at[u])
  BY DEF Overlap

LEMMA HistoryTypeStep ==
  ASSUME HistoryTypeOK, ServingTypeOK, ThreadsTypeOK', RouterTypeOK', History
  PROVE  /\ HistoryTypeOK'
         /\ contested \subseteq contested' /\ raced \subseteq raced' /\ shared \subseteq shared'
         /\ unaccounted \subseteq unaccounted'
<1>1. th' \in [Threads -> ThreadStates]
  BY DEF ThreadsTypeOK
<1>2. Overlap(th', Works) \subseteq Roles
  <2>1. \A t \in Threads : Works(th'[t]) \subseteq Roles
    BY <1>1, WorksIs
  <2>2. QED
    BY <1>1, <2>1, OverlapIs
<1>3. Overlap(th', Heads) \subseteq Ids
  <2>1. \A t \in Threads : Heads(th'[t]) \subseteq Ids
    <3>1. ASSUME NEW t \in Threads PROVE Heads(th'[t]) \subseteq Ids
      <4>1. th'[t] # Idle => th'[t].id \in Models \union {Endpoint}
        BY <1>1, ThreadIs
      <4>2. QED
        BY <1>1, <4>1, WorksIs DEF Ids
    <3>2. QED
      BY <3>1
  <2>2. QED
    BY <1>1, <2>1, OverlapIs
<1>4. /\ contested \subseteq contested' /\ contested' \in SUBSET Models
      /\ unaccounted \subseteq unaccounted' /\ unaccounted' \in SUBSET Models
  BY DEF History, HistoryTypeOK
<1>5. \E X \in SUBSET Roles : raced' = raced \union Overlap(th', Works) \union X
  <2>1. {r \in Roles : route'[r] # Endpoint /\ \E t \in Quits("rewire") : th[t].role = r}
           \in SUBSET Roles
    OBVIOUS
  <2>2. QED
    BY <2>1 DEF History
<1>6. \E X \in SUBSET Models : shared' = shared \union Overlap(th', Heads) \union X
  <2>1. {m \in Models : \E r, q \in Roles : r # q /\ route'[r] = m /\ route'[q] = m} \in SUBSET Models
    OBVIOUS
  <2>2. QED
    BY <2>1 DEF History
<1>7. cut' \in SUBSET Models
  <2>1. \A c \in Quits("erase") : th[c].id \in Models
    BY ClientTyped DEF Quits, Removals
  <2>2. cut' \subseteq cut \union {th[c].id : c \in Quits("erase")}
    BY DEF History
  <2>3. QED
    BY <2>1, <2>2 DEF HistoryTypeOK
<1>8. QED
  BY <1>2, <1>3, <1>4, <1>5, <1>6, <1>7 DEF HistoryTypeOK, Ids

LEMMA StoreTypeRemove ==
  ASSUME StoreTypeOK, ServingTypeOK, NEW c \in Clients, DeleteFiles(c)
  PROVE  StoreTypeOK'
<1>1. /\ th[c].id \in Models /\ installs' = installs
      /\ UnlinkFile(th[c].id) \/ (RemoveDir(th[c].id) /\ inst' = inst)
  BY FilesMovesIs DEF DeleteFiles
<1>2. dirs' \in [Models -> Dirs] /\ inst' \in [Installers -> InstStates]
  BY <1>1, UnlinkIs, RemoveDirIs DEF StoreTypeOK, InstStates
<1>3. QED
  BY <1>1, <1>2 DEF StoreTypeOK, InstStates

TypeInv == StoreTypeOK /\ ServingTypeOK /\ HistoryTypeOK

LEMMA UnchangedStore ==
  ASSUME StoreTypeOK, UNCHANGED storeVars
  PROVE  StoreTypeOK'
  BY DEF storeVars, StoreTypeOK

\* The steps that leave the store alone.
LEMMA StoreLeft ==
  /\ \A t \in Threads : BootStep(t) => UNCHANGED storeVars
  /\ \A c \in Clients : RemoveStep(c) \/ Request(c) => UNCHANGED storeVars \/ DeleteFiles(c)
  BY DEF BootStep, RemoveStep, Request, BindRow, StopForEndpoint, PointAtEndpoint, EndpointFails,
         NoManifest, AdmitToPool, FindEvicted, TakeEvicted, BootSucceeds, BootFails, Swap, Unbind,
         StopServer, FindFiles, DeleteFails, ForgetEndpoint, ClearRows, BeginActivate, BeginRemove,
         BeginEndpointRemove, AddEndpoint, disk

\* Every step keeps the types.
LEMMA TypeStep ==
  ASSUME TypeInv, [Next]_vars
  PROVE  TypeInv' /\ contested \subseteq contested' /\ raced \subseteq raced'
         /\ shared \subseteq shared' /\ unaccounted \subseteq unaccounted'
<1>1. CASE UNCHANGED vars
  BY <1>1 DEF vars, storeVars, TypeInv, StoreTypeOK, ServingTypeOK, HistoryTypeOK
<1>2. CASE Step /\ History
  <2>1. StoreTypeOK' /\ ServingTypeOK'
    <3>1. ASSUME NEW i \in Installers, Install(i) PROVE StoreTypeOK' /\ ServingTypeOK'
      <4>1. StoreTypeOK'
        BY <3>1, BeginInstallType, StoreTypeStep DEF Install, TypeInv
      <4>2. ServingTypeOK'
        BY <3>1 DEF Install, TypeInv, ServingTypeOK, serving
      <4>3. QED
        BY <4>1, <4>2
    <3>2. ASSUME NEW t \in Threads, BootStep(t) PROVE StoreTypeOK' /\ ServingTypeOK'
      BY <3>2, BootTypeStep, StoreLeft, UnchangedStore DEF TypeInv
    <3>3. ASSUME NEW c \in Clients, RemoveStep(c) \/ Request(c) PROVE StoreTypeOK' /\ ServingTypeOK'
      BY <3>3, ClientTypeStep, StoreLeft, UnchangedStore, StoreTypeRemove DEF TypeInv
    <3>4. QED
      BY <1>2, <3>1, <3>2, <3>3 DEF Step
  <2>2. ThreadsTypeOK' /\ RouterTypeOK'
    BY <2>1, TypeParts
  <2>3. QED
    BY <1>2, <2>1, <2>2, HistoryTypeStep DEF TypeInv
<1>3. QED
  BY <1>1, <1>2 DEF Next

LEMMA InitType ==
  Init => TypeInv /\ contested = {}
<1>1. SUFFICES ASSUME Init PROVE TypeInv /\ contested = {}
  OBVIOUS
<1>2. PICK o \in Openings :
    /\ dirs = [m \in Models |->
                 IF m \in o.installed
                   THEN [exists |-> TRUE, part |-> NoFile, manifest |-> TRUE,
                         weights |-> File([k \in 1 .. Size |-> "good"])]
                   ELSE NoDir]
    /\ inst = [i \in Installers |-> Resting] /\ installs = o.installs
    /\ contested = {} /\ cut = {}
    /\ endpoint = o.endpoint /\ bound = o.bound
    /\ pool = <<>>
    /\ live = [r \in Roles |-> NoServer]
    /\ route = [r \in Roles |-> IF o.bound[r] = Endpoint THEN Endpoint ELSE o.boots[r]]
    /\ runtimes = [id \in Ids |-> IF id = Endpoint THEN External ELSE Unavailable]
    /\ stopped = {} /\ booted = 0 /\ ops = o.requests
    /\ th = [t \in Threads |->
               IF t \in Roles /\ o.boots[t] # NoModel
                 THEN [pc |-> "admit", role |-> t, id |-> o.boots[t], victims |-> <<>>,
                       roles |-> {}]
                 ELSE Idle]
    /\ raced = {} /\ unaccounted = {}
    /\ shared = {m \in Models : \E r, q \in Roles : r # q /\ o.boots[r] = m /\ o.boots[q] = m}
  BY <1>1 DEF Init
<1>3. /\ NoModel \notin Models /\ Endpoint \notin Models \union {NoModel}
      /\ o.requests \in Nat /\ o.installs \in Nat /\ o.endpoint \in BOOLEAN
      /\ o.installed \subseteq Models /\ o.bound \in [Roles -> Ids]
      /\ o.boots \in [Roles -> o.installed \union {NoModel}]
  BY ServingAssumption
<1>4. StoreTypeOK
  <2>1. [exists |-> TRUE, part |-> NoFile, manifest |-> TRUE,
         weights |-> File([k \in 1 .. Size |-> "good"])] \in Dirs
    BY FilesTyped DEF Dirs
  <2>2. dirs \in [Models -> Dirs]
    BY <1>2, <2>1, FilesTyped
  <2>3. QED
    BY <1>2, <1>3, <2>2 DEF StoreTypeOK
<1>5. ThreadsTypeOK
  <2>1. ASSUME NEW t \in Roles, o.boots[t] # NoModel
        PROVE  [pc |-> "admit", role |-> t, id |-> o.boots[t], victims |-> <<>>, roles |-> {}]
                  \in Boots
    <3>1. o.boots[t] \in Models /\ <<>> \in Seq(Models)
      BY <1>3, <2>1
    <3>2. QED
      BY <3>1 DEF Boots
  <2>2. ASSUME NEW t \in Threads
        PROVE  /\ th[t] \in {Idle} \union Boots /\ th[t].pc # "takedown"
    BY <1>2, <2>1 DEF Idle
  <2>3. th = [t \in Threads |-> th[t]] /\ Roles \subseteq Threads
    BY <1>2 DEF Threads
  <2>4. QED
    BY <2>2, <2>3 DEF ThreadsTypeOK, ThreadStates
<1>6. RouterTypeOK
  <2>1. Endpoint \in Ids /\ NoModel \in Ids /\ Models \subseteq Ids /\ Unavailable # External
    BY KindsDiffer DEF Ids
  <2>2. o.boots \in [Roles -> Ids]
    BY <1>3, <2>1
  <2>3. QED
    BY <1>2, <1>3, <2>1, <2>2 DEF RouterTypeOK
<1>7. LiveTypeOK
  BY <1>2 DEF LiveTypeOK
<1>8. pool \in Seq(Entries) /\ Used(pool) <= Budget
  <2>1. <<>> \in Seq(Entries) /\ Budget \in Nat
    BY ModelPoolAssumption
  <2>2. Weights(<<>>) \in [1 .. 0 -> Nat] /\ Len(<<>>) = 0
    BY <2>1, WeightsTyped
  <2>3. PICK sum : Sums(0, Weights(<<>>), sum)
    BY <2>2, SumsExist
  <2>4. Used(<<>>) = sum[0] /\ sum[0] = 0
    BY <2>1, <2>2, <2>3, UsedIsSum DEF Sums
  <2>5. QED
    BY <1>2, <2>1, <2>4
<1>9. ServingTypeOK
  BY <1>2, <1>3, <1>5, <1>6, <1>7, <1>8, TypeParts
<1>10. HistoryTypeOK
  BY <1>2 DEF HistoryTypeOK, Ids
<1>11. QED
  BY <1>2, <1>4, <1>9, <1>10 DEF TypeInv

\* Two sets that hold no more than one element together.
LEMMA AtMostOne ==
  ASSUME NEW S, NEW R, IsFiniteSet(S), IsFiniteSet(R), ~ (Cardinality(S) + Cardinality(R) > 1)
  PROVE  (\A i, j \in S : i = j) /\ (S # {} => R = {})
<1>1. Cardinality(S) \in Nat /\ Cardinality(R) \in Nat
  BY FS_CardinalityType
<1>2. ASSUME NEW i \in S, NEW j \in S, i # j PROVE FALSE
  <2>1. IsFiniteSet({i}) /\ Cardinality({i}) = 1 /\ IsFiniteSet({i} \union {j})
    BY FS_Singleton, FS_AddElement
  <2>2. j \notin {i}
    BY <1>2
  <2>3. Cardinality({i} \union {j}) = Cardinality({i}) + 1
    BY <2>1, <2>2, FS_AddElement
  <2>4. {i} \union {j} \in SUBSET S
    OBVIOUS
  <2>5. Cardinality({i} \union {j}) <= Cardinality(S)
    BY <2>4, FS_Subset
  <2>6. Cardinality({i} \union {j}) = 2
    BY <2>1, <2>3
  <2>7. Cardinality(S) >= 2
    BY <1>1, <2>5, <2>6
  <2>8. QED
    BY <1>1, <2>7
<1>3. ASSUME S # {}, R # {} PROVE FALSE
  <2>1. Cardinality(S) # 0 /\ Cardinality(R) # 0
    BY <1>3, FS_EmptySet
  <2>2. QED
    BY <1>1, <2>1
<1>4. QED
  BY <1>2, <1>3

LEMMA AloneStep ==
  ASSUME History
  PROVE  Alone'
<1>1. ASSUME NEW m \in Models \ contested'
      PROVE  /\ \A i, j \in Installing(m)' : i = j
             /\ Installing(m)' # {} => Removing(m)' = {}
  <2>1. ~ (Cardinality(Installing(m)') + Cardinality(Removing(m)') > 1)
    BY <1>1 DEF History
  <2>2. IsFiniteSet(Installing(m)') /\ IsFiniteSet(Removing(m)')
    <3>1. Installing(m)' \in SUBSET Installers /\ Removing(m)' \in SUBSET Clients
      BY DEF Installing, Removing
    <3>2. QED
      BY <3>1, ServingAssumption, FS_Subset
  <2>3. QED
    BY <2>1, <2>2, AtMostOne
<1>2. QED
  BY <1>1 DEF Alone

LEMMA InitAlone ==
  Init => Alone /\ FilesInv
<1>1. SUFFICES ASSUME Init PROVE Alone /\ FilesInv
  OBVIOUS
<1>2. \A m \in Models : Installing(m) = {}
  <2>1. inst = [i \in Installers |-> Resting]
    BY <1>1 DEF Init
  <2>2. QED
    BY <2>1 DEF Installing, Working
<1>3. Alone
  BY <1>2 DEF Alone
<1>4. \A m \in Models : Sound(m, dirs[m])
  BY <1>1 DEF Init, Sound, NoDir, Whole
<1>5. QED
  BY <1>2, <1>3, <1>4 DEF FilesInv, SoundOrCut

NoNewSwap == \A u \in Threads : th'[u].pc = "swap" => th'[u] = th[u]
NoNewStop == \A u \in Threads : th'[u].pc \in {"stop", "rewire"} => th'[u] = th[u]

\* Only BootSucceeds begins a swap, only Unbind and StopForEndpoint a stop.
LEMMA NoNew ==
  ASSUME ServingTypeOK, NEW t \in Threads, NEW s, Moves(t, s)
  PROVE  /\ th'[t] = s /\ \A u \in Threads \ {t} : th'[u] = th[u]
         /\ s.pc # "swap" => NoNewSwap
         /\ s.pc \notin {"stop", "rewire"} => NoNewStop
  BY DEF Moves, ServingTypeOK, NoNewSwap, NoNewStop

OthersStay(t) == \A u \in Threads \ {t} : th'[u] = th[u]

\* A step moves one thread and no other.
LEMMA OnlyOneMoves ==
  ASSUME ServingTypeOK
  PROVE  /\ \A t \in Threads : BootStep(t) => OthersStay(t)
         /\ \A c \in Clients : RemoveStep(c) \/ Request(c) => OthersStay(c)
<1>1. th \in [Threads -> ThreadStates]
  BY DEF ServingTypeOK
<1>2. ASSUME NEW t \in Threads, BootStep(t) PROVE OthersStay(t)
  <2>1. BindRow(t) \/ StopForEndpoint(t) \/ PointAtEndpoint(t) \/ EndpointFails(t) \/ NoManifest(t)
          \/ BootFails(t) \/ Swap(t) => OthersStay(t)
    BY <1>1 DEF BindRow, StopForEndpoint, PointAtEndpoint, EndpointFails, NoManifest, BootFails, Swap,
                Goto, Done, OthersStay
  <2>2. AdmitToPool(t) => OthersStay(t)
    BY <1>1 DEF AdmitToPool, Done, OthersStay
  <2>3. FindEvicted(t) => OthersStay(t)
    BY <1>1 DEF FindEvicted, OthersStay
  <2>4. TakeEvicted(t) => OthersStay(t)
    BY <1>1 DEF TakeEvicted, OthersStay
  <2>5. BootSucceeds(t) => OthersStay(t)
    BY <1>1 DEF BootSucceeds, OthersStay
  <2>6. QED
    BY <1>2, <2>1, <2>2, <2>3, <2>4, <2>5 DEF BootStep
<1>3. ASSUME NEW c \in Clients, RemoveStep(c) \/ Request(c) PROVE OthersStay(c)
  <2>1. RemoveStep(c) => OthersStay(c)
    BY <1>1 DEF RemoveStep, Unbind, StopServer, FindFiles, DeleteFiles, DeleteFails, ForgetEndpoint,
                ClearRows, Goto, Done, OthersStay
  <2>2. Request(c) => OthersStay(c)
    BY <1>1 DEF Request, BeginActivate, BeginRemove, BeginEndpointRemove, AddEndpoint, OthersStay
  <2>3. QED
    BY <1>3, <2>1, <2>2
<1>4. QED
  BY <1>2, <1>3

\* Who removes files goes on with it, is done, or gives it up.
LEMMA EraserStays ==
  ASSUME ServingTypeOK, Step, NEW c \in Clients, th[c].pc = "erase"
  PROVE  th'[c] = th[c] \/ th'[c] = Idle \/ DeleteFiles(c)
<1>1. c \in Threads
  BY ClientsAreNotRoles
<1>2. ASSUME NEW i \in Installers, Install(i) PROVE th'[c] = th[c]
  BY <1>2 DEF Install
<1>3. ASSUME NEW t \in Threads, BootStep(t) PROVE th'[c] = th[c]
  <2>1. th[t].pc # "erase"
    BY <1>3 DEF BootStep, BindRow, StopForEndpoint, PointAtEndpoint, EndpointFails, NoManifest,
                AdmitToPool, FindEvicted, TakeEvicted, BootSucceeds, BootFails, Swap
  <2>2. QED
    BY <1>1, <1>3, <2>1, OnlyOneMoves DEF OthersStay
<1>4. ASSUME NEW d \in Clients, RemoveStep(d) \/ Request(d)
      PROVE  th'[c] = th[c] \/ th'[c] = Idle \/ DeleteFiles(c)
  <2>1. CASE d # c
    BY <1>1, <1>4, <2>1, OnlyOneMoves DEF OthersStay
  <2>2. CASE d = c
    <3>1. CASE DeleteFails(c)
      BY <1>1, <3>1, DoneIs, MovesType DEF DeleteFails
    <3>2. CASE ~ DeleteFails(c)
      BY <1>4, <2>2, <3>2
         DEF RemoveStep, Request, Unbind, StopServer, FindFiles, ForgetEndpoint, ClearRows,
             BeginActivate, BeginRemove, BeginEndpointRemove, AddEndpoint, InFlight, Idle
    <3>3. QED
      BY <3>1, <3>2
  <2>3. QED
    BY <2>1, <2>2
<1>5. QED
  BY <1>2, <1>3, <1>4 DEF Step

\* What a removal does to the files of a model.
LEMMA FilesRemove ==
  ASSUME StoreTypeOK, ServingTypeOK, Alone, FilesInv, Step, History, NEW c \in Clients,
         DeleteFiles(c), contested \subseteq contested'
  PROVE  FilesInv'
<1>1. PICK m \in Models : m = th[c].id
  BY FilesMovesIs
<1>2. c \in Removing(m) /\ c \in Threads /\ th[c].pc = "erase"
  <2>1. th[c].pc = "erase" /\ c \in Threads
    BY ClientsAreNotRoles DEF DeleteFiles
  <2>2. th[c] # Idle
    BY <2>1 DEF Idle
  <2>3. QED
    BY <1>1, <2>1, <2>2 DEF Removing, InFlight
<1>3. /\ UnlinkFile(m) /\ th' = th
      \/ /\ RemoveDir(m) /\ inst' = inst
         /\ \A u \in Threads \ {c} : th'[u] = th[u]
  BY <1>1, <1>2, FilesMovesIs, NoNew
<1>4. \A k \in Models : k # m => dirs'[k] = dirs[k]
  BY <1>3, UnlinkIs, RemoveDirIs
<1>5. ASSUME NEW k \in Models \ contested, NEW j \in Installing(k)'
      PROVE  k # m /\ j \in Installing(k) /\ inst'[j] = inst[j]
  <2>1. m \notin contested => Installing(m) = {}
    BY <1>2 DEF Alone
  <2>2. \A i \in Installers :
          /\ inst'[i] = inst[i] \/ (inst[i] # Resting /\ inst[i].model = m)
          /\ inst'[i] = Resting <=> inst[i] = Resting
          /\ inst[i] # Resting => inst'[i].model = inst[i].model
    BY <1>3, UnlinkIs, MovedTouches
  <2>3. QED
    BY <1>5, <2>1, <2>2 DEF Installing, Working
<1>6. ASSUME NEW k \in Models \ contested' PROVE SoundOrCut(k)'
  <2>1. CASE k # m
    <3>1. ASSUME NEW d \in Removing(k), th[d].pc = "erase" PROVE d \in Removing(k)' /\ th'[d] = th[d]
      <4>1. d # c /\ d \in Threads
        BY <1>1, <2>1, <3>1, ClientsAreNotRoles DEF Removing
      <4>2. th'[d] = th[d]
        BY <1>3, <4>1
      <4>3. QED
        BY <3>1, <4>2 DEF Removing, InFlight
    <3>2. Erasing(k) => Erasing(k)'
      BY <3>1 DEF Erasing
    <3>3. SoundOrCut(k) /\ dirs'[k] = dirs[k]
      BY <1>4, <2>1 DEF FilesInv
    <3>4. QED
      BY <3>2, <3>3, SoundKept
  <2>2. CASE k = m /\ th' = th
    <3>1. Erasing(m)'
      BY <1>2, <2>2 DEF Erasing, Removing, InFlight
    <3>2. QED
      BY <2>2, <3>1 DEF SoundOrCut
  <2>3. CASE k = m /\ RemoveDir(m)
    <3>1. dirs'[m] = NoDir
      BY <2>3, RemoveDirIs
    <3>2. Sound(m, dirs'[m])
      BY <3>1 DEF Sound, NoDir
    <3>3. QED
      BY <2>3, <3>2 DEF SoundOrCut
  <2>4. QED
    BY <1>3, <2>1, <2>2, <2>3
<1>7. ASSUME NEW k \in Models \ contested', NEW j \in Installing(k)'
      PROVE  Phase(k, dirs'[k], inst'[j])
  BY <1>4, <1>5 DEF FilesInv
<1>8. QED
  BY <1>6, <1>7 DEF FilesInv

\* A step that leaves the store alone; one may give up a removal.
LEMMA FilesLeft ==
  ASSUME ServingTypeOK, FilesInv, Step, History, UNCHANGED storeVars,
         contested \subseteq contested'
  PROVE  FilesInv'
<1>1. dirs' = dirs /\ inst' = inst
  BY DEF storeVars
<1>2. ASSUME NEW m \in Models, Erasing(m)
      PROVE  Erasing(m)' \/ m \in cut' \/ ~ dirs[m].manifest
  <2>1. PICK c \in Removing(m) : th[c].pc = "erase"
    BY <1>2 DEF Erasing
  <2>2. c \in Clients /\ c \in Threads /\ th[c].id = m /\ InFlight(c)
    BY <2>1, ClientsAreNotRoles DEF Removing
  <2>3. ~ DeleteFiles(c) \/ th' = th \/ ~ dirs[m].manifest
    <3>1. ASSUME RemoveDir(m) PROVE ~ dirs[m].manifest
      BY <3>1 DEF RemoveDir, NoDir
    <3>2. QED
      BY <2>2, <3>1, FilesMovesIs
  <2>4. CASE th'[c] = th[c]
    BY <2>1, <2>2, <2>4 DEF Erasing, Removing, InFlight
  <2>5. CASE th'[c] = Idle
    <3>1. c \in Quits("erase")
      BY <2>1, <2>2, <2>5 DEF Quits
    <3>2. QED
      BY <2>2, <3>1 DEF History
  <2>6. QED
    BY <2>1, <2>2, <2>3, <2>4, <2>5, EraserStays
<1>3. ASSUME NEW m \in Models \ contested' PROVE SoundOrCut(m)'
  BY <1>1, <1>2, SoundKept DEF FilesInv
<1>4. \A m \in Models : Installing(m)' = Installing(m)
  BY <1>1 DEF Installing, Working
<1>5. QED
  BY <1>1, <1>3, <1>4 DEF FilesInv

\* Every step keeps the files whole.
LEMMA FilesInvStep ==
  ASSUME TypeInv, Alone, FilesInv, [Next]_vars
  PROVE  Alone' /\ FilesInv'
<1>1. CASE UNCHANGED vars
  BY <1>1 DEF vars, storeVars, Alone, FilesInv, SoundOrCut, Erasing, Installing, Working, Removing,
              InFlight, Installed
<1>2. CASE Next
  <2>1. contested \subseteq contested' /\ StoreTypeOK /\ ServingTypeOK /\ Step /\ History
    BY <1>2, TypeStep DEF TypeInv, Next
  <2>2. Alone'
    BY <2>1, AloneStep
  <2>3. UNCHANGED storeVars => FilesInv'
    BY <2>1, FilesLeft
  <2>4. ASSUME NEW i \in Installers, Install(i) PROVE FilesInv'
    BY <2>1, <2>4, FilesStep
  <2>5. ASSUME NEW c \in Clients, DeleteFiles(c) PROVE FilesInv'
    BY <2>1, <2>5, FilesRemove
  <2>6. QED
    BY <2>1, <2>2, <2>3, <2>4, <2>5, StoreLeft DEF Step
<1>3. QED
  BY <1>1, <1>2

\* A model that is installed has all of its weights, whatever was cancelled,
\* killed or sent wrong on the way, unless two worked on its files at once, or
\* a removal is at work on them or broke off.
THEOREM InstalledModelsAreWhole ==
  Spec => []InstalledIsWhole
<1> DEFINE Inv == TypeInv /\ Alone /\ FilesInv
<1>1. Init => Inv
  BY InitType, InitAlone
<1>2. Inv /\ [Next]_vars => Inv'
  BY TypeStep, FilesInvStep
<1>3. Inv => InstalledIsWhole
  BY DEF FilesInv, SoundOrCut, Erasing, Sound, InstalledIsWhole, Installed
<1>4. QED
  BY <1>1, <1>2, <1>3, PTL DEF Spec

-----------------------------------------------------------------------------
(* What a step does to the router, the registry and the servers.           *)

Swapping(t, r) == th[t].pc = "swap" /\ th[t].role = r
Rewiring(t, r) == th[t].pc = "rewire" /\ th[t].role = r

Quiet ==
  /\ UNCHANGED <<live, stopped, runtimes, booted>> /\ NoNewSwap /\ NoNewStop
  /\ \A r \in Roles : route'[r] \in {route[r], NoModel}

\* Role q is pointed at a placeholder.
Dims(t, q, id) ==
  /\ th[t].pc \notin {"swap", "stop", "rewire"}
  /\ BindSingle(q, id, Unavailable) /\ UNCHANGED booted /\ NoNewSwap
  /\ UNCHANGED <<live, stopped>> \/ TakeDown(q)
  /\ \A u \in Threads :
       th'[u].pc \in {"stop", "rewire"} =>
         th'[u] = th[u] \/ (th'[u].pc = "stop" /\ th'[u].role = q /\ id = NoModel)

Silences(t, q) ==
  /\ th[t].pc = "point" /\ q = th[t].role /\ TakeDown(q)
  /\ UNCHANGED <<route, runtimes, booted>> /\ NoNewSwap
  /\ th'[t].pc = "rewire" /\ th'[t].role = q

TurnsOut(t, q) ==
  /\ th[t].pc = "rewire" /\ q = th[t].role
  /\ BindSingle(q, Endpoint, External) /\ UNCHANGED <<live, stopped, booted>>
  /\ NoNewSwap /\ NoNewStop

Starts(t, q, id) ==
  /\ th[t].pc \notin {"swap", "stop", "rewire"}
  /\ BindSingle(q, id, Server(id, booted + 1)) /\ booted' = booted + 1
  /\ Moves(t, [pc |-> "swap", role |-> q, id |-> id, n |-> booted + 1])
  /\ UNCHANGED <<live, stopped>> /\ NoNewStop

Replaces(t, q) ==
  /\ th[t].pc = "swap" /\ q = th[t].role
  /\ live' = [live EXCEPT ![q] = Server(th[t].id, th[t].n)]
  /\ stopped' = IF live[q] = NoServer THEN stopped ELSE stopped \union {live[q]}
  /\ UNCHANGED <<route, runtimes, booted>> /\ Moves(t, Idle)

TakesOff(t, q) ==
  /\ th[t].pc = "stop" /\ q = th[t].role /\ TakeDown(q)
  /\ UNCHANGED <<route, runtimes, booted>> /\ NoNewSwap /\ NoNewStop

RoutingStep(t, q) ==
  \/ \E id \in Models \union {NoModel} : Dims(t, q, id)
  \/ Silences(t, q) \/ TurnsOut(t, q)
  \/ \E id \in Models : Starts(t, q, id)
  \/ Replaces(t, q)
  \/ TakesOff(t, q)

SwapsStay == \A u \in Threads : th[u].pc = "swap" => th'[u] = th[u]

\* Who is to point a role at the endpoint does so, or fails and is remembered.
RewiresStay ==
  \A u \in Threads : th[u].pc = "rewire" =>
    th'[u] = th[u] \/ route'[th[u].role] = Endpoint \/ th[u].role \in raced'

LEMMA SwapperSwaps ==
  /\ \A t \in Threads : BootStep(t) /\ th[t].pc = "swap" => Swap(t)
  /\ \A t \in Threads : BootStep(t) /\ th[t].pc = "rewire" => PointAtEndpoint(t) \/ EndpointFails(t)
  /\ \A c \in Clients : RemoveStep(c) \/ Request(c) =>
       th[c].pc \notin {"swap", "rewire"} \/ th'[c] = th[c]
<1>1. ASSUME NEW t \in Threads, BootStep(t), th[t].pc \in {"swap", "rewire"}
      PROVE  \/ th[t].pc = "swap" /\ Swap(t)
             \/ th[t].pc = "rewire" /\ (PointAtEndpoint(t) \/ EndpointFails(t))
  BY <1>1 DEF BootStep, BindRow, StopForEndpoint, PointAtEndpoint, EndpointFails, NoManifest,
              AdmitToPool, FindEvicted, TakeEvicted, BootSucceeds, BootFails, Swap
<1>2. ASSUME NEW c \in Clients, RemoveStep(c) \/ Request(c)
      PROVE  th[c].pc \notin {"swap", "rewire"} \/ th'[c] = th[c]
  BY <1>2 DEF RemoveStep, Request, Unbind, StopServer, FindFiles, DeleteFiles, DeleteFails,
              ForgetEndpoint, ClearRows, BeginActivate, BeginRemove, BeginEndpointRemove, AddEndpoint,
              InFlight, Idle
<1>3. QED
  BY <1>1, <1>2

LEMMA NoNewIdle ==
  ASSUME ServingTypeOK, NEW t \in Threads, Done(t)
  PROVE  NoNewSwap /\ NoNewStop /\ Moves(t, Idle)
<1>1. Moves(t, Idle)
  BY DoneIs
<1>2. Idle.pc \notin {"swap", "stop", "rewire"}
  BY DEF Idle
<1>3. QED
  BY <1>1, <1>2, NoNew

\* A step of a boot or of a client is of one of a few kinds, as far as router,
\* registry and servers go.
LEMMA BootKinds ==
  ASSUME ServingTypeOK, NEW t \in Threads, BootStep(t)
  PROVE  Quiet \/ \E q \in Works(th[t]) : q \in Roles /\ RoutingStep(t, q)
<1> DEFINE b == th[t]
<1>1. /\ b \in ThreadStates /\ route \in [Roles -> Ids] /\ live \in [Roles -> {NoServer} \union Servers]
  BY DEF ServingTypeOK
<1>2. /\ b \in Boots \union Externals => Works(b) = {b.role} \union b.roles
      /\ b \in Swaps => Works(b) = {b.role}
  BY <1>1, WorksIs
<1>3. Done(t) => NoNewSwap /\ NoNewStop
  BY NoNewIdle
<1>4. \A v, r : \A at \in {"bind", "admit", "evict", "takedown", "point"} :
        Moves(t, Boot(b, at, v, r)) => NoNewSwap /\ NoNewStop
  <2>1. ASSUME NEW at \in {"bind", "admit", "evict", "takedown", "point"}, NEW v, NEW r,
               Moves(t, Boot(b, at, v, r))
        PROVE  NoNewSwap /\ NoNewStop
    <3>1. Boot(b, at, v, r).pc \notin {"swap", "stop", "rewire"}
      BY DEF Boot
    <3>2. QED
      BY <2>1, <3>1, NoNew
  <2>2. QED
    BY <2>1
<1>5. CASE BindRow(t)
  <2>1. NoNewSwap /\ NoNewStop
    BY <1>4, <1>5, BindRowIs
  <2>2. UNCHANGED <<live, stopped, runtimes, route, booted>>
    BY <1>5 DEF BindRow, serving
  <2>3. QED
    BY <2>1, <2>2 DEF Quiet
<1>6. CASE StopForEndpoint(t) \/ PointAtEndpoint(t) \/ EndpointFails(t)
  <2>1. b.role \in Roles /\ b.role \in Works(b)
    BY <1>2, <1>6, OtherBootSteps, StopForEndpointIs
  <2>2. ASSUME StopForEndpoint(t) PROVE Silences(t, b.role)
    <3> DEFINE s == Boot(b, "rewire", b.victims, b.roles)
    <3>1. b.pc = "point" /\ TakeDown(b.role) /\ Moves(t, s) /\ s.pc = "rewire" /\ s.role = b.role
      BY <2>2, StopForEndpointIs
    <3> HIDE DEF s
    <3>2. th'[t] = s /\ NoNewSwap
      BY <3>1, NoNew
    <3>3. QED
      BY <2>2, <3>1, <3>2 DEF StopForEndpoint, Silences
  <2>3. PointAtEndpoint(t) => TurnsOut(t, b.role)
    BY <1>3 DEF PointAtEndpoint, TurnsOut
  <2>4. EndpointFails(t) => Quiet
    BY <1>3 DEF EndpointFails, Quiet, serving
  <2>5. QED
    BY <1>6, <2>1, <2>2, <2>3, <2>4 DEF RoutingStep
<1>7. CASE NoManifest(t) \/ BootFails(t)
  <2>1. b.role \in Roles /\ b.role \in Works(b) /\ b.id \in Models
    BY <1>2, <1>7, OtherBootSteps
  <2>2. /\ NoNewSwap /\ NoNewStop /\ UNCHANGED <<live, stopped, booted>>
        /\ b.pc \notin {"swap", "stop", "rewire"}
    BY <1>3, <1>7 DEF NoManifest, BootFails
  <2>3. CASE UNCHANGED <<route, runtimes>>
    BY <2>2, <2>3 DEF Quiet
  <2>4. CASE BindSingle(b.role, b.id, Unavailable)
    BY <2>1, <2>2, <2>4 DEF RoutingStep, Dims, NoNewStop
  <2>5. QED
    BY <1>7, <2>3, <2>4 DEF NoManifest, BootFails
<1>8. CASE AdmitToPool(t)
  <2> DEFINE result == Admit(pool, b.id, b.role)
  <2>1. /\ b \in Boots /\ b.pc = "admit" /\ b.role \in Roles /\ b.id \in Models
        /\ result.fits => /\ Moves(t, Boot(b, "evict", result.victims, b.roles))
                          /\ UNCHANGED <<route, runtimes>>
        /\ ~ result.fits => Done(t) /\ BindSingle(b.role, b.id, Unavailable)
        /\ UNCHANGED <<live, stopped, booted>>
    BY <1>8, AdmitToPoolIs
  <2> HIDE DEF result
  <2>2. CASE result.fits
    <3>1. NoNewSwap /\ NoNewStop
      BY <1>4, <2>1, <2>2
    <3>2. QED
      BY <2>1, <2>2, <3>1 DEF Quiet
  <2>3. CASE ~ result.fits
    <3>1. NoNewSwap /\ NoNewStop /\ b.role \in Works(b)
      BY <1>2, <1>3, <2>1, <2>3
    <3>2. QED
      BY <2>1, <2>3, <3>1 DEF RoutingStep, Dims, NoNewStop
  <2>4. QED
    BY <2>2, <2>3
<1>9. CASE FindEvicted(t)
  <2>1. NoNewSwap /\ NoNewStop
    BY <1>4, <1>9, FindEvictedIs
  <2>2. UNCHANGED <<live, stopped, runtimes, route, booted>>
    BY <1>9 DEF FindEvicted, serving
  <2>3. QED
    BY <2>1, <2>2 DEF Quiet
<1>10. CASE TakeEvicted(t)
  <2> DEFINE m == Head(b.victims)
  <2>1. b \in Boots /\ b.pc = "takedown" /\ m \in Models
    BY <1>10, TakeEvictedIs
  <2>2. PICK r \in b.roles :
              /\ r \in Roles /\ TakeDown(r)
              /\ IF live[r] # NoServer THEN BindSingle(r, m, Unavailable)
                                       ELSE UNCHANGED <<route, runtimes>>
              /\ b.roles = {r} => Moves(t, Boot(b, "evict", Tail(b.victims), {}))
              /\ b.roles # {r} => Moves(t, Boot(b, "takedown", b.victims, b.roles \ {r}))
    BY <1>10, TakeEvictedIs
  <2> HIDE DEF m
  <2>3. NoNewSwap /\ NoNewStop
    BY <1>4, <2>2
  <2>4. booted' = booted /\ r \in Works(b)
    BY <1>2, <1>10, <2>1, <2>2 DEF TakeEvicted
  <2>5. CASE live[r] # NoServer
    BY <2>1, <2>2, <2>3, <2>4, <2>5 DEF RoutingStep, Dims, NoNewStop
  <2>6. CASE live[r] = NoServer
    <3>1. UNCHANGED <<live, stopped>>
      BY <1>1, <2>2, <2>6 DEF TakeDown
    <3>2. QED
      BY <2>2, <2>3, <2>4, <2>6, <3>1 DEF Quiet
  <2>7. QED
    BY <2>5, <2>6
<1>11. CASE BootSucceeds(t)
  <2> DEFINE s == [pc |-> "swap", role |-> b.role, id |-> b.id, n |-> booted + 1]
  <2>1. /\ b \in Boots /\ b.pc = "evict" /\ b.role \in Roles /\ b.id \in Models /\ Moves(t, s)
        /\ booted' = booted + 1
        /\ BindSingle(b.role, b.id, Server(b.id, booted + 1)) /\ UNCHANGED <<live, stopped>>
    BY <1>11, BootSucceedsIs
  <2>2. s.pc \notin {"stop", "rewire"}
    OBVIOUS
  <2>3. NoNewStop
    <3> HIDE DEF s
    <3> QED BY <2>1, <2>2, NoNew
  <2>4. Starts(t, b.role, b.id)
    BY <2>1, <2>3 DEF Starts
  <2>5. QED
    BY <1>2, <2>1, <2>4 DEF RoutingStep
<1>12. CASE Swap(t)
  <2>1. b.role \in Roles /\ b.role \in Works(b)
    BY <1>2, <1>12, OtherBootSteps
  <2>2. Replaces(t, b.role)
    BY <1>12, NoNewIdle DEF Replaces, Swap
  <2>3. QED
    BY <2>1, <2>2 DEF RoutingStep
<1>13. QED
  BY <1>5, <1>6, <1>7, <1>8, <1>9, <1>10, <1>11, <1>12 DEF BootStep

LEMMA ClientKinds ==
  ASSUME ServingTypeOK, NEW c \in Clients, RemoveStep(c) \/ Request(c)
  PROVE  Quiet \/ \E q \in Works(th[c]) : q \in Roles /\ RoutingStep(c, q)
<1> DEFINE b == th[c]
<1>1. /\ b \in ThreadStates /\ route \in [Roles -> Ids] /\ c \in Threads
  BY ClientsAreNotRoles DEF ServingTypeOK
<1>2. /\ b \in Stops => Works(b) = {b.role} \union b.roles
      /\ b \in Removals => Works(b) = b.roles
  BY <1>1, WorksIs
<1>3. Done(c) => NoNewSwap /\ NoNewStop
  BY <1>1, NoNewIdle
<1>4. \A s : Moves(c, s) /\ s.pc \notin {"swap", "stop", "rewire"} => NoNewSwap /\ NoNewStop
  BY <1>1, NoNew
<1>5. \A id, roles : \A at \in {"unserve", "delete", "erase", "clear"} :
        Moves(c, Removal(at, id, roles)) => NoNewSwap /\ NoNewStop
  <2>1. \A at, id, roles : Removal(at, id, roles).pc = at
    BY DEF Removal
  <2>2. QED
    BY <1>4, <2>1
<1>6. CASE \E r \in Roles, id \in Models \union {Endpoint} : BeginActivate(c, r, id)
  <2>1. PICK r \in Roles, id \in Models \union {Endpoint} : BeginActivate(c, r, id)
    BY <1>6
  <2>2. NoNewSwap /\ NoNewStop
    BY <1>4, <2>1, BeginActivateIs
  <2>3. QED
    BY <2>1, <2>2 DEF Quiet, BeginActivate, serving
<1>7. CASE \E m \in Models : BeginRemove(c, m)
  <2>1. PICK m \in Models : BeginRemove(c, m)
    BY <1>7
  <2>2. NoNewSwap /\ NoNewStop
    BY <1>5, <2>1, BeginRemoveIs
  <2>3. QED
    BY <2>1, <2>2 DEF Quiet, BeginRemove, serving
<1>8. CASE BeginEndpointRemove(c)
  <2>1. NoNewSwap /\ NoNewStop
    <3>1. Moves(c, [pc |-> "forget", id |-> Endpoint])
      BY <1>8 DEF BeginEndpointRemove, Moves
    <3>2. QED
      BY <1>4, <3>1
  <2>2. UNCHANGED <<live, stopped, runtimes, booted>>
    BY <1>8 DEF BeginEndpointRemove
  <2>3. \A r \in Roles : route'[r] \in {route[r], NoModel}
    BY <1>8 DEF BeginEndpointRemove
  <2>4. QED
    BY <2>1, <2>2, <2>3 DEF Quiet
<1>9. CASE AddEndpoint(c)
  BY <1>9 DEF AddEndpoint, Quiet, serving, NoNewSwap, NoNewStop
<1>10. CASE Unbind(c)
  <2>1. b \in Removals /\ b.pc = "unserve"
    BY <1>10, UnbindIs
  <2> DEFINE s(r) == [pc |-> "stop", id |-> b.id, roles |-> b.roles \ {r}, role |-> r]
  <2>2. PICK r \in b.roles : r \in Roles /\ BindSingle(r, NoModel, Unavailable) /\ Moves(c, s(r))
    BY <1>10, UnbindIs
  <2>3. UNCHANGED <<live, stopped, booted>>
    BY <1>10 DEF Unbind
  <2>4. s(r).pc = "stop" /\ s(r).role = r
    OBVIOUS
  <2>5. /\ NoNewSwap
        /\ \A u \in Threads :
             th'[u].pc \in {"stop", "rewire"} =>
               th'[u] = th[u] \/ (th'[u].pc = "stop" /\ th'[u].role = r /\ NoModel = NoModel)
    <3> HIDE DEF s
    <3> QED BY <1>1, <2>2, <2>4, NoNew
  <2>6. Dims(c, r, NoModel)
    BY <2>1, <2>2, <2>3, <2>5 DEF Dims
  <2>7. QED
    BY <1>2, <2>1, <2>2, <2>6 DEF RoutingStep
<1>11. CASE StopServer(c)
  <2>1. NoNewSwap /\ NoNewStop
    BY <1>5, <1>11, StopServerIs
  <2>2. b \in Stops /\ b.pc = "stop" /\ b.role \in Roles /\ TakeDown(b.role)
    BY <1>11, StopServerIs
  <2>3. UNCHANGED <<route, runtimes, booted>>
    BY <1>11 DEF StopServer
  <2>4. QED
    BY <1>2, <2>1, <2>2, <2>3 DEF RoutingStep, TakesOff
<1>12. CASE FindFiles(c) \/ DeleteFiles(c) \/ DeleteFails(c)
  <2>1. th' = th => NoNewSwap /\ NoNewStop
    BY DEF NoNewSwap, NoNewStop
  <2>2. NoNewSwap /\ NoNewStop
    BY <1>3, <1>5, <1>12, <2>1, FilesMovesIs
  <2>3. QED
    BY <1>12, <2>2 DEF Quiet, FindFiles, DeleteFiles, DeleteFails, serving
<1>13. CASE ForgetEndpoint(c)
  <2>1. NoNewSwap /\ NoNewStop
    BY <1>3, <1>4, <1>13, ForgetEndpointIs
  <2>2. QED
    BY <1>13, <2>1 DEF Quiet, ForgetEndpoint, serving
<1>14. CASE ClearRows(c)
  BY <1>3, <1>14 DEF Quiet, ClearRows, serving
<1>15. QED
  BY <1>6, <1>7, <1>8, <1>9, <1>10, <1>11, <1>12, <1>13, <1>14 DEF RemoveStep, Request

\* And so is every step.
LEMMA StepKinds ==
  ASSUME ServingTypeOK, Step, History
  PROVE  \/ Quiet /\ SwapsStay /\ RewiresStay
         \/ \E t \in Threads : \E q \in Works(th[t]) :
              q \in Roles /\ RoutingStep(t, q) /\ OthersStay(t)
<1>1. ASSUME NEW i \in Installers, Install(i) PROVE Quiet /\ SwapsStay /\ RewiresStay
  BY <1>1 DEF Install, Quiet, serving, NoNewSwap, NoNewStop, SwapsStay, RewiresStay
<1>2. ASSUME NEW t \in Threads, BootStep(t)
      PROVE  \/ Quiet /\ SwapsStay /\ RewiresStay
             \/ \E q \in Works(th[t]) :
                  q \in Roles /\ RoutingStep(t, q) /\ OthersStay(t)
  <2>1. OthersStay(t)
    BY <1>2, OnlyOneMoves
  <2>2. CASE th[t].pc = "swap"
    <3>1. Swap(t)
      BY <1>2, <2>2, SwapperSwaps
    <3>2. th[t] \in Swaps /\ th[t].role \in Roles /\ th[t] \in ThreadStates
      BY <3>1, OtherBootSteps DEF ServingTypeOK
    <3>3. th[t].role \in Works(th[t])
      BY <3>2, WorksIs
    <3>4. Replaces(t, th[t].role)
      BY <3>1, NoNewIdle DEF Replaces, Swap
    <3>5. QED
      BY <2>1, <3>2, <3>3, <3>4 DEF RoutingStep
  <2>3. ASSUME th[t].pc # "swap", Quiet
        PROVE  th[t].pc = "rewire" => route'[th[t].role] = Endpoint \/ th[t].role \in raced'
    <3>1. ASSUME th[t].pc = "rewire" PROVE Done(t)
      BY <1>2, <3>1, SwapperSwaps DEF PointAtEndpoint, EndpointFails
    <3>2. ASSUME th[t].pc = "rewire" PROVE t \in Quits("rewire") /\ th[t].role \in Roles
      <4>1. th'[t] = Idle
        BY <3>1, <3>2, NoNewIdle, NoNew
      <4>2. th[t].role \in Roles
        BY <1>2, <3>2, SwapperSwaps, OtherBootSteps
      <4>3. QED
        BY <3>2, <4>1, <4>2 DEF Quits
    <3>3. QED
      BY <3>2 DEF History
  <2>4. CASE th[t].pc # "swap"
    BY <1>2, <2>1, <2>3, <2>4, BootKinds DEF SwapsStay, RewiresStay, OthersStay
  <2>5. QED
    BY <2>2, <2>4
<1>3. ASSUME NEW c \in Clients, RemoveStep(c) \/ Request(c)
      PROVE  \/ Quiet /\ SwapsStay /\ RewiresStay
             \/ \E q \in Works(th[c]) :
                  q \in Roles /\ RoutingStep(c, q) /\ OthersStay(c)
  <2>1. OthersStay(c) /\ SwapsStay /\ RewiresStay
    BY <1>3, OnlyOneMoves, SwapperSwaps DEF SwapsStay, RewiresStay, OthersStay
  <2>2. QED
    BY <1>3, <2>1, ClientKinds
<1>4. QED
  BY <1>1, <1>2, <1>3, ClientsAreNotRoles DEF Step

-----------------------------------------------------------------------------
(* No two servers have the same number.                                    *)

NumbersInv ==
  /\ \A r \in Roles : live[r] # NoServer => live[r].n <= booted
  /\ \A s \in stopped : s.n <= booted
  /\ \A t \in Threads : th[t].pc = "swap" => th[t].n <= booted
  /\ \A r, q \in Roles :
       live[r] # NoServer /\ live[q] # NoServer /\ r # q => live[r].n # live[q].n
  /\ \A r \in Roles, s \in stopped : live[r] # NoServer => live[r].n # s.n
  /\ \A t \in Threads : th[t].pc = "swap" =>
       /\ \A r \in Roles : live[r] # NoServer => live[r].n # th[t].n
       /\ \A s \in stopped : s.n # th[t].n
       /\ \A u \in Threads : th[u].pc = "swap" /\ u # t => th[u].n # th[t].n

\* A step that registers no server keeps the numbers.
LEMMA NumbersKept ==
  ASSUME ServingTypeOK, NumbersInv, NoNewSwap, UNCHANGED booted,
         UNCHANGED <<live, stopped>> \/ \E q \in Roles : TakeDown(q)
  PROVE  NumbersInv'
<1>1. /\ \A r \in Roles : live'[r] # NoServer => live'[r] = live[r]
      /\ \A s \in stopped' \ stopped :
           \E q \in Roles : s = live[q] /\ live[q] # NoServer /\ live'[q] = NoServer
  BY DEF TakeDown, ServingTypeOK
<1>2. QED
  BY <1>1 DEF NumbersInv, NoNewSwap

LEMMA NumbersStart ==
  ASSUME ServingTypeOK, NumbersInv, NEW t \in Threads, NEW q \in Roles, NEW id \in Models,
         Starts(t, q, id)
  PROVE  NumbersInv'
<1> DEFINE s == [pc |-> "swap", role |-> q, id |-> id, n |-> booted + 1]
<1>1. th'[t] = s /\ \A u \in Threads \ {t} : th'[u] = th[u]
  <2>1. Moves(t, s)
    BY DEF Starts
  <2> HIDE DEF s
  <2>2. QED
    BY <2>1, NoNew
<1>2. s.n = booted + 1 /\ booted' = booted + 1 /\ live' = live /\ stopped' = stopped
  BY DEF Starts
<1>3. /\ booted \in Nat /\ \A r \in Roles : live[r] # NoServer => live[r].n \in Nat
      /\ \A x \in stopped : x.n \in Nat
      /\ \A u \in Threads : th[u].pc = "swap" => th[u].n \in Nat
  BY ThreadTyped DEF ServingTypeOK, Servers
<1> HIDE DEF s
<1>4. \A u \in Threads : th'[u].pc = "swap" => u = t \/ th'[u] = th[u]
  BY <1>1
<1>5. QED
  BY <1>1, <1>2, <1>3, <1>4 DEF NumbersInv

LEMMA NumbersSwap ==
  ASSUME ServingTypeOK, NumbersInv, NEW t \in Threads, NEW q \in Roles, Replaces(t, q)
  PROVE  NumbersInv'
<1>1. /\ \A u \in Threads : th'[u].pc = "swap" => th'[u] = th[u] /\ u # t
      /\ th[t].pc = "swap" /\ booted' = booted
  <2>1. th'[t] = Idle /\ \A u \in Threads \ {t} : th'[u] = th[u]
    BY NoNew DEF Replaces
  <2>2. QED
    BY <2>1 DEF Replaces, Idle
<1>2. /\ \A r \in Roles \ {q} : live'[r] = live[r]
      /\ live'[q].n = th[t].n
      /\ \A s \in stopped' \ stopped : s = live[q] /\ live[q] # NoServer
  BY DEF Replaces, Server, ServingTypeOK
<1>3. QED
  BY <1>1, <1>2 DEF NumbersInv

LEMMA NumbersStep ==
  ASSUME ServingTypeOK, NumbersInv, Step, History
  PROVE  NumbersInv'
<1>1. CASE Quiet
  BY <1>1, NumbersKept DEF Quiet
<1>2. ASSUME NEW t \in Threads, NEW q \in Works(th[t]), q \in Roles, RoutingStep(t, q)
      PROVE  NumbersInv'
  BY <1>2, NumbersKept, NumbersStart, NumbersSwap DEF RoutingStep, Dims, Silences, TurnsOut, TakesOff
<1>3. QED
  BY <1>1, <1>2, StepKinds

-----------------------------------------------------------------------------
(* Where a role is routed and what is registered for it.                   *)

\* What holds of the route to r, to what rt, its worker being of use to no
\* other role.
Routed(r) ==
  /\ route[r] = Endpoint => live[r] = NoServer
  /\ \A t \in Threads : Swapping(t, r) => route[r] # Endpoint
  /\ \A t \in Threads : th[t].pc = "stop" /\ th[t].role = r => route[r] = NoModel
  /\ \A t \in Threads : Rewiring(t, r) => live[r] = NoServer
  /\ route[r] \notin shared /\ IsServer(runtimes[route[r]])
        /\ (\A t \in Threads : ~ Rewiring(t, r)) =>
       /\ \A t \in Threads : Swapping(t, r) => runtimes[route[r]] = Server(th[t].id, th[t].n)
       /\ (\A t \in Threads : ~ Swapping(t, r)) => runtimes[route[r]] = live[r]

OneWorker(r) == \A t, u \in Threads : r \in Works(th[t]) /\ r \in Works(th[u]) => t = u

RouteInv == \A r \in Roles \ raced : OneWorker(r) /\ Routed(r)

\* Two who work on one role race for it, from the step in which they begin.
LEMMA OneWorkerStep ==
  ASSUME TypeInv', History
  PROVE  \A r \in Roles \ raced' : OneWorker(r)'
<1>1. th' \in [Threads -> ThreadStates]
  BY DEF TypeInv, ServingTypeOK
<1>2. ASSUME NEW r \in Roles \ raced', NEW t \in Threads, NEW u \in Threads,
             r \in Works(th'[t]), r \in Works(th'[u])
      PROVE  t = u
  <2>1. r \notin Overlap(th', Works)
    BY <1>2 DEF History
  <2>2. QED
    BY <1>1, <1>2, <2>1, OverlapIs
<1>3. QED
  BY <1>2 DEF OneWorker

LEMMA WorkersOf ==
  ASSUME ServingTypeOK, NEW t \in Threads
  PROVE  \A r : /\ Swapping(t, r) \/ Rewiring(t, r) => r \in Works(th[t])
                /\ th[t].pc = "stop" /\ th[t].role = r => r \in Works(th[t])
<1>1. th[t] \in ThreadStates
  BY DEF ServingTypeOK
<1>2. QED
  BY <1>1, ThreadIs, WorksIs DEF Swapping, Rewiring

\* The steps that leave r to whom it belongs.
LEMMA RoutedElsewhere ==
  ASSUME TypeInv, TypeInv', NEW r \in Roles, Routed(r), shared \subseteq shared',
         live'[r] = live[r],
         \/ route'[r] = NoModel
         \/ route'[r] = route[r] /\ (runtimes'[route[r]] = runtimes[route[r]] \/ route[r] \in shared'
                                      \/ route[r] \in {Endpoint, NoModel}),
         \A u \in Threads :
           /\ Swapping(u, r) => th'[u] = th[u]
           /\ Swapping(u, r)' => th'[u] = th[u]
           /\ Rewiring(u, r) => th'[u] = th[u] \/ route'[r] = Endpoint
           /\ Rewiring(u, r)' => th'[u] = th[u]
           /\ th'[u].pc = "stop" /\ th'[u].role = r => th'[u] = th[u] \/ route'[r] = NoModel
  PROVE  Routed(r)'
<1>1. /\ runtimes'[NoModel] = Unavailable /\ runtimes'[Endpoint] = External
      /\ ~ IsServer(Unavailable) /\ ~ IsServer(External) /\ NoModel # Endpoint
  BY KindsDiffer, ServingAssumption DEF TypeInv, ServingTypeOK
<1>2. \A t \in Threads : Rewiring(t, r)' => live'[r] = NoServer
  BY DEF Routed, Rewiring
<1>3. CASE route'[r] = NoModel
  BY <1>1, <1>2, <1>3 DEF Routed
<1>4. CASE route'[r] = route[r] /\ route[r] # NoModel
  <2>1. route'[r] = Endpoint => live'[r] = NoServer
    BY <1>4 DEF Routed
  <2>2. \A t \in Threads : Swapping(t, r)' => route'[r] # Endpoint
    BY <1>4 DEF Routed, Swapping
  <2>3. \A t \in Threads : th'[t].pc = "stop" /\ th'[t].role = r => route'[r] = NoModel
    BY <1>4 DEF Routed
  <2>4. ASSUME route'[r] \notin shared', IsServer(runtimes'[route'[r]]),
               \A t \in Threads : ~ Rewiring(t, r)'
        PROVE  /\ runtimes'[route'[r]] = runtimes[route[r]] /\ route[r] \notin shared
               /\ IsServer(runtimes[route[r]]) /\ \A t \in Threads : ~ Rewiring(t, r)
    <3>1. route'[r] # Endpoint
      BY <1>1, <2>4
    <3>2. \A t \in Threads : ~ Rewiring(t, r)
      BY <2>4, <3>1 DEF Rewiring
    <3>3. QED
      BY <1>1, <1>4, <2>4, <3>2
  <2>5. ASSUME route'[r] \notin shared', IsServer(runtimes'[route'[r]]),
               \A t \in Threads : ~ Rewiring(t, r)'
        PROVE  /\ \A t \in Threads : Swapping(t, r)' =>
                    runtimes'[route'[r]] = Server(th'[t].id, th'[t].n)
               /\ (\A t \in Threads : ~ Swapping(t, r)') => runtimes'[route'[r]] = live'[r]
    BY <2>4, <2>5 DEF Routed, Swapping
  <2>6. QED
    BY <1>2, <2>1, <2>2, <2>3, <2>5 DEF Routed
<1>5. QED
  BY <1>3, <1>4

\* A placeholder is in place of whatever r was routed to.
LEMMA RoutedToNothing ==
  ASSUME TypeInv, TypeInv', NEW r \in Roles, route'[r] # Endpoint,
         ~ IsServer(runtimes'[route'[r]]),
         \A u \in Threads :
           /\ th'[u].pc = "stop" /\ th'[u].role = r => route'[r] = NoModel
           /\ ~ Rewiring(u, r)'
  PROVE  Routed(r)'
  BY DEF Routed

\* Every step keeps the roles nobody raced for routed to their own servers.
LEMMA RoutedStep ==
  ASSUME TypeInv, TypeInv', shared \subseteq shared', History, NEW t \in Threads,
         NEW q \in Roles, q \in Works(th[t]), RoutingStep(t, q), OthersStay(t), NEW r \in Roles,
         OneWorker(r), Routed(r)
  PROVE  Routed(r)'
<1>1. /\ route \in [Roles -> Ids] /\ live \in [Roles -> {NoServer} \union Servers]
      /\ runtimes \in [Ids -> {Unavailable, External} \union Servers] /\ ServingTypeOK
      /\ runtimes[Endpoint] = External /\ runtimes[NoModel] = Unavailable
  BY DEF TypeInv, ServingTypeOK
<1>2. /\ ~ IsServer(Unavailable) /\ ~ IsServer(External) /\ NoModel # Endpoint
      /\ NoModel \notin Models /\ Endpoint \notin Models
      /\ NoModel \in Ids /\ Endpoint \in Ids /\ Models \subseteq Ids
  BY KindsDiffer, ServingAssumption DEF Ids
<1>3. q = r => \A u \in Threads :
        Swapping(u, r) \/ Rewiring(u, r) \/ (th[u].pc = "stop" /\ th[u].role = r) => u = t
  BY <1>1, WorkersOf DEF OneWorker
<1>4. \A id : q # r /\ route'[r] = id /\ route'[q] = id /\ id \in Models => id \in shared'
  BY DEF History
<1>5. ASSUME NEW id \in Models \union {NoModel}, Dims(t, q, id) PROVE Routed(r)'
  <2>1. /\ route' = [route EXCEPT ![q] = id] /\ runtimes' = [runtimes EXCEPT ![id] = Unavailable]
        /\ NoNewSwap /\ th[t].pc \notin {"swap", "stop", "rewire"}
        /\ \A u \in Threads :
             th'[u].pc \in {"stop", "rewire"} =>
               th'[u] = th[u] \/ (th'[u].pc = "stop" /\ th'[u].role = q /\ id = NoModel)
    BY <1>5 DEF Dims, BindSingle
  <2>2. CASE q = r
    <3>1. route'[r] = id /\ runtimes'[id] = Unavailable
      BY <1>1, <1>2, <2>1, <2>2
    <3>2. \A u \in Threads :
            /\ th'[u].pc = "stop" /\ th'[u].role = r => route'[r] = NoModel
            /\ ~ Rewiring(u, r)'
      BY <1>3, <2>1, <2>2, <3>1 DEF Rewiring
    <3>3. QED
      BY <1>2, <3>1, <3>2, RoutedToNothing
  <2>3. CASE q # r
    <3>1. route'[r] = route[r] /\ route'[q] = id
      BY <1>1, <2>1, <2>3
    <3>2. live'[r] = live[r]
      BY <1>1, <1>5, <2>3 DEF Dims, TakeDown
    <3>3. runtimes'[route[r]] = runtimes[route[r]] \/ route[r] \in shared' \/ route[r] = NoModel
      BY <1>1, <1>4, <2>1, <2>3, <3>1
    <3>4. \A u \in Threads :
            /\ Swapping(u, r) => th'[u] = th[u]
            /\ Swapping(u, r)' => th'[u] = th[u]
            /\ Rewiring(u, r) \/ Rewiring(u, r)' => th'[u] = th[u]
            /\ th'[u].pc = "stop" /\ th'[u].role = r => th'[u] = th[u]
      BY <2>1, <2>3 DEF NoNewSwap, OthersStay, Swapping, Rewiring
    <3>5. QED
      BY <3>1, <3>2, <3>3, <3>4, RoutedElsewhere
  <2>4. QED
    BY <2>2, <2>3
<1>6. CASE TurnsOut(t, q)
  <2>1. /\ route' = [route EXCEPT ![q] = Endpoint]
        /\ runtimes' = [runtimes EXCEPT ![Endpoint] = External]
        /\ NoNewSwap /\ NoNewStop /\ th[t].pc = "rewire" /\ q = th[t].role
        /\ live' = live
    BY <1>6 DEF TurnsOut, BindSingle
  <2>2. CASE q = r
    <3>1. route'[r] = Endpoint /\ runtimes'[Endpoint] = External
      BY <1>1, <1>2, <2>1, <2>2
    <3>2. live'[r] = NoServer
      BY <2>1, <2>2 DEF Routed, Rewiring
    <3>3. \A u \in Threads : ~ Swapping(u, r)' /\ ~ (th'[u].pc = "stop" /\ th'[u].role = r)
      BY <1>3, <2>1, <2>2 DEF NoNewSwap, NoNewStop, Swapping
    <3>4. QED
      BY <1>2, <3>1, <3>2, <3>3 DEF Routed
  <2>3. CASE q # r
    <3>1. route'[r] = route[r] /\ runtimes' = runtimes /\ live'[r] = live[r]
      BY <1>1, <2>1, <2>3
    <3>2. \A u \in Threads :
            /\ Swapping(u, r) => th'[u] = th[u]
            /\ Swapping(u, r)' => th'[u] = th[u]
            /\ Rewiring(u, r) \/ Rewiring(u, r)' => th'[u] = th[u]
            /\ th'[u].pc = "stop" /\ th'[u].role = r => th'[u] = th[u]
      BY <2>1, <2>3 DEF NoNewSwap, NoNewStop, OthersStay, Swapping, Rewiring
    <3>3. QED
      BY <3>1, <3>2, RoutedElsewhere
  <2>4. QED
    BY <2>2, <2>3
<1>7. ASSUME NEW id \in Models, Starts(t, q, id) PROVE Routed(r)'
  <2> DEFINE s == [pc |-> "swap", role |-> q, id |-> id, n |-> booted + 1]
  <2>1. /\ route' = [route EXCEPT ![q] = id]
        /\ runtimes' = [runtimes EXCEPT ![id] = Server(id, booted + 1)]
        /\ NoNewStop /\ th[t].pc \notin {"swap", "stop", "rewire"} /\ live' = live /\ Moves(t, s)
    BY <1>7 DEF Starts, BindSingle
  <2>2. s.pc = "swap" /\ s.role = q /\ Server(s.id, s.n) = Server(id, booted + 1)
    OBVIOUS
  <2> HIDE DEF s
  <2>3. th'[t] = s
    BY <1>1, <2>1, NoNew
  <2>4. CASE q = r
    <3>1. route'[r] = id /\ runtimes'[id] = Server(s.id, s.n)
      BY <1>1, <1>2, <2>1, <2>2, <2>4
    <3>2. \A u \in Threads : /\ Swapping(u, r)' => u = t
                             /\ ~ (th'[u].pc = "stop" /\ th'[u].role = r)
                             /\ ~ Rewiring(u, r)'
      BY <1>3, <2>1, <2>4 DEF NoNewStop, OthersStay, Swapping, Rewiring
    <3>3. Swapping(t, r)'
      BY <2>2, <2>3, <2>4 DEF Swapping
    <3>4. QED
      BY <1>2, <2>3, <3>1, <3>2, <3>3 DEF Routed
  <2>5. CASE q # r
    <3>1. route'[r] = route[r] /\ route'[q] = id /\ live'[r] = live[r]
      BY <1>1, <2>1, <2>5
    <3>2. runtimes'[route[r]] = runtimes[route[r]] \/ route[r] \in shared'
      BY <1>1, <1>4, <2>1, <2>5, <3>1
    <3>3. \A u \in Threads :
            /\ Swapping(u, r) => th'[u] = th[u]
            /\ Swapping(u, r)' => th'[u] = th[u]
            /\ Rewiring(u, r) \/ Rewiring(u, r)' => th'[u] = th[u]
            /\ th'[u].pc = "stop" /\ th'[u].role = r => th'[u] = th[u]
      BY <2>1, <2>2, <2>3, <2>5 DEF NoNewStop, OthersStay, Swapping, Rewiring
    <3>4. QED
      BY <3>1, <3>2, <3>3, RoutedElsewhere
  <2>6. QED
    BY <2>4, <2>5
<1>8. CASE Replaces(t, q)
  <2>1. /\ th[t].pc = "swap" /\ q = th[t].role
        /\ live' = [live EXCEPT ![q] = Server(th[t].id, th[t].n)]
        /\ route' = route /\ runtimes' = runtimes /\ th'[t] = Idle
    BY <1>1, <1>8, NoNew DEF Replaces
  <2>2. \A u \in Threads : th'[u].pc \in {"swap", "stop", "rewire"} => u # t /\ th'[u] = th[u]
    BY <2>1 DEF OthersStay, Idle
  <2>3. CASE q = r
    <3>1. live'[r] = Server(th[t].id, th[t].n) /\ Swapping(t, r)
      BY <1>1, <2>1, <2>3 DEF Swapping
    <3>2. \A u \in Threads : /\ ~ Swapping(u, r)' /\ ~ Rewiring(u, r)'
                             /\ ~ (th'[u].pc = "stop" /\ th'[u].role = r)
      BY <1>3, <2>2, <2>3 DEF Swapping, Rewiring
    <3>3. \A u \in Threads : ~ Rewiring(u, r)
      BY <1>3, <2>1, <2>3 DEF Rewiring
    <3>4. QED
      BY <2>1, <3>1, <3>2, <3>3 DEF Routed
  <2>4. CASE q # r
    <3>1. live'[r] = live[r]
      BY <1>1, <2>1, <2>4
    <3>2. \A u \in Threads :
            /\ Swapping(u, r) => th'[u] = th[u]
            /\ Swapping(u, r)' => th'[u] = th[u]
            /\ Rewiring(u, r) \/ Rewiring(u, r)' => th'[u] = th[u]
            /\ th'[u].pc = "stop" /\ th'[u].role = r => th'[u] = th[u]
      BY <2>1, <2>2, <2>4 DEF OthersStay, Swapping, Rewiring
    <3>3. QED
      BY <2>1, <3>1, <3>2, RoutedElsewhere
  <2>5. QED
    BY <2>3, <2>4
<1>9. CASE TakesOff(t, q)
  <2>1. /\ th[t].pc = "stop" /\ q = th[t].role /\ NoNewSwap /\ NoNewStop
        /\ route' = route /\ runtimes' = runtimes
        /\ live' = [live EXCEPT ![q] = NoServer]
    BY <1>9 DEF TakesOff, TakeDown
  <2>2. CASE q = r
    <3>1. route'[r] = NoModel
      BY <2>1, <2>2 DEF Routed
    <3>2. \A u \in Threads : ~ Rewiring(u, r)'
      BY <1>3, <2>1, <2>2 DEF NoNewStop, Rewiring
    <3>3. QED
      BY <1>1, <1>2, <2>1, <3>1, <3>2, RoutedToNothing
  <2>3. CASE q # r
    <3>1. live'[r] = live[r]
      BY <1>1, <2>1, <2>3
    <3>2. \A u \in Threads :
            /\ Swapping(u, r) => th'[u] = th[u]
            /\ Swapping(u, r)' => th'[u] = th[u]
            /\ Rewiring(u, r) \/ Rewiring(u, r)' => th'[u] = th[u]
            /\ th'[u].pc = "stop" /\ th'[u].role = r => th'[u] = th[u]
      BY <2>1, <2>3 DEF NoNewSwap, NoNewStop, OthersStay, Swapping, Rewiring
    <3>3. QED
      BY <2>1, <3>1, <3>2, RoutedElsewhere
  <2>4. QED
    BY <2>2, <2>3
<1>10. CASE Silences(t, q)
  <2>1. /\ th[t].pc = "point" /\ q = th[t].role /\ route' = route /\ runtimes' = runtimes
        /\ live' = [live EXCEPT ![q] = NoServer]
        /\ th'[t].pc = "rewire" /\ th'[t].role = q /\ NoNewSwap
    BY <1>10 DEF Silences, TakeDown
  <2>2. CASE q = r
    <3>1. live'[r] = NoServer /\ Rewiring(t, r)'
      BY <1>1, <2>1, <2>2 DEF Rewiring
    <3>2. \A u \in Threads : ~ Swapping(u, r)' /\ ~ (th'[u].pc = "stop" /\ th'[u].role = r)
      BY <1>3, <2>1, <2>2 DEF NoNewSwap, OthersStay, Swapping
    <3>3. QED
      BY <3>1, <3>2 DEF Routed
  <2>3. CASE q # r
    <3>1. live'[r] = live[r]
      BY <1>1, <2>1, <2>3
    <3>2. \A u \in Threads :
            /\ Swapping(u, r) => th'[u] = th[u]
            /\ Swapping(u, r)' => th'[u] = th[u]
            /\ Rewiring(u, r) \/ Rewiring(u, r)' => th'[u] = th[u]
            /\ th'[u].pc = "stop" /\ th'[u].role = r => th'[u] = th[u]
      BY <2>1, <2>3 DEF NoNewSwap, OthersStay, Swapping, Rewiring
    <3>3. QED
      BY <2>1, <3>1, <3>2, RoutedElsewhere
  <2>4. QED
    BY <2>2, <2>3
<1>11. QED
  BY <1>5, <1>6, <1>7, <1>8, <1>9, <1>10 DEF RoutingStep

LEMMA RouteStep ==
  ASSUME TypeInv, RouteInv, [Next]_vars
  PROVE  RouteInv'
<1>1. CASE UNCHANGED vars
  BY <1>1 DEF vars, serving, RouteInv, OneWorker, Routed, Swapping, Rewiring
<1>2. CASE Step /\ History
  <2>1. TypeInv' /\ raced \subseteq raced' /\ shared \subseteq shared'
    BY <1>2, TypeStep DEF Next
  <2>2. \A r \in Roles \ raced' : OneWorker(r)'
    BY <1>2, <2>1, OneWorkerStep
  <2>3. ASSUME NEW r \in Roles \ raced' PROVE Routed(r)'
    <3>1. OneWorker(r) /\ Routed(r)
      BY <2>1 DEF RouteInv
    <3>2. CASE Quiet /\ SwapsStay /\ RewiresStay
      <4>1. /\ live' = live /\ runtimes' = runtimes /\ route'[r] \in {route[r], NoModel}
            /\ NoNewSwap /\ NoNewStop /\ SwapsStay /\ RewiresStay
        BY <3>2 DEF Quiet
      <4>2. \A u \in Threads :
              /\ Swapping(u, r) => th'[u] = th[u]
              /\ Swapping(u, r)' => th'[u] = th[u]
              /\ Rewiring(u, r) => th'[u] = th[u] \/ route'[r] = Endpoint
              /\ Rewiring(u, r)' => th'[u] = th[u]
              /\ th'[u].pc = "stop" /\ th'[u].role = r => th'[u] = th[u]
        BY <4>1 DEF NoNewSwap, NoNewStop, SwapsStay, RewiresStay, Swapping, Rewiring
      <4>3. QED
        BY <2>1, <3>1, <4>1, <4>2, RoutedElsewhere
    <3>3. ASSUME NEW t \in Threads, NEW q \in Works(th[t]), q \in Roles, RoutingStep(t, q),
                 OthersStay(t)
          PROVE  Routed(r)'
      BY <1>2, <2>1, <3>1, <3>3, RoutedStep
    <3>4. QED
      BY <1>2, <3>2, <3>3, StepKinds DEF TypeInv
  <2>4. QED
    BY <2>2, <2>3 DEF RouteInv
<1>3. QED
  BY <1>1, <1>2 DEF Next

\* The runtime starts routed to what it has registered.
LEMMA InitServing ==
  Init => NumbersInv /\ RouteInv
<1>1. SUFFICES ASSUME Init PROVE NumbersInv /\ RouteInv
  OBVIOUS
<1>2. PICK o \in Openings :
    /\ live = [r \in Roles |-> NoServer] /\ stopped = {} /\ booted = 0
    /\ runtimes = [id \in Ids |-> IF id = Endpoint THEN External ELSE Unavailable]
    /\ th = [t \in Threads |->
               IF t \in Roles /\ o.boots[t] # NoModel
                 THEN [pc |-> "admit", role |-> t, id |-> o.boots[t], victims |-> <<>>,
                       roles |-> {}]
                 ELSE Idle]
  BY <1>1 DEF Init
<1>3. \A t \in Threads : th[t].pc \notin {"swap", "stop", "rewire"}
  BY <1>2 DEF Idle
<1>4. \A t \in Threads : Works(th[t]) \subseteq {t}
  <2>1. \A m : \A t \in Threads : Works([pc |-> "admit", role |-> t, id |-> m, victims |-> <<>>,
                                     roles |-> {}]) = {t}
    BY DEF Works, Idle
  <2>2. Works(Idle) = {}
    BY DEF Works
  <2>3. QED
    BY <1>2, <2>1, <2>2
<1>5. NumbersInv
  BY <1>2, <1>3 DEF NumbersInv
<1>6. route \in [Roles -> Ids]
  BY <1>1, InitType DEF TypeInv, ServingTypeOK
<1>7. \A r \in Roles : ~ IsServer(runtimes[route[r]])
  BY <1>2, <1>6, KindsDiffer
<1>8. QED
  <2>1. \A r \in Roles : OneWorker(r)
    BY <1>4 DEF OneWorker
  <2>2. \A r \in Roles : live[r] = NoServer
    BY <1>2
  <2>3. \A r \in Roles : Routed(r)
    BY <1>3, <1>7, <2>2 DEF Routed, Swapping, Rewiring
  <2>4. QED
    BY <1>5, <2>1, <2>3 DEF RouteInv

\* A role is routed to a server only if that server is registered for it, and
\* a registered server is what its role is routed to, as long as operations
\* keep to roles and models of their own; a stopped server is neither.
THEOREM RolesReachTheirServers ==
  Spec => []RoutedToItsServer
<1> DEFINE Inv == TypeInv /\ NumbersInv /\ RouteInv
<1>1. Init => Inv
  BY InitType, InitServing
<1>2. Inv /\ [Next]_vars => Inv'
  <2>1. ASSUME Inv, UNCHANGED vars PROVE NumbersInv'
    BY <2>1 DEF vars, serving, NumbersInv
  <2>2. QED
    BY <2>1, TypeStep, NumbersStep, RouteStep DEF Next, TypeInv
<1>3. Inv => RoutedToItsServer
  <2>1. ASSUME Inv, NEW r \in Roles, Untouched(r), Apart(r, route[r])
        PROVE  /\ IsServer(runtimes[route[r]]) =>
                    live[r] = runtimes[route[r]] /\ live[r] \notin stopped
               /\ live[r] # NoServer => runtimes[route[r]] \in {live[r], Unavailable}
    <3>1. /\ route \in [Roles -> Ids] /\ ServingTypeOK
          /\ runtimes \in [Ids -> {Unavailable, External} \union Servers]
          /\ live[r] \in {NoServer} \union Servers
          /\ \A m \in Ids : runtimes[m] = External => m = Endpoint
      BY <2>1, KindsDiffer DEF TypeInv, ServingTypeOK, Ids
    <3>2. \A t \in Threads : ~ Swapping(t, r) /\ ~ Rewiring(t, r)
      BY <2>1, <3>1, WorkersOf DEF Untouched
    <3>3. Routed(r) /\ route[r] \notin shared
      BY <2>1 DEF RouteInv, Apart
    <3>4. IsServer(runtimes[route[r]]) => runtimes[route[r]] = live[r]
      BY <3>2, <3>3 DEF Routed
    <3>5. IsServer(live[r]) => live[r] \notin stopped
      BY <2>1, <3>1, KindsDiffer DEF NumbersInv, NoServer
    <3>6. live[r] # NoServer => runtimes[route[r]] # External
      BY <3>1, <3>3 DEF Routed
    <3>7. QED
      BY <3>1, <3>4, <3>5, <3>6, KindsDiffer
  <2>2. QED
    BY <2>1 DEF RoutedToItsServer
<1>4. QED
  BY <1>1, <1>2, <1>3, PTL DEF Spec

-----------------------------------------------------------------------------
(* The pool knows of the models of the servers.                            *)

Admitted(s) == s.pc \in {"evict", "takedown", "swap"}

\* Who is in state s has yet to stop the server of r if that is one of m.
Owing(s, r, m) ==
  /\ s.pc \in {"evict", "takedown"}
  /\ \E i \in DOMAIN s.victims : s.victims[i] = m /\ (s.pc = "takedown" /\ i = 1 => r \in s.roles)

Accounted(m, p, missed) == Resident(p, m) \/ m \in missed

PoolInv ==
  /\ \A t \in Threads : Admitted(th[t]) => Accounted(th[t].id, pool, unaccounted)
  /\ \A r \in Roles : live[r] # NoServer =>
       Accounted(live[r].id, pool, unaccounted) \/ \E t \in Threads : Owing(th[t], r, live[r].id)

\* The steps that neither admit nor put a server in place.
LEMMA PoolKept ==
  ASSUME PoolInv, pool' = pool, unaccounted \subseteq unaccounted', NEW t \in Threads,
         OthersStay(t), \A r \in Roles : live'[r] # NoServer => live'[r] = live[r],
         Admitted(th'[t]) => Admitted(th[t]) /\ th'[t].id = th[t].id,
         \A r \in Roles : live'[r] # NoServer /\ Owing(th[t], r, live[r].id) =>
                            Owing(th'[t], r, live[r].id)
  PROVE  PoolInv'
<1>1. \A m : Accounted(m, pool, unaccounted) => Accounted(m, pool', unaccounted')
  BY DEF Accounted
<1>2. ASSUME NEW u \in Threads, Admitted(th'[u]) PROVE Accounted(th'[u].id, pool', unaccounted')
  <2>1. Admitted(th[u]) /\ th'[u].id = th[u].id
    BY <1>2 DEF OthersStay
  <2>2. QED
    BY <1>1, <2>1 DEF PoolInv
<1>3. ASSUME NEW r \in Roles, live'[r] # NoServer
      PROVE  Accounted(live'[r].id, pool', unaccounted') \/ \E u \in Threads : Owing(th'[u], r, live'[r].id)
  <2>1. live'[r] = live[r]
    BY <1>3
  <2>2. CASE Accounted(live[r].id, pool, unaccounted)
    BY <1>1, <2>1, <2>2
  <2>3. ASSUME NEW u \in Threads, Owing(th[u], r, live[r].id)
        PROVE  Owing(th'[u], r, live[r].id)
    BY <1>3, <2>3 DEF OthersStay
  <2>4. QED
    BY <1>3, <2>1, <2>2, <2>3 DEF PoolInv
<1>4. PoolInv' <=>
        /\ \A u \in Threads : Admitted(th'[u]) => Accounted(th'[u].id, pool', unaccounted')
        /\ \A r \in Roles : live'[r] # NoServer =>
             Accounted(live'[r].id, pool', unaccounted') \/ \E u \in Threads : Owing(th'[u], r, live'[r].id)
  BY DEF PoolInv
<1>5. QED
  BY <1>2, <1>3, <1>4

\* Who was not admitted, and is not now.
LEMMA PoolAside ==
  ASSUME PoolInv, pool' = pool, unaccounted \subseteq unaccounted', NEW t \in Threads,
         OthersStay(t), \A r \in Roles : live'[r] # NoServer => live'[r] = live[r],
         ~ Admitted(th[t]), ~ Admitted(th'[t])
  PROVE  PoolInv'
<1>1. \A r, m : ~ Owing(th[t], r, m)
  BY DEF Owing, Admitted
<1>2. QED
  BY <1>1, PoolKept

\* A client admits nobody; it only takes servers down.
LEMMA PoolClient ==
  ASSUME ServingTypeOK, PoolInv, unaccounted \subseteq unaccounted', NEW c \in Clients,
         RemoveStep(c) \/ Request(c)
  PROVE  PoolInv'
<1> DEFINE b == th[c]
<1>1. c \in Threads /\ OthersStay(c) /\ live \in [Roles -> {NoServer} \union Servers]
  BY ClientsAreNotRoles, OnlyOneMoves DEF ServingTypeOK
<1>2. pool' = pool /\ \A r \in Roles : live'[r] # NoServer => live'[r] = live[r]
  BY <1>1
     DEF RemoveStep, Request, Unbind, StopServer, FindFiles, DeleteFiles, DeleteFails,
         ForgetEndpoint, ClearRows, BeginActivate, BeginRemove, BeginEndpointRemove, AddEndpoint, TakeDown, disk, serving
<1>3. Done(c) => ~ Admitted(th'[c])
  <2>1. ~ Admitted(Idle)
    BY DEF Admitted, Idle
  <2>2. QED
    BY <1>1, <2>1, DoneIs, NoNew
<1>4. \A s : Moves(c, s) /\ ~ Admitted(s) => ~ Admitted(th'[c])
  BY <1>1, NoNew
<1>5. \A id, roles : \A at \in {"unserve", "delete", "erase", "clear"} :
        Moves(c, Removal(at, id, roles)) => ~ Admitted(th'[c])
  <2>1. \A id, roles : \A at \in {"unserve", "delete", "erase", "clear"} :
          ~ Admitted(Removal(at, id, roles))
    BY DEF Removal, Admitted
  <2>2. QED
    BY <1>4, <2>1
<1>6. CASE th' = th
  BY <1>1, <1>2, <1>6, PoolKept
<1>7. CASE Request(c) /\ th' # th
  <2>1. ~ Admitted(b)
    BY <1>7 DEF Request, BeginActivate, BeginRemove, BeginEndpointRemove, AddEndpoint, InFlight,
                Admitted, Idle
  <2>2. ~ Admitted(th'[c])
    <3>1. ASSUME NEW r \in Roles, NEW id \in Models \union {Endpoint}, BeginActivate(c, r, id)
          PROVE  ~ Admitted(th'[c])
      <4>1. PICK s \in Boots \union Externals : Moves(c, s) /\ s.pc \in {"external", "bind"}
        BY <3>1, BeginActivateIs
      <4>2. ~ Admitted(s)
        BY <4>1 DEF Admitted
      <4>3. QED
        BY <1>4, <4>1, <4>2
    <3>2. ASSUME NEW m \in Models, BeginRemove(c, m) PROVE ~ Admitted(th'[c])
      BY <1>5, <3>2, BeginRemoveIs
    <3>3. BeginEndpointRemove(c) => ~ Admitted(th'[c])
      <4>1. BeginEndpointRemove(c) => Moves(c, [pc |-> "forget", id |-> Endpoint])
        BY DEF BeginEndpointRemove, Moves
      <4>2. ~ Admitted([pc |-> "forget", id |-> Endpoint])
        BY DEF Admitted
      <4>3. QED
        BY <1>4, <4>1, <4>2
    <3>4. QED
      BY <1>7, <3>1, <3>2, <3>3 DEF Request, AddEndpoint
  <2>3. QED
    BY <1>1, <1>2, <2>1, <2>2, PoolAside
<1>8. CASE RemoveStep(c)
  <2>1. ~ Admitted(b)
    BY <1>8 DEF RemoveStep, Unbind, StopServer, FindFiles, DeleteFiles, DeleteFails,
                ForgetEndpoint, ClearRows, Admitted
  <2>2. Unbind(c) => ~ Admitted(th'[c])
    <3>1. \A id, roles, r : ~ Admitted([pc |-> "stop", id |-> id, roles |-> roles, role |-> r])
      BY DEF Admitted
    <3>2. QED
      BY <1>4, <3>1, UnbindIs
  <2>3. StopServer(c) => ~ Admitted(th'[c])
    BY <1>5, StopServerIs
  <2>4. FindFiles(c) \/ DeleteFiles(c) \/ DeleteFails(c) => ~ Admitted(th'[c])
    <3>1. th' = th => ~ Admitted(th'[c])
      BY <2>1
    <3>2. QED
      BY <1>3, <1>5, <3>1, FilesMovesIs
  <2>5. ForgetEndpoint(c) => ~ Admitted(th'[c])
    <3>1. ~ Admitted([pc |-> "clear", id |-> Endpoint])
      BY DEF Admitted
    <3>2. QED
      BY <1>3, <1>4, <3>1, ForgetEndpointIs
  <2>6. ClearRows(c) => ~ Admitted(th'[c])
    BY <1>3 DEF ClearRows
  <2>7. QED
    BY <1>1, <1>2, <1>8, <2>1, <2>2, <2>3, <2>4, <2>5, <2>6, PoolAside DEF RemoveStep
<1>9. QED
  BY <1>6, <1>7, <1>8

\* Who is evicted is owed a stop.
LEMMA PoolAdmit ==
  ASSUME ServingTypeOK, PoolInv, History, unaccounted \subseteq unaccounted', NEW t \in Threads,
         AdmitToPool(t)
  PROVE  PoolInv'
<1> DEFINE b == th[t]
           result == Admit(pool, b.id, b.role)
           s == Boot(b, "evict", result.victims, b.roles)
<1>1. /\ b \in Boots /\ b.pc = "admit" /\ b.role \in Roles /\ b.id \in Models
      /\ pool' = result.residents
      /\ result.fits => Moves(t, s)
      /\ ~ result.fits => Done(t)
      /\ live' = live
  BY AdmitToPoolIs
<1>2. /\ result.fits => Resident(result.residents, b.id)
      /\ \A x \in Models : Resident(pool, x) /\ result.fits =>
           \/ Resident(result.residents, x)
           \/ \E i \in DOMAIN result.victims : result.victims[i] = x
  BY <1>1, AdmitIs DEF ServingTypeOK
<1>3. OthersStay(t) /\ live \in [Roles -> {NoServer} \union Servers]
      /\ \A u \in Threads : th[u] \in ThreadStates
  BY OnlyOneMoves DEF BootStep, ServingTypeOK
<1>4. s.pc = "evict" /\ s.victims = result.victims /\ s.id = b.id
  BY DEF Boot
<1> HIDE DEF s, result
<1>5. /\ result.fits => th'[t] = s
      /\ ~ result.fits => th'[t] = Idle
  BY <1>1, NoNew, DoneIs
<1>6. \A m \in Models : Resident(pool, m) /\ ~ Resident(pool', m) /\ ~ result.fits => m \in unaccounted'
  BY <1>1, <1>5 DEF History
<1>7. \A m \in Models, u \in Threads :
        Resident(pool, m) /\ ~ Resident(pool', m) /\ m \in Names(u) => m \in unaccounted'
  BY DEF History
<1>8. ASSUME NEW u \in Threads, Admitted(th'[u]) PROVE Accounted(th'[u].id, pool', unaccounted')
  <2>1. CASE u = t
    <3>1. result.fits
      BY <1>5, <1>8, <2>1 DEF Admitted, Idle
    <3>2. QED
      BY <1>1, <1>2, <1>4, <1>5, <2>1, <3>1 DEF Accounted
  <2>2. CASE u # t
    <3>1. th'[u] = th[u] /\ Admitted(th[u]) /\ th[u].id \in Models /\ InFlight(u)
      BY <1>3, <1>8, <2>2, ThreadTyped DEF OthersStay, Admitted, InFlight, Idle
    <3>2. Accounted(th[u].id, pool, unaccounted) /\ th[u].id \in Names(u)
      BY <3>1 DEF PoolInv, Names
    <3>3. QED
      BY <1>7, <3>1, <3>2 DEF Accounted
  <2>3. QED
    BY <2>1, <2>2
<1>9. ASSUME NEW r \in Roles, live'[r] # NoServer
      PROVE  Accounted(live'[r].id, pool', unaccounted') \/ \E u \in Threads : Owing(th'[u], r, live'[r].id)
  <2>1. live'[r] = live[r] /\ live[r].id \in Models
    BY <1>1, <1>3, <1>9 DEF Servers
  <2>2. CASE live[r].id \in unaccounted
    BY <2>1, <2>2 DEF Accounted
  <2>3. CASE Resident(pool, live[r].id) /\ ~ Resident(pool', live[r].id) /\ result.fits
    <3>1. PICK i \in DOMAIN result.victims : result.victims[i] = live[r].id
      BY <1>1, <1>2, <2>1, <2>3
    <3>2. Owing(s, r, live[r].id)
      BY <1>4, <3>1 DEF Owing
    <3>3. QED
      BY <1>5, <2>1, <2>3, <3>2
  <2>4. CASE Resident(pool, live[r].id) /\ (Resident(pool', live[r].id) \/ ~ result.fits)
    BY <1>6, <2>1, <2>4 DEF Accounted
  <2>5. ASSUME NEW u \in Threads, Owing(th[u], r, live[r].id)
        PROVE  Owing(th'[u], r, live[r].id)
    <3>1. u # t
      BY <1>1, <2>5 DEF Owing
    <3>2. QED
      BY <1>3, <2>5, <3>1 DEF OthersStay
  <2>6. QED
    BY <1>9, <2>1, <2>2, <2>3, <2>4, <2>5 DEF PoolInv, Accounted
<1>10. PoolInv' <=>
        /\ \A u \in Threads : Admitted(th'[u]) => Accounted(th'[u].id, pool', unaccounted')
        /\ \A r \in Roles : live'[r] # NoServer =>
             Accounted(live'[r].id, pool', unaccounted') \/ \E u \in Threads : Owing(th'[u], r, live'[r].id)
  BY DEF PoolInv
<1>11. QED
  BY <1>8, <1>9, <1>10

\* A victim done with leaves the queue; the others move up.
LEMMA OwingLater ==
  ASSUME NEW b, NEW victims \in Seq(Models), b.victims = victims, victims # <<>>, NEW r, NEW m,
         Owing(b, r, m), b.victims[1] = m => b.pc = "takedown" /\ r \notin b.roles, NEW roles
  PROVE  Owing(Boot(b, "evict", Tail(victims), roles), r, m)
<1> DEFINE s == Boot(b, "evict", Tail(victims), roles)
<1>1. s.pc = "evict" /\ s.victims = Tail(victims)
  BY DEF Boot
<1>2. PICK i \in DOMAIN victims : victims[i] = m /\ (b.pc = "takedown" /\ i = 1 => r \in b.roles)
  BY DEF Owing
<1>3. i # 1 /\ Len(victims) \in Nat /\ DOMAIN victims = 1 .. Len(victims)
  BY <1>2
<1>4. /\ Len(Tail(victims)) = Len(victims) - 1 /\ DOMAIN Tail(victims) = 1 .. (Len(victims) - 1)
      /\ \A k \in 1 .. (Len(victims) - 1) : Tail(victims)[k] = victims[k + 1]
  OBVIOUS
<1>5. i - 1 \in 1 .. (Len(victims) - 1) /\ Tail(victims)[i - 1] = victims[i]
  BY <1>3, <1>4
<1> HIDE DEF s
<1>6. QED
  BY <1>1, <1>2, <1>4, <1>5 DEF Owing, s

\* FindEvicted owes the servers of the roles it finds, and drops a victim only
\* if no role has its server.
LEMMA PoolFind ==
  ASSUME ServingTypeOK, PoolInv, unaccounted \subseteq unaccounted', NEW t \in Threads,
         FindEvicted(t)
  PROVE  PoolInv'
<1> DEFINE b == th[t]
           m == Head(b.victims)
           R == RolesFor(m)
<1>1. /\ b \in Boots /\ b.pc = "evict" /\ b.victims # <<>> /\ m = b.victims[1]
      /\ R = {} => Moves(t, Boot(b, "evict", Tail(b.victims), {}))
      /\ R # {} => Moves(t, Boot(b, "takedown", b.victims, R))
  BY FindEvictedIs
<1>2. OthersStay(t) /\ pool' = pool /\ live' = live /\ b.victims \in Seq(Models)
  BY <1>1, OnlyOneMoves DEF BootStep, FindEvicted, serving, Boots
<1>3. ASSUME NEW r \in Roles, live[r] # NoServer, live[r].id = m PROVE r \in R
  BY <1>3 DEF RolesFor
<1> HIDE DEF R
<1>4. CASE R = {}
  <2> DEFINE s == Boot(b, "evict", Tail(b.victims), {})
  <2>1. s.pc = "evict" /\ s.id = b.id
    BY DEF Boot
  <2>2. ASSUME NEW r \in Roles, live[r] # NoServer, Owing(b, r, live[r].id)
        PROVE  Owing(s, r, live[r].id)
    <3>1. b.victims[1] # live[r].id
      BY <1>1, <1>3, <1>4, <2>2
    <3>2. QED
      BY <1>1, <1>2, <2>2, <3>1, OwingLater
  <2> HIDE DEF s
  <2>3. th'[t] = s
    BY <1>1, <1>4, NoNew DEF s
  <2>4. QED
    BY <1>1, <1>2, <2>1, <2>2, <2>3, PoolKept DEF Admitted
<1>5. CASE R # {}
  <2> DEFINE s == Boot(b, "takedown", b.victims, R)
  <2>1. s.pc = "takedown" /\ s.id = b.id /\ s.victims = b.victims /\ s.roles = R
    BY DEF Boot
  <2> HIDE DEF s
  <2>2. ASSUME NEW r \in Roles, live[r] # NoServer, Owing(b, r, live[r].id)
        PROVE  Owing(s, r, live[r].id)
    <3>1. b.victims[1] = live[r].id => r \in R
      BY <1>1, <1>3, <2>2
    <3>2. QED
      BY <2>1, <2>2, <3>1 DEF Owing
  <2>3. th'[t] = s
    BY <1>1, <1>5, NoNew DEF s
  <2>4. QED
    BY <1>1, <1>2, <2>1, <2>2, <2>3, PoolKept DEF Admitted
<1>6. QED
  BY <1>4, <1>5

\* TakeEvicted pays what it owes.
LEMMA PoolTake ==
  ASSUME ServingTypeOK, PoolInv, unaccounted \subseteq unaccounted', NEW t \in Threads,
         TakeEvicted(t)
  PROVE  PoolInv'
<1> DEFINE b == th[t]
           m == Head(b.victims)
<1>1. b \in Boots /\ b.pc = "takedown" /\ m = b.victims[1]
  BY TakeEvictedIs
<1>2. PICK q \in b.roles :
              /\ q \in Roles /\ TakeDown(q)
              /\ b.roles = {q} => Moves(t, Boot(b, "evict", Tail(b.victims), {}))
              /\ b.roles # {q} => Moves(t, Boot(b, "takedown", b.victims, b.roles \ {q}))
  BY TakeEvictedIs
<1>3. /\ OthersStay(t) /\ pool' = pool /\ b.victims \in Seq(Models) /\ b.victims # <<>>
      /\ live \in [Roles -> {NoServer} \union Servers]
  BY <1>1, OnlyOneMoves DEF BootStep, TakeEvicted, Boots, ServingTypeOK
<1>4. \A r \in Roles : live'[r] # NoServer => live'[r] = live[r] /\ r # q
  BY <1>2, <1>3 DEF TakeDown
<1>5. CASE b.roles = {q}
  <2> DEFINE s == Boot(b, "evict", Tail(b.victims), {})
  <2>1. s.pc = "evict" /\ s.id = b.id
    BY DEF Boot
  <2>2. ASSUME NEW r \in Roles, live'[r] # NoServer, Owing(b, r, live[r].id)
        PROVE  Owing(s, r, live[r].id)
    <3>1. r \notin b.roles
      BY <1>4, <1>5, <2>2
    <3>2. QED
      BY <1>1, <1>3, <2>2, <3>1, OwingLater
  <2> HIDE DEF s
  <2>3. th'[t] = s
    BY <1>2, <1>5, NoNew DEF s
  <2>4. QED
    BY <1>1, <1>3, <1>4, <2>1, <2>2, <2>3, PoolKept DEF Admitted
<1>6. CASE b.roles # {q}
  <2> DEFINE s == Boot(b, "takedown", b.victims, b.roles \ {q})
  <2>1. s.pc = "takedown" /\ s.id = b.id /\ s.victims = b.victims /\ s.roles = b.roles \ {q}
    BY DEF Boot
  <2> HIDE DEF s
  <2>2. ASSUME NEW r \in Roles, live'[r] # NoServer, Owing(b, r, live[r].id)
        PROVE  Owing(s, r, live[r].id)
    <3>1. r # q
      BY <1>4, <2>2
    <3>2. QED
      BY <1>1, <2>1, <2>2, <3>1 DEF Owing
  <2>3. th'[t] = s
    BY <1>2, <1>6, NoNew DEF s
  <2>4. QED
    BY <1>1, <1>3, <1>4, <2>1, <2>2, <2>3, PoolKept DEF Admitted
<1>7. QED
  BY <1>5, <1>6

\* A server is registered for a model the pool has admitted.
LEMMA PoolSwap ==
  ASSUME ServingTypeOK, PoolInv, unaccounted \subseteq unaccounted', NEW t \in Threads, Swap(t)
  PROVE  PoolInv'
<1>1. /\ th[t].pc = "swap" /\ th[t].role \in Roles /\ pool' = pool /\ OthersStay(t)
      /\ live' = [live EXCEPT ![th[t].role] = Server(th[t].id, th[t].n)]
      /\ live \in [Roles -> {NoServer} \union Servers] /\ th'[t] = Idle
  BY OtherBootSteps, OnlyOneMoves, NoNewIdle, NoNew DEF BootStep, Swap, ServingTypeOK
<1>2. \A m : Accounted(m, pool, unaccounted) => Accounted(m, pool', unaccounted')
  BY <1>1 DEF Accounted
<1>3. ASSUME NEW u \in Threads, Admitted(th'[u]) PROVE Accounted(th'[u].id, pool', unaccounted')
  <2>1. u # t /\ th'[u] = th[u]
    BY <1>1, <1>3 DEF OthersStay, Admitted, Idle
  <2>2. QED
    BY <1>2, <1>3, <2>1 DEF PoolInv
<1>4. ASSUME NEW r \in Roles, live'[r] # NoServer
      PROVE  Accounted(live'[r].id, pool', unaccounted')
               \/ \E u \in Threads : Owing(th'[u], r, live'[r].id)
  <2>1. CASE r = th[t].role
    <3>1. live'[r].id = th[t].id
      BY <1>1, <2>1 DEF Server
    <3>2. Accounted(th[t].id, pool, unaccounted)
      BY <1>1 DEF PoolInv, Admitted
    <3>3. QED
      BY <1>2, <3>1, <3>2
  <2>2. CASE r # th[t].role
    <3>1. live'[r] = live[r]
      BY <1>1, <2>2
    <3>2. CASE Accounted(live[r].id, pool, unaccounted)
      BY <1>2, <3>1, <3>2
    <3>3. ASSUME NEW u \in Threads, Owing(th[u], r, live[r].id)
          PROVE  Owing(th'[u], r, live[r].id)
      BY <1>1, <3>3 DEF OthersStay, Owing
    <3>4. QED
      BY <1>4, <3>1, <3>2, <3>3 DEF PoolInv
  <2>3. QED
    BY <2>1, <2>2
<1>5. PoolInv' <=>
        /\ \A u \in Threads : Admitted(th'[u]) => Accounted(th'[u].id, pool', unaccounted')
        /\ \A r \in Roles : live'[r] # NoServer =>
             Accounted(live'[r].id, pool', unaccounted')
               \/ \E u \in Threads : Owing(th'[u], r, live'[r].id)
  BY DEF PoolInv
<1>6. QED
  BY <1>3, <1>4, <1>5

LEMMA PoolBoot ==
  ASSUME ServingTypeOK, PoolInv, History, unaccounted \subseteq unaccounted', NEW t \in Threads,
         BootStep(t)
  PROVE  PoolInv'
<1> DEFINE b == th[t]
<1>1. OthersStay(t) /\ live \in [Roles -> {NoServer} \union Servers]
  BY OnlyOneMoves DEF ServingTypeOK
<1>2. Done(t) => ~ Admitted(th'[t])
  <2>1. ~ Admitted(Idle)
    BY DEF Admitted, Idle
  <2>2. QED
    BY <2>1, DoneIs, NoNew
<1>3. CASE BindRow(t)
  <2>1. ~ Admitted(b) /\ pool' = pool /\ live' = live
    BY <1>3 DEF BindRow, Admitted, serving
  <2>2. \A at \in {"admit", "point"} : Moves(t, Boot(b, at, b.victims, b.roles)) => ~ Admitted(th'[t])
    <3>1. \A at \in {"admit", "point"} : ~ Admitted(Boot(b, at, b.victims, b.roles))
      BY DEF Boot, Admitted
    <3>2. QED
      BY <3>1, NoNew
  <2>3. QED
    BY <1>1, <1>3, <2>1, <2>2, BindRowIs, PoolAside
<1>4. CASE StopForEndpoint(t) \/ PointAtEndpoint(t) \/ EndpointFails(t) \/ NoManifest(t)
  <2>1. ~ Admitted(b) /\ pool' = pool
    BY <1>4 DEF StopForEndpoint, PointAtEndpoint, EndpointFails, NoManifest, Admitted
  <2>2. ~ Admitted(th'[t])
    <3>1. CASE StopForEndpoint(t)
      <4> DEFINE s == Boot(b, "rewire", b.victims, b.roles)
      <4>1. Moves(t, s) /\ s.pc = "rewire"
        BY <3>1, StopForEndpointIs
      <4> HIDE DEF s
      <4>2. QED
        BY <4>1, NoNew DEF Admitted
    <3>2. QED
      BY <1>2, <1>4, <3>1 DEF PointAtEndpoint, EndpointFails, NoManifest
  <2>3. \A r \in Roles : live'[r] # NoServer => live'[r] = live[r]
    BY <1>1, <1>4 DEF StopForEndpoint, PointAtEndpoint, EndpointFails, NoManifest, TakeDown, serving
  <2>4. QED
    BY <1>1, <2>1, <2>2, <2>3, PoolAside
<1>5. CASE BootSucceeds(t)
  <2> DEFINE s == [pc |-> "swap", role |-> b.role, id |-> b.id, n |-> booted + 1]
  <2>1. b.pc = "evict" /\ b.victims = <<>> /\ Moves(t, s) /\ UNCHANGED <<pool, live>>
    BY <1>5, BootSucceedsIs
  <2>2. s.id = b.id
    OBVIOUS
  <2> HIDE DEF s
  <2>3. th'[t] = s /\ \A r, m : ~ Owing(b, r, m)
    BY <2>1, NoNew DEF Owing
  <2>4. QED
    BY <1>1, <2>1, <2>2, <2>3, PoolKept DEF Admitted
<1>6. CASE BootFails(t)
  <2>1. b.victims = <<>> /\ UNCHANGED <<pool, live>> /\ ~ Admitted(th'[t])
    BY <1>2, <1>6 DEF BootFails
  <2>2. \A r, m : ~ Owing(b, r, m)
    BY <2>1 DEF Owing
  <2>3. QED
    BY <1>1, <2>1, <2>2, PoolKept
<1>7. QED
  BY <1>3, <1>4, <1>5, <1>6, PoolAdmit, PoolFind, PoolTake, PoolSwap DEF BootStep

\* Every step keeps the accounts.
LEMMA PoolStep ==
  ASSUME TypeInv, PoolInv, [Next]_vars
  PROVE  PoolInv'
<1>1. CASE UNCHANGED vars
  BY <1>1 DEF vars, serving, PoolInv
<1>2. CASE Step /\ History
  <2>1. unaccounted \subseteq unaccounted' /\ ServingTypeOK
    BY <1>2, TypeStep DEF Next, TypeInv
  <2>2. ASSUME NEW i \in Installers, Install(i) PROVE PoolInv'
    <3>1. pool' = pool /\ live' = live /\ th' = th
      BY <2>2 DEF Install, serving
    <3>2. \A m : Accounted(m, pool, unaccounted) => Accounted(m, pool', unaccounted')
      BY <2>1, <3>1 DEF Accounted
    <3>3. QED
      BY <3>1, <3>2 DEF PoolInv
  <2>3. QED
    BY <1>2, <2>1, <2>2, PoolBoot, PoolClient DEF Step
<1>3. QED
  BY <1>1, <1>2 DEF Next

LEMMA InitPool ==
  Init => PoolInv
<1>1. SUFFICES ASSUME Init PROVE PoolInv
  OBVIOUS
<1>2. PICK o \in Openings :
    /\ live = [r \in Roles |-> NoServer]
    /\ th = [t \in Threads |->
               IF t \in Roles /\ o.boots[t] # NoModel
                 THEN [pc |-> "admit", role |-> t, id |-> o.boots[t], victims |-> <<>>,
                       roles |-> {}]
                 ELSE Idle]
  BY <1>1 DEF Init
<1>3. \A t \in Threads : ~ Admitted(th[t])
  BY <1>2 DEF Idle, Admitted
<1>4. QED
  BY <1>2, <1>3 DEF PoolInv

\* The memory the pool gives away is within its budget, and it knows of the
\* model of every registered server, but for the models it forgot when an
\* admission failed or while they started.
THEOREM ThePoolKnowsItsServers ==
  Spec => []PoolAccounts
<1> DEFINE Inv == TypeInv /\ PoolInv
<1>1. Init => Inv
  BY InitType, InitPool
<1>2. Inv /\ [Next]_vars => Inv'
  BY TypeStep, PoolStep
<1>3. Inv => PoolAccounts
  <2>1. ASSUME Inv, NEW r \in Roles, live[r] # NoServer, live[r].id \notin unaccounted
        PROVE  \/ Resident(pool, live[r].id)
               \/ \E t \in Threads : /\ InFlight(t) /\ th[t].pc \in {"evict", "takedown"}
                                     /\ \E i \in DOMAIN th[t].victims : th[t].victims[i] = live[r].id
    <3>1. \A t \in Threads : th[t].pc \in {"evict", "takedown"} => InFlight(t)
      BY DEF InFlight, Idle
    <3>2. QED
      BY <2>1, <3>1 DEF PoolInv, Accounted, Owing
  <2>2. Inv => Used(pool) <= Budget
    BY DEF TypeInv, ServingTypeOK
  <2>3. QED
    BY <2>1, <2>2 DEF PoolAccounts
<1>4. QED
  BY <1>1, <1>2, <1>3, PTL DEF Spec

-----------------------------------------------------------------------------
(* What is left of a removed model.                                        *)

BootingOf(s, m) == s.pc \in {"bind", "admit", "evict", "takedown", "swap"} /\ s.id = m

\* Who removes m in state s has the servers of the roles R still to stop.
Stripping(s, m, R) ==
  s # Idle /\ s.id = m =>
    /\ s.pc = "unserve" => R \subseteq s.roles
    /\ s.pc = "stop" => R \subseteq s.roles \union {s.role}
    /\ s.pc \in {"delete", "erase", "clear"} => R = {}

NoRow(m) == \A r \in Roles : bound[r] # m

\* No row of m is left, or one who is to clear them, or has given it up.
Left(m) ==
  \/ NoRow(m) \/ m \in cut
  \/ \E t \in Threads : th[t].pc \in {"erase", "clear"} /\ th[t].id = m

Gone(m) ==
  /\ \A t \in Threads : Stripping(th[t], m, RolesFor(m))
  /\ m \notin contested => \A t \in Threads : BootingOf(th[t], m) => m \in Installed
  /\ m \notin contested /\ m \notin Installed => RolesFor(m) = {} /\ Left(m)

OneNames(m) == \A t, u \in Threads : m \in Names(t) /\ m \in Names(u) => t = u

GoneInv == \A m \in Models \ shared : OneNames(m) /\ Gone(m)

\* Two who name one model share it, from the step in which the second begins.
LEMMA OneNamesStep ==
  ASSUME TypeInv', History
  PROVE  \A m \in Models \ shared' : OneNames(m)'
<1>1. th' \in [Threads -> ThreadStates]
  BY DEF TypeInv, ServingTypeOK
<1>2. \A t \in Threads : Names(t)' = Heads(th'[t])
  BY DEF Names, InFlight, Heads
<1>3. ASSUME NEW m \in Models \ shared', NEW t \in Threads, NEW u \in Threads,
             m \in Heads(th'[t]), m \in Heads(th'[u])
      PROVE  t = u
  <2>1. m \notin Overlap(th', Heads)
    BY <1>3 DEF History
  <2>2. QED
    BY <1>1, <1>3, <2>1, OverlapIs
<1>4. QED
  BY <1>2, <1>3 DEF OneNames

\* The steps that put no server of m in place and leave its directory alone.
LEMMA GoneKept ==
  ASSUME History, NEW m \in Models, Gone(m), NEW t \in Threads, OthersStay(t),
         contested \subseteq contested',
         RolesFor(m)' \subseteq RolesFor(m), Stripping(th'[t], m, RolesFor(m)'),
         m \in Installed' <=> m \in Installed,
         BootingOf(th'[t], m) => BootingOf(th[t], m) \/ m \in Installed,
         m \notin Installed /\ m \notin contested /\ NoRow(m) => NoRow(m)',
         th[t].pc = "clear" /\ th[t].id = m => NoRow(m)',
         th[t].pc = "erase" /\ th[t].id = m =>
           th'[t] = Idle \/ (th'[t].pc \in {"erase", "clear"} /\ th'[t].id = m)
  PROVE  Gone(m)'
<1>1. ASSUME NEW u \in Threads PROVE Stripping(th'[u], m, RolesFor(m)')
  <2>1. CASE u = t
    BY <2>1
  <2>2. CASE u # t
    <3>1. th'[u] = th[u] /\ Stripping(th[u], m, RolesFor(m))
      BY <2>2 DEF Gone, OthersStay
    <3>2. QED
      BY <3>1 DEF Stripping
  <2>3. QED
    BY <2>1, <2>2
<1>2. ASSUME m \notin contested', NEW u \in Threads, BootingOf(th'[u], m)
      PROVE  m \in Installed'
  BY <1>2 DEF Gone, OthersStay
<1>3. ASSUME m \notin contested', m \notin Installed'
      PROVE  RolesFor(m)' = {} /\ Left(m)'
  <2>1. RolesFor(m)' = {} /\ Left(m) /\ ~ dirs'[m].manifest /\ (NoRow(m) => NoRow(m)')
    BY <1>3 DEF Gone, Installed
  <2>2. ASSUME NEW u \in Quits("clear"), th[u].id = m PROVE NoRow(m)'
    <3>1. u = t
      BY <2>2 DEF Quits, OthersStay, Idle
    <3>2. QED
      BY <2>2, <3>1 DEF Quits
  <2>3. m \in cut \/ (\E u \in Quits("erase") : th[u].id = m) => m \in cut' \/ NoRow(m)'
    BY <2>1, <2>2 DEF History
  <2>4. ASSUME NEW u \in Threads, th[u].pc \in {"erase", "clear"}, th[u].id = m PROVE Left(m)'
    <3>1. CASE u # t
      BY <2>4, <3>1 DEF OthersStay, Left
    <3>2. CASE u = t /\ th'[t] = Idle /\ th[t].pc = "erase"
      <4>1. u \in Quits("erase")
        BY <3>2 DEF Quits
      <4>2. QED
        BY <2>3, <2>4, <4>1 DEF Left
    <3>3. CASE u = t /\ ~ (th'[t] = Idle /\ th[t].pc = "erase")
      BY <2>4, <3>3 DEF Left
    <3>4. QED
      BY <3>1, <3>2, <3>3
  <2>5. QED
    BY <2>1, <2>3, <2>4 DEF Left
<1>4. Gone(m)' <=>
        /\ \A u \in Threads : Stripping(th'[u], m, RolesFor(m)')
        /\ m \notin contested' => \A u \in Threads : BootingOf(th'[u], m) => m \in Installed'
        /\ m \notin contested' /\ m \notin Installed' => RolesFor(m)' = {} /\ Left(m)'
  BY DEF Gone
<1>5. QED
  BY <1>1, <1>2, <1>3, <1>4

LEMMA BootNames ==
  ASSUME ServingTypeOK, NEW t \in Threads, BootStep(t)
  PROVE  /\ th[t].pc \in {"bind", "external", "point", "rewire", "admit", "evict", "takedown", "swap"}
         /\ th'[t].pc \in {"idle", "admit", "point", "rewire", "evict", "takedown", "swap"}
         /\ \A m : BootingOf(th'[t], m) => BootingOf(th[t], m)
<1> DEFINE b == th[t]
<1>1. Done(t) => th'[t].pc = "idle"
  BY DoneIs, NoNew DEF Idle
<1>2. ASSUME NEW at, NEW v, NEW r, Moves(t, Boot(b, at, v, r))
      PROVE  th'[t].pc = at /\ th'[t].id = b.id
  <2> DEFINE s == Boot(b, at, v, r)
  <2>1. s.pc = at /\ s.id = b.id
    BY DEF Boot
  <2> HIDE DEF s
  <2>2. th'[t] = s
    BY <1>2, NoNew DEF s
  <2>3. QED
    BY <2>1, <2>2
<1>3. CASE BindRow(t)
  BY <1>2, <1>3, BindRowIs DEF BootingOf
<1>4. CASE StopForEndpoint(t) \/ PointAtEndpoint(t) \/ EndpointFails(t) \/ NoManifest(t)
             \/ BootFails(t) \/ Swap(t)
  <2>1. CASE StopForEndpoint(t)
    BY <1>2, <2>1, StopForEndpointIs DEF BootingOf
  <2>2. CASE ~ StopForEndpoint(t)
    BY <1>1, <1>4, <2>2
       DEF PointAtEndpoint, EndpointFails, NoManifest, BootFails, Swap, BootingOf
  <2>3. QED
    BY <2>1, <2>2
<1>5. CASE AdmitToPool(t)
  <2> DEFINE result == Admit(pool, b.id, b.role)
  <2>1. /\ b.pc = "admit"
        /\ result.fits => Moves(t, Boot(b, "evict", result.victims, b.roles))
        /\ ~ result.fits => Done(t)
    BY <1>5, AdmitToPoolIs
  <2> HIDE DEF result
  <2>2. QED
    BY <1>1, <1>2, <2>1 DEF BootingOf
<1>6. CASE FindEvicted(t)
  <2>1. /\ b.pc = "evict"
        /\ \/ Moves(t, Boot(b, "evict", Tail(b.victims), {}))
           \/ Moves(t, Boot(b, "takedown", b.victims, RolesFor(Head(b.victims))))
    BY <1>6, FindEvictedIs
  <2>2. QED
    BY <1>2, <2>1 DEF BootingOf
<1>7. CASE TakeEvicted(t)
  <2>1. /\ b.pc = "takedown"
        /\ \E r : \/ Moves(t, Boot(b, "evict", Tail(b.victims), {}))
                  \/ Moves(t, Boot(b, "takedown", b.victims, b.roles \ {r}))
    BY <1>7, TakeEvictedIs
  <2>2. QED
    BY <1>2, <2>1 DEF BootingOf
<1>8. CASE BootSucceeds(t)
  <2> DEFINE s == [pc |-> "swap", role |-> b.role, id |-> b.id, n |-> booted + 1]
  <2>1. b.pc = "evict" /\ Moves(t, s)
    BY <1>8, BootSucceedsIs
  <2>2. s.pc = "swap" /\ s.id = b.id
    OBVIOUS
  <2> HIDE DEF s
  <2>3. th'[t] = s
    BY <2>1, NoNew
  <2>4. QED
    BY <2>1, <2>2, <2>3 DEF BootingOf
<1>9. QED
  BY <1>3, <1>4, <1>5, <1>6, <1>7, <1>8 DEF BootStep

\* A boot brings nothing of a removed model back.
LEMMA GoneBoot ==
  ASSUME ServingTypeOK, History, NEW m \in Models, Gone(m), OneNames(m), contested \subseteq contested',
         NEW t \in Threads, BootStep(t)
  PROVE  Gone(m)'
<1> DEFINE b == th[t]
<1>1. /\ OthersStay(t) /\ live \in [Roles -> {NoServer} \union Servers]
      /\ bound \in [Roles -> Ids] /\ dirs' = dirs
  BY OnlyOneMoves, StoreLeft DEF ServingTypeOK, storeVars
<1>2. /\ b.pc \in {"bind", "external", "point", "rewire", "admit", "evict", "takedown", "swap"}
      /\ th'[t].pc \in {"idle", "admit", "point", "rewire", "evict", "takedown", "swap"}
      /\ BootingOf(th'[t], m) => BootingOf(b, m)
  BY BootNames
<1>3. \A R : Stripping(th'[t], m, R)
  BY <1>2 DEF Stripping
<1>4. Installed' = Installed
  BY <1>1 DEF Installed
<1>5. m \notin Installed /\ m \notin contested /\ NoRow(m) => NoRow(m)'
  <2>1. CASE BindRow(t)
    <3>1. b.pc = "bind" => BootingOf(b, b.id)
      BY DEF BootingOf
    <3>2. b.pc = "external" => b.id = Endpoint
      BY ThreadTyped
    <3>3. bound' = [bound EXCEPT ![b.role] = b.id] /\ b.pc \in {"bind", "external"}
      BY <2>1 DEF BindRow
    <3>4. m \notin Installed /\ m \notin contested => b.id # m
      BY <3>1, <3>2, <3>3, ServingAssumption DEF Gone
    <3>5. QED
      BY <1>1, <3>3, <3>4 DEF NoRow
  <2>2. CASE ~ BindRow(t)
    <3>1. bound' = bound
      BY <2>2 DEF BootStep, StopForEndpoint, PointAtEndpoint, EndpointFails, NoManifest,
                  AdmitToPool, FindEvicted, TakeEvicted, BootSucceeds, BootFails, Swap, disk
    <3>2. QED
      BY <3>1 DEF NoRow
  <2>3. QED
    BY <2>1, <2>2
<1>6. CASE RolesFor(m)' \subseteq RolesFor(m)
  BY <1>1, <1>2, <1>3, <1>4, <1>5, <1>6, GoneKept
<1>7. CASE ~ (RolesFor(m)' \subseteq RolesFor(m))
  <2>1. PICK r \in Roles : live'[r] # live[r] /\ live'[r] # NoServer /\ live'[r].id = m
    BY <1>7 DEF RolesFor
  <2>2. Swap(t)
    BY <1>1, <2>1
       DEF BootStep, BindRow, StopForEndpoint, PointAtEndpoint, EndpointFails, NoManifest,
           AdmitToPool, FindEvicted, TakeEvicted, BootSucceeds, BootFails, TakeDown, serving
  <2>3. b.id = m /\ b.pc = "swap" /\ th'[t] = Idle
    <3>1. /\ b.pc = "swap" /\ b.role \in Roles /\ th'[t] = Idle
          /\ live' = [live EXCEPT ![b.role] = Server(b.id, b.n)]
      BY <2>2, OtherBootSteps, NoNewIdle, NoNew DEF Swap
    <3>2. live'[r] = Server(b.id, b.n)
      BY <1>1, <2>1, <3>1
    <3>3. QED
      BY <2>1, <3>1, <3>2 DEF Server
  <2>4. m \in Names(t) /\ BootingOf(b, m)
    BY <2>3 DEF Names, InFlight, BootingOf, Idle
  <2>5. \A u \in Threads : u # t => th[u] = Idle \/ th[u].id # m
    BY <2>4 DEF OneNames, Names, InFlight
  <2>6. ASSUME NEW u \in Threads
        PROVE  Stripping(th'[u], m, RolesFor(m)') /\ ~ BootingOf(th'[u], m)
    BY <1>1, <1>3, <2>3, <2>5 DEF Stripping, OthersStay, BootingOf, Idle
  <2>7. m \notin contested' => m \in Installed'
    BY <1>4, <2>4 DEF Gone
  <2>8. QED
    BY <2>6, <2>7 DEF Gone
<1>8. QED
  BY <1>6, <1>7

\* Nor does a request.
LEMMA GoneRequest ==
  ASSUME ServingTypeOK, History, NEW m \in Models, Gone(m), contested \subseteq contested',
         NEW c \in Clients, Request(c)
  PROVE  Gone(m)'
<1>1. c \in Threads /\ OthersStay(c)
  BY ClientsAreNotRoles, OnlyOneMoves
<1>2. dirs' = dirs /\ live' = live /\ bound' = bound
  BY DEF Request, BeginActivate, BeginRemove, BeginEndpointRemove, AddEndpoint, disk, storeVars,
         serving
<1>3. /\ RolesFor(m)' = RolesFor(m) /\ (m \in Installed' <=> m \in Installed)
      /\ NoRow(m) <=> NoRow(m)'
  BY <1>2 DEF RolesFor, Installed, NoRow
<1>4. ~ AddEndpoint(c) => th[c].pc \notin {"erase", "clear"}
  BY DEF Request, BeginActivate, BeginRemove, BeginEndpointRemove, InFlight, Idle
<1>5. ASSUME NEW r \in Roles, NEW id \in Models \union {Endpoint}, BeginActivate(c, r, id)
      PROVE  Gone(m)'
  <2>1. PICK s \in Boots \union Externals :
           /\ Moves(c, s) /\ s.pc \in {"external", "bind"} /\ s.id = id
           /\ s.pc = "bind" => id \in Installed
    BY <1>5, BeginActivateIs
  <2>2. th'[c] = s
    BY <1>1, <2>1, NoNew
  <2>3. Stripping(s, m, RolesFor(m)') /\ (BootingOf(s, m) => m \in Installed)
    BY <2>1 DEF Stripping, BootingOf
  <2>4. th[c].pc \notin {"erase", "clear"}
    BY <1>5 DEF BeginActivate, InFlight, Idle
  <2>5. QED
    BY <1>1, <1>3, <2>2, <2>3, <2>4, GoneKept
<1>6. ASSUME NEW k \in Models, BeginRemove(c, k) PROVE Gone(m)'
  <2> DEFINE s(at) == Removal(at, k, RolesFor(k))
  <2>1. PICK at \in {"delete", "unserve"} : Moves(c, s(at)) /\ (at = "delete" => RolesFor(k) = {})
    BY <1>6, BeginRemoveIs
  <2>2. s(at).pc = at /\ s(at).id = k /\ s(at).roles = RolesFor(k)
    BY DEF Removal
  <2> HIDE DEF s
  <2>3. th'[c] = s(at)
    BY <1>1, <2>1, NoNew
  <2>4. Stripping(s(at), m, RolesFor(m)') /\ ~ BootingOf(s(at), m)
    BY <1>3, <2>1, <2>2 DEF Stripping, BootingOf
  <2>5. th[c].pc \notin {"erase", "clear"}
    BY <1>6 DEF BeginRemove, InFlight, Idle
  <2>6. QED
    BY <1>1, <1>3, <2>3, <2>4, <2>5, GoneKept
<1>7. CASE BeginEndpointRemove(c)
  <2> DEFINE s == [pc |-> "forget", id |-> Endpoint]
  <2>1. Moves(c, s) /\ th[c].pc \notin {"erase", "clear"}
    BY <1>7 DEF BeginEndpointRemove, Moves, InFlight, Idle
  <2>2. s.pc = "forget"
    OBVIOUS
  <2> HIDE DEF s
  <2>3. th'[c] = s
    BY <1>1, <2>1, NoNew
  <2>4. Stripping(s, m, RolesFor(m)') /\ ~ BootingOf(s, m)
    BY <2>2 DEF Stripping, BootingOf
  <2>5. QED
    BY <1>1, <1>3, <2>1, <2>3, <2>4, GoneKept
<1>8. CASE AddEndpoint(c)
  <2>1. th' = th
    BY <1>8 DEF AddEndpoint
  <2>2. Gone(m)'
    <3>1. cut \subseteq cut'
      <4>1. \A x, at : th'[x] = th[x] /\ th[x].pc \in {"erase", "clear"} => th'[x] # Idle
        BY DEF Idle
      <4>2. Quits("clear") = {}
        BY <2>1, <4>1 DEF Quits
      <4>3. QED
        BY <1>2, <4>2 DEF History
    <3>2. QED
      BY <1>3, <2>1, <3>1 DEF Gone, Left
  <2>3. QED
    BY <2>2
<1>9. QED
  BY <1>5, <1>6, <1>7, <1>8 DEF Request

\* The removal stops every server of the model, then clears its rows.
LEMMA GoneRemove ==
  ASSUME ServingTypeOK, History, NEW m \in Models, Gone(m), OneNames(m),
         contested \subseteq contested', StoreTypeOK, NEW c \in Clients, RemoveStep(c)
  PROVE  Gone(m)'
<1> DEFINE b == th[c]
<1>1. c \in Threads /\ OthersStay(c) /\ live \in [Roles -> {NoServer} \union Servers]
      /\ bound \in [Roles -> Ids] /\ dirs \in [Models -> Dirs]
  BY ClientsAreNotRoles, OnlyOneMoves DEF ServingTypeOK, StoreTypeOK
<1>2. Stripping(b, m, RolesFor(m))
  BY <1>1 DEF Gone
<1>3. Done(c) => th'[c] = Idle
  BY <1>1, DoneIs, NoNew
<1>4. \A R : Stripping(Idle, m, R) /\ ~ BootingOf(Idle, m)
  BY DEF Stripping, BootingOf, Idle
<1>5. CASE Unbind(c)
  <2> DEFINE s(r) == [pc |-> "stop", id |-> b.id, roles |-> b.roles \ {r}, role |-> r]
  <2>1. b \in Removals /\ b.pc = "unserve"
    BY <1>5, UnbindIs
  <2>2. PICK r \in b.roles : Moves(c, s(r))
    BY <1>5, UnbindIs
  <2>3. s(r).pc = "stop" /\ s(r).id = b.id /\ b.roles \subseteq s(r).roles \union {s(r).role}
    OBVIOUS
  <2> HIDE DEF s
  <2>4. th'[c] = s(r) /\ b # Idle
    BY <1>1, <2>1, <2>2, NoNew DEF Idle
  <2>5. UNCHANGED <<dirs, bound, live>>
    BY <1>5 DEF Unbind, disk, storeVars
  <2>6. /\ RolesFor(m)' = RolesFor(m) /\ (m \in Installed' <=> m \in Installed)
        /\ NoRow(m) <=> NoRow(m)'
    BY <2>5 DEF RolesFor, Installed, NoRow
  <2>7. Stripping(s(r), m, RolesFor(m)') /\ ~ BootingOf(s(r), m)
    BY <1>2, <2>1, <2>3, <2>4, <2>6 DEF Stripping, BootingOf
  <2>8. QED
    BY <1>1, <2>1, <2>4, <2>6, <2>7, GoneKept
<1>6. CASE StopServer(c)
  <2> DEFINE s(at) == Removal(at, b.id, b.roles)
  <2>1. b \in Stops /\ b.pc = "stop" /\ b.role \in Roles /\ TakeDown(b.role)
    BY <1>6, StopServerIs
  <2>2. PICK at \in {"delete", "unserve"} : Moves(c, s(at)) /\ (at = "delete" => b.roles = {})
    BY <1>6, StopServerIs
  <2>3. s(at).pc = at /\ s(at).id = b.id /\ s(at).roles = b.roles
    BY DEF Removal
  <2> HIDE DEF s
  <2>4. th'[c] = s(at) /\ b # Idle
    BY <1>1, <2>1, <2>2, NoNew DEF Idle
  <2>5. UNCHANGED <<dirs, bound>>
    BY <1>6 DEF StopServer, disk, storeVars
  <2>6. (m \in Installed' <=> m \in Installed) /\ (NoRow(m) <=> NoRow(m)')
    BY <2>5 DEF Installed, NoRow
  <2>7. RolesFor(m)' \subseteq RolesFor(m) \ {b.role}
    BY <1>1, <2>1 DEF TakeDown, RolesFor
  <2>8. Stripping(s(at), m, RolesFor(m)') /\ ~ BootingOf(s(at), m)
    BY <1>2, <2>1, <2>2, <2>3, <2>4, <2>7 DEF Stripping, BootingOf
  <2>9. QED
    BY <1>1, <2>1, <2>4, <2>6, <2>7, <2>8, GoneKept
<1>7. CASE FindFiles(c)
  <2> DEFINE s == Removal("erase", b.id, b.roles)
  <2>1. b.pc = "delete" /\ (Done(c) \/ Moves(c, s))
    BY <1>7, FilesMovesIs DEF FindFiles
  <2>2. s.pc = "erase" /\ s.id = b.id
    BY DEF Removal
  <2> HIDE DEF s
  <2>3. th'[c] \in {Idle, s} /\ b # Idle
    BY <1>1, <1>3, <2>1, NoNew DEF Idle
  <2>4. UNCHANGED <<dirs, bound, live>>
    BY <1>7 DEF FindFiles, disk, storeVars, serving
  <2>5. /\ RolesFor(m)' = RolesFor(m) /\ (m \in Installed' <=> m \in Installed)
        /\ NoRow(m) <=> NoRow(m)'
    BY <2>4 DEF RolesFor, Installed, NoRow
  <2>6. Stripping(s, m, RolesFor(m)') /\ ~ BootingOf(s, m)
    BY <1>2, <2>1, <2>2, <2>3, <2>5 DEF Stripping, BootingOf
  <2>7. QED
    BY <1>1, <1>4, <2>1, <2>3, <2>5, <2>6, GoneKept
<1>8. CASE DeleteFiles(c)
  <2> DEFINE s == Removal("clear", b.id, b.roles)
  <2>1. /\ b.pc = "erase" /\ b.id \in Models
        /\ \/ UnlinkFile(b.id) /\ th' = th
           \/ RemoveDir(b.id) /\ Moves(c, s)
    BY <1>8, FilesMovesIs DEF DeleteFiles
  <2>2. s.pc = "clear" /\ s.id = b.id
    BY DEF Removal
  <2> HIDE DEF s
  <2>3. th'[c] \in {b, s} /\ b # Idle
    BY <1>1, <2>1, NoNew DEF Idle
  <2>4. bound' = bound /\ live' = live
    BY <1>8 DEF DeleteFiles, serving
  <2>5. RolesFor(m)' = RolesFor(m) /\ (NoRow(m) <=> NoRow(m)')
    BY <2>4 DEF RolesFor, NoRow
  <2>6. /\ th'[c].pc \in {"erase", "clear"} /\ th'[c].id = b.id
        /\ Stripping(th'[c], m, RolesFor(m)') /\ ~ BootingOf(th'[c], m)
    BY <1>2, <2>1, <2>2, <2>3, <2>5 DEF Stripping, BootingOf
  <2>7. CASE b.id # m
    <3>1. dirs'[m] = dirs[m]
      BY <2>1, <2>7, UnlinkIs, RemoveDirIs
    <3>2. m \in Installed' <=> m \in Installed
      BY <3>1 DEF Installed
    <3>3. QED
      BY <1>1, <2>1, <2>5, <2>6, <2>7, <3>2, GoneKept
  <2>8. CASE b.id = m
    <3>1. m \in Names(c)
      BY <2>3, <2>8 DEF Names, InFlight
    <3>2. \A u \in Threads : u # c => th[u] = Idle \/ th[u].id # m
      BY <1>1, <3>1 DEF OneNames, Names, InFlight
    <3>3. RolesFor(m)' = {}
      BY <1>2, <2>1, <2>3, <2>5, <2>8 DEF Stripping
    <3>4. ASSUME NEW u \in Threads
          PROVE  Stripping(th'[u], m, RolesFor(m)') /\ ~ BootingOf(th'[u], m)
      BY <1>1, <1>4, <2>6, <3>2 DEF Stripping, OthersStay, BootingOf, Idle
    <3>5. Left(m)'
      BY <1>1, <2>6, <2>8 DEF Left
    <3>6. QED
      BY <3>3, <3>4, <3>5 DEF Gone
  <2>9. QED
    BY <2>7, <2>8
<1>9. CASE ForgetEndpoint(c)
  <2> DEFINE s == [pc |-> "clear", id |-> Endpoint]
  <2>1. b.pc = "forget" /\ (Done(c) \/ Moves(c, s))
    BY <1>9, ForgetEndpointIs DEF ForgetEndpoint
  <2>2. s.pc = "clear" /\ s.id # m
    BY ServingAssumption
  <2> HIDE DEF s
  <2>3. th'[c] \in {Idle, s}
    BY <1>1, <1>3, <2>1, NoNew
  <2>4. UNCHANGED <<dirs, bound, live>>
    BY <1>9 DEF ForgetEndpoint, storeVars, serving
  <2>5. /\ RolesFor(m)' = RolesFor(m) /\ (m \in Installed' <=> m \in Installed)
        /\ NoRow(m) <=> NoRow(m)'
    BY <2>4 DEF RolesFor, Installed, NoRow
  <2>6. Stripping(s, m, RolesFor(m)') /\ ~ BootingOf(s, m)
    BY <2>2 DEF Stripping, BootingOf
  <2>7. QED
    BY <1>1, <1>4, <2>1, <2>3, <2>5, <2>6, GoneKept
<1>10. CASE ClearRows(c)
  <2>1. /\ th'[c] = Idle /\ dirs' = dirs /\ live' = live
        /\ bound' = [r \in Roles |-> IF bound[r] = b.id THEN NoModel ELSE bound[r]]
    BY <1>3, <1>10 DEF ClearRows, storeVars, serving
  <2>2. RolesFor(m)' = RolesFor(m) /\ (m \in Installed' <=> m \in Installed)
    BY <2>1 DEF RolesFor, Installed
  <2>3. (NoRow(m) => NoRow(m)') /\ (b.id = m => NoRow(m)')
    BY <2>1, ServingAssumption DEF NoRow
  <2>4. QED
    BY <1>1, <1>4, <2>1, <2>2, <2>3, GoneKept
<1>11. CASE DeleteFails(c)
  <2>1. th'[c] = Idle /\ UNCHANGED <<dirs, bound, live>> /\ b.pc = "erase"
    BY <1>3, <1>11 DEF DeleteFails, disk, storeVars, serving
  <2>2. /\ RolesFor(m)' = RolesFor(m) /\ (m \in Installed' <=> m \in Installed)
        /\ NoRow(m) <=> NoRow(m)'
    BY <2>1 DEF RolesFor, Installed, NoRow
  <2>3. QED
    BY <1>1, <1>4, <2>1, <2>2, GoneKept
<1>12. QED
  BY <1>5, <1>6, <1>7, <1>8, <1>9, <1>10, <1>11 DEF RemoveStep

LEMMA GoneInstall ==
  ASSUME TypeInv, Alone, FilesInv, History, NEW m \in Models, Gone(m),
         contested \subseteq contested', NEW i \in Installers, Install(i)
  PROVE  Gone(m)'
<1>1. m \notin contested => (m \in Installed => m \in Installed')
  BY FilesStep DEF TypeInv
<1>2. th' = th /\ live' = live /\ bound' = bound
  BY DEF Install, serving
<1>3. RolesFor(m)' = RolesFor(m) /\ (NoRow(m) <=> NoRow(m)')
  BY <1>2 DEF RolesFor, NoRow
<1>4. ASSUME m \notin contested' PROVE m \notin contested
  BY <1>4
<1>5. m \in cut /\ m \notin Installed' => m \in cut'
  <2>1. Quits("clear") = {}
    BY <1>2 DEF Quits, Idle
  <2>2. QED
    BY <2>1 DEF History, Installed
<1>6. QED
  BY <1>1, <1>2, <1>3, <1>4, <1>5 DEF Gone, Left

\* Every step keeps removed models gone.
LEMMA GoneStep ==
  ASSUME TypeInv, Alone, FilesInv, GoneInv, [Next]_vars
  PROVE  GoneInv'
<1>1. CASE UNCHANGED vars
  BY <1>1 DEF vars, storeVars, serving, GoneInv, Gone, OneNames, Names, InFlight, RolesFor, NoRow,
              Left, Installed
<1>2. CASE Step /\ History
  <2>1. TypeInv' /\ contested \subseteq contested' /\ shared \subseteq shared'
    BY <1>2, TypeStep DEF Next
  <2>2. \A m \in Models \ shared' : OneNames(m)'
    BY <1>2, <2>1, OneNamesStep
  <2>3. ASSUME NEW m \in Models \ shared' PROVE Gone(m)'
    <3>1. Gone(m) /\ OneNames(m)
      BY <2>1 DEF GoneInv
    <3>2. QED
      BY <1>2, <2>1, <3>1, GoneBoot, GoneRequest, GoneRemove, GoneInstall DEF Step, TypeInv
  <2>4. QED
    BY <2>2, <2>3 DEF GoneInv
<1>3. QED
  BY <1>1, <1>2 DEF Next

\* What Runtime::open finds: every row names a model that is installed.
RowsAreOfInstalled ==
  \A o \in Openings, r \in Roles : o.bound[r] \in o.installed \union {Endpoint, NoModel}

\* The runtime starts with nothing of a model that is not installed, if the rows
\* it was left with name installed models.
LEMMA InitGone ==
  ASSUME RowsAreOfInstalled
  PROVE  Init => GoneInv
<1>1. SUFFICES ASSUME Init PROVE GoneInv
  OBVIOUS
<1>2. PICK o \in Openings :
    /\ dirs = [m \in Models |->
                 IF m \in o.installed
                   THEN [exists |-> TRUE, part |-> NoFile, manifest |-> TRUE,
                         weights |-> File([k \in 1 .. Size |-> "good"])]
                   ELSE NoDir]
    /\ bound = o.bound
    /\ live = [r \in Roles |-> NoServer]
    /\ th = [t \in Threads |->
               IF t \in Roles /\ o.boots[t] # NoModel
                 THEN [pc |-> "admit", role |-> t, id |-> o.boots[t], victims |-> <<>>,
                       roles |-> {}]
                 ELSE Idle]
    /\ shared = {m \in Models : \E r, q \in Roles : r # q /\ o.boots[r] = m /\ o.boots[q] = m}
  BY <1>1 DEF Init
<1>3. /\ o.boots \in [Roles -> o.installed \union {NoModel}] /\ o.installed \subseteq Models
      /\ \A r \in Roles : o.bound[r] \in o.installed \union {Endpoint, NoModel}
      /\ NoModel \notin Models /\ Endpoint \notin Models
  BY ServingAssumption DEF RowsAreOfInstalled
<1>4. \A t \in Threads :
        \/ th[t] = Idle
        \/ t \in Roles /\ o.boots[t] \in o.installed /\ th[t].pc = "admit" /\ th[t].id = o.boots[t]
  BY <1>2, <1>3
<1>5. \A m \in Models : m \in o.installed => m \in Installed
  BY <1>2 DEF Installed
<1>6. \A m \in Models : RolesFor(m) = {}
  BY <1>2 DEF RolesFor
<1>7. ASSUME NEW m \in Models \ shared PROVE OneNames(m)
  BY <1>2, <1>4 DEF OneNames, Names, InFlight
<1>8. ASSUME NEW m \in Models PROVE Gone(m)
  <2>1. \A t \in Threads : Stripping(th[t], m, RolesFor(m))
    BY <1>4 DEF Stripping, Idle
  <2>2. \A t \in Threads : BootingOf(th[t], m) => m \in Installed
    BY <1>4, <1>5 DEF BootingOf, Idle
  <2>3. m \notin Installed => NoRow(m)
    BY <1>2, <1>3, <1>5 DEF NoRow
  <2>4. QED
    BY <1>6, <2>1, <2>2, <2>3 DEF Gone, Left
<1>9. QED
  BY <1>7, <1>8 DEF GoneInv

\* A removed model leaves no server behind, nor a row unless its removal broke
\* off, if no other operation named it, and no other process worked on its
\* files, at the time; provided that there was no such row when the runtime was
\* opened.
THEOREM RemovedModelsAreGone ==
  ASSUME RowsAreOfInstalled
  PROVE  Spec => []RemovedIsGone
<1> DEFINE Inv == TypeInv /\ Alone /\ FilesInv /\ GoneInv
<1>1. Init => Inv
  BY InitType, InitAlone, InitGone
<1>2. Inv /\ [Next]_vars => Inv'
  BY TypeStep, FilesInvStep, GoneStep
<1>3. Inv => RemovedIsGone
  <2>1. ASSUME Inv, NEW m \in Models \ Installed, m \notin shared \union contested,
               \A t \in Threads : m \notin Names(t)
        PROVE  RolesFor(m) = {} /\ (m \in cut \/ \A r \in Roles : bound[r] # m)
    <3>1. \A t \in Threads : ~ (th[t].pc \in {"erase", "clear"} /\ th[t].id = m)
      BY <2>1 DEF Names, InFlight, Idle
    <3>2. QED
      BY <2>1, <3>1 DEF GoneInv, Gone, Left, NoRow
  <2>2. QED
    BY <2>1 DEF RemovedIsGone
<1>4. QED
  BY <1>1, <1>2, <1>3, PTL DEF Spec
=============================================================================
