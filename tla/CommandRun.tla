------------------------------ MODULE CommandRun ------------------------------
(***************************************************************************)
(* One command run to its end (valyria-process): the child in a process    *)
(* group of its own, what it forks, two pipes drained side by side under a *)
(* cap, the supervisor with its token and its two deadlines, the kill of   *)
(* the group, and the verdict valyria-verify makes of it all.              *)
(*                                                                         *)
(* A byte is its position in its stream, so that a captured output says    *)
(* which bytes were kept.  What processes do is external: they write,      *)
(* fork, leave the group, close their output and exit as they like.        *)
(***************************************************************************)
EXTENDS Integers, Sequences

CONSTANTS
  Leader, Children,
  Runs,          \* what may be run, and under which deadlines
  MaxBytes,      \* max_output_bytes
  PipeSize,      \* bytes a pipe holds before a writer blocks
  MaxWritten,    \* bound: bytes in a stream, what the child will write included
  MaxTime        \* bound: the clock

Streams == {"stdout", "stderr"}
Processes == {Leader} \union Children
Never == -1
Codes == {"zero", "nonzero"}

ASSUME CommandAssumption ==
  /\ Leader \notin Children
  /\ \A r \in Runs : /\ r.command.todo \in Seq(Streams)
                     /\ r.command.hangs \in BOOLEAN
                     /\ {r.limits.timeout, r.limits.idle} \subseteq Nat \union {Never}
  /\ {MaxBytes, MaxWritten, MaxTime} \subseteq Nat
  /\ PipeSize \in Nat \ {0}

VARIABLES
  limits,    \* CommandSpec.timeout, idle_timeout
  command,   \* what the child has left to write, and whether it exits then
  born,      \* processes there have been
  alive,     \* processes there are
  group,     \* processes in the child's group
  doomed,    \* processes SIGKILL was sent to
  holds,     \* per stream, who has its write end open
  exit,      \* how the child ended
  written,   \* per stream, bytes written so far
  pipe,      \* per stream, bytes written and not yet read
  captured,  \* per stream, CappedOutput
  drained,   \* streams whose drain task has returned
  pc,        \* where `run` is
  reason,    \* EndReason
  status,    \* the exit status `run` got hold of
  token,     \* the CancellationToken
  now,       \* ticks since the start
  activity   \* last_activity

processes == <<command, born, alive, group, doomed, holds, exit, written>>
reading   == <<captured, drained, activity>>
running   == <<pc, reason, status>>
runVars == <<limits, processes, pipe, reading, running, token, now>>

Active == alive \ doomed

-----------------------------------------------------------------------------
(* CappedOutput.                                                           *)

HeadCap == MaxBytes \div 2
TailCap == MaxBytes - HeadCap

EmptyOutput == [buf |-> <<>>, head |-> <<>>, tail |-> <<>>, total |-> 0, truncated |-> FALSE]

\* The last TailCap bytes.
Rolled(bytes) ==
  IF Len(bytes) <= TailCap THEN bytes ELSE SubSeq(bytes, Len(bytes) - TailCap + 1, Len(bytes))

\* Faulty variant of Push: the chunk that crosses the cap is not kept.
PushLosing(c, chunk) ==
  IF c.truncated
    THEN [c EXCEPT !.total = @ + Len(chunk), !.tail = Rolled(@ \o chunk)]
  ELSE IF Len(c.buf \o chunk) <= MaxBytes
    THEN [c EXCEPT !.total = @ + Len(chunk), !.buf = @ \o chunk]
  ELSE [buf |-> <<>>, head |-> SubSeq(c.buf, 1, HeadCap),
        tail |-> Rolled(SubSeq(c.buf, HeadCap + 1, Len(c.buf))),
        total |-> c.total + Len(chunk), truncated |-> TRUE]

\* Everything, up to the cap; from then on a head and a rolling tail.
Push(c, chunk) ==
  LET all == c.buf \o chunk
  IN IF c.truncated
       THEN [c EXCEPT !.total = @ + Len(chunk), !.tail = Rolled(@ \o chunk)]
     ELSE IF Len(all) <= MaxBytes
       THEN [c EXCEPT !.total = @ + Len(chunk), !.buf = all]
     ELSE [buf |-> <<>>, head |-> SubSeq(all, 1, HeadCap),
           tail |-> Rolled(SubSeq(all, HeadCap + 1, Len(all))),
           total |-> c.total + Len(chunk), truncated |-> TRUE]

\* CapturedOutput: the bytes kept, and how many the marker says are elided.
IntoOutput(c) ==
  IF c.truncated
    THEN [kept |-> c.head \o c.tail, elided |-> c.total - Len(c.head) - Len(c.tail)]
    ELSE [kept |-> c.buf, elided |-> 0]

-----------------------------------------------------------------------------
(* The processes.                                                          *)

CanWrite(p, s) == p \in Active /\ p \in holds[s] /\ Len(pipe[s]) < PipeSize

Emit(s) ==
  /\ written' = [written EXCEPT ![s] = @ + 1]
  /\ pipe' = [pipe EXCEPT ![s] = Append(@, written'[s])]

LeaderWrites ==
  /\ command.todo # <<>>
  /\ CanWrite(Leader, Head(command.todo))
  /\ Emit(Head(command.todo))
  /\ command' = [command EXCEPT !.todo = Tail(@)]
  /\ UNCHANGED <<limits, born, alive, group, doomed, holds, exit, reading, running, token, now>>

ChildWrites(c, s) ==
  /\ CanWrite(c, s)
  /\ written[s] + Len(command.todo) < MaxWritten
  /\ Emit(s)
  /\ UNCHANGED <<limits, command, born, alive, group, doomed, holds, exit, reading, running,
                 token, now>>

\* The kernel closes what the process had open.
Leaves(p) ==
  /\ alive' = alive \ {p}
  /\ holds' = [s \in Streams |-> holds[s] \ {p}]

LeaderExits ==
  /\ Leader \in Active
  /\ command.todo = <<>> /\ ~command.hangs
  /\ exit' \in Codes
  /\ Leaves(Leader)
  /\ UNCHANGED <<limits, command, born, group, doomed, written, pipe, reading, running, token,
                 now>>

ChildExits(c) ==
  /\ c \in Active
  /\ Leaves(c)
  /\ UNCHANGED <<limits, command, born, group, doomed, exit, written, pipe, reading, running,
                 token, now>>

\* What is forked inherits the group and the pipes.
Forks(p, c) ==
  /\ p \in Active /\ c \notin born
  /\ born' = born \union {c}
  /\ alive' = alive \union {c}
  /\ group' = IF p \in group THEN group \union {c} ELSE group
  /\ holds' = [s \in Streams |-> IF p \in holds[s] THEN holds[s] \union {c} ELSE holds[s]]
  /\ UNCHANGED <<limits, command, doomed, exit, written, pipe, reading, running, token, now>>

\* setsid, as a daemon does.
LeavesGroup(c) ==
  /\ c \in Active
  /\ group' = group \ {c}
  /\ UNCHANGED <<limits, command, born, alive, doomed, holds, exit, written, pipe, reading,
                 running, token, now>>

ClosesOutput(c) ==
  /\ c \in Active
  /\ holds' = [s \in Streams |-> holds[s] \ {c}]
  /\ UNCHANGED <<limits, command, born, alive, group, doomed, exit, written, pipe, reading,
                 running, token, now>>

\* A signal takes its time: a process in an uninterruptible call dies late.
Dies(p) ==
  /\ p \in alive \intersect doomed
  /\ Leaves(p)
  /\ exit' = IF p = Leader THEN "signal" ELSE exit
  /\ UNCHANGED <<limits, command, born, group, doomed, written, pipe, reading, running, token,
                 now>>

-----------------------------------------------------------------------------
(* The drain tasks.                                                        *)

\* Faulty variant of MayDrain: stderr is read once stdout has ended.
MayDrainInTurn(s) == pc # "spawn" /\ s \notin drained /\ (s = "stderr" => "stdout" \in drained)

MayDrain(s) == pc # "spawn" /\ s \notin drained

Drain(s) ==
  /\ MayDrain(s)
  /\ pipe[s] # <<>>
  /\ captured' = [captured EXCEPT ![s] = Push(@, pipe[s])]
  /\ activity' = now
  /\ pipe' = [pipe EXCEPT ![s] = <<>>]
  /\ UNCHANGED <<limits, processes, drained, running, token, now>>

\* End of file: nobody has the write end any more.
DrainEnds(s) ==
  /\ MayDrain(s)
  /\ pipe[s] = <<>> /\ holds[s] = {}
  /\ drained' = drained \union {s}
  /\ UNCHANGED <<limits, processes, pipe, captured, activity, running, token, now>>

-----------------------------------------------------------------------------
(* run and supervise.                                                      *)

Spawn ==
  /\ pc = "spawn"
  /\ pc' = "supervise"
  /\ born' = {Leader} /\ alive' = {Leader} /\ group' = {Leader}
  /\ holds' = [s \in Streams |-> {Leader}]
  /\ UNCHANGED <<limits, command, doomed, exit, written, pipe, reading, reason, status, token, now>>

SpawnFails ==
  /\ pc = "spawn"
  /\ pc' = "failed"
  /\ UNCHANGED <<limits, processes, pipe, reading, reason, status, token, now>>

EndsFor(why, next) ==
  /\ pc = "supervise"
  /\ reason' = why
  /\ pc' = next
  /\ UNCHANGED <<limits, processes, pipe, reading, status, token, now>>

\* The select is biased: the token, then the exit, then the deadlines.
SeesCancel == token /\ EndsFor("Cancelled", "kill")
SeesExit   == ~token /\ exit # "running" /\ EndsFor("Exited", "reap")

Elapsed     == limits.timeout # Never /\ now >= limits.timeout
IdleElapsed == limits.idle # Never /\ now - activity >= limits.idle

PollTimesOut ==
  /\ ~token /\ exit = "running"
  /\ Elapsed
  /\ EndsFor("TimedOut", "kill")

PollIdlesOut ==
  /\ ~token /\ exit = "running"
  /\ ~Elapsed /\ IdleElapsed
  /\ EndsFor("IdleTimedOut", "kill")

\* Faulty variant of KillTargets: the child alone, not what it forked.
KillLeader == {Leader}

\* killpg
KillTargets == group

\* kill_process_group
Kill ==
  /\ pc = "kill"
  /\ doomed' = doomed \union (KillTargets \intersect alive)
  /\ pc' = "reap"
  /\ UNCHANGED <<limits, command, born, alive, group, holds, exit, written, pipe, reading, reason,
                 status, token, now>>

Reap ==
  /\ pc = "reap" /\ exit # "running"
  /\ status' = exit
  /\ pc' = "stdout"
  /\ UNCHANGED <<limits, processes, pipe, reading, reason, token, now>>

\* KILL_GRACE_PERIOD passes before the child is dead.
GracePasses ==
  /\ pc = "reap" /\ reason # "Exited"
  /\ pc' = "stdout"
  /\ UNCHANGED <<limits, processes, pipe, reading, reason, status, token, now>>

\* Both drain tasks are awaited, without a deadline and whatever the token says.
Join(s, next) ==
  /\ pc = s /\ s \in drained
  /\ pc' = next
  /\ UNCHANGED <<limits, processes, pipe, reading, reason, status, token, now>>

-----------------------------------------------------------------------------

Cancel ==
  /\ ~token
  /\ token' = TRUE
  /\ UNCHANGED <<limits, processes, pipe, reading, running, now>>

Tick ==
  /\ now < MaxTime /\ pc # "spawn"
  /\ now' = now + 1
  /\ UNCHANGED <<limits, processes, pipe, reading, running, token>>

RunInit ==
  /\ \E r \in Runs : command = r.command /\ limits = r.limits
  /\ born = {} /\ alive = {} /\ group = {} /\ doomed = {}
  /\ holds = [s \in Streams |-> {}]
  /\ exit = "running"
  /\ written = [s \in Streams |-> 0]
  /\ pipe = [s \in Streams |-> <<>>]
  /\ captured = [s \in Streams |-> EmptyOutput]
  /\ drained = {}
  /\ pc = "spawn" /\ reason = "none" /\ status = "none"
  /\ token = FALSE
  /\ now = 0 /\ activity = 0

\* Steps of the supervisor and the drain tasks.
RunSteps ==
  \/ Spawn \/ SpawnFails
  \/ SeesCancel \/ SeesExit \/ PollTimesOut \/ PollIdlesOut
  \/ Kill \/ Reap \/ GracePasses
  \/ Join("stdout", "stderr") \/ Join("stderr", "returned")

DrainSteps(s) == Drain(s) \/ DrainEnds(s)

LeaderSteps == LeaderWrites \/ LeaderExits

ChildSteps(c) ==
  \/ \E s \in Streams : ChildWrites(c, s)
  \/ ChildExits(c) \/ LeavesGroup(c) \/ ClosesOutput(c)
  \/ \E p \in Processes : Forks(p, c)

RunNext ==
  \/ RunSteps
  \/ \E s \in Streams : DrainSteps(s)
  \/ LeaderSteps
  \/ \E c \in Children : ChildSteps(c)
  \/ \E p \in Processes : Dies(p)
  \/ Cancel
  \/ Tick

RunSpec == RunInit /\ [][RunNext]_runVars

\* `run` and its drain tasks are polled, time passes, a signal arrives, and
\* a command that does not hang goes on.  What it has forked owes nothing.
FairRunSpec ==
  /\ RunSpec
  /\ WF_runVars(RunSteps) /\ WF_runVars(Tick) /\ WF_runVars(LeaderSteps)
  /\ \A s \in Streams : WF_runVars(DrainSteps(s))
  /\ \A p \in Processes : WF_runVars(Dies(p))

-----------------------------------------------------------------------------
(* What is made of it.                                                     *)

\* Faulty variant of Passed: the exit code alone.
PassedByCode == status = "zero"

\* ExecutionResult::success, and VerificationOutcome::Passed.
Passed == reason = "Exited" /\ status = "zero"

-----------------------------------------------------------------------------
(* Properties.                                                             *)

\* No process group survives a run that was cancelled or timed out (runner.rs
\* 1-4): whatever the child forked, also while it was being killed, has been
\* sent the signal by the time `run` looks for the exit status.
NoGroupSurvives ==
  reason \in {"TimedOut", "IdleTimedOut", "Cancelled"} /\ pc # "kill"
    => alive \intersect group \subseteq doomed

\* A check passes only if the child ended by itself with status zero, before
\* anything was killed: one that reaches its last line while the deadline
\* strikes has not passed.
PassIsEarned ==
  pc = "returned" /\ Passed => exit = "zero" /\ doomed = {}

\* What a run captured of a stream is all that was ever written to it, or
\* the first and the last bytes of it and the number of those between.
Expected(n) ==
  IF n <= MaxBytes
    THEN [kept |-> [i \in 1..n |-> i], elided |-> 0]
    ELSE [kept |-> [i \in 1..MaxBytes |-> IF i <= HeadCap THEN i ELSE n - MaxBytes + i],
          elided |-> n - MaxBytes]

OutputIsFaithful ==
  pc = "returned" => \A s \in Streams : IntoOutput(captured[s]) = Expected(written[s])

\* Who keeps `run` waiting: a process that has a pipe open and was out of
\* the kill's reach, because it left the group or because the child ended by
\* itself and nothing is killed then.
Held ==
  /\ pc \in Streams
  /\ \E p \in Active, s \in Streams : p \in holds[s] /\ (reason = "Exited" \/ p \notin group)

\* A run ends if its command does or if it has a deadline, unless it is held:
\* no command can block on its output for ever, and no deadline be missed.
RunEnds ==
  (~command.hangs \/ limits.timeout # Never) ~> (pc \in {"returned", "failed"} \/ Held)

=============================================================================
