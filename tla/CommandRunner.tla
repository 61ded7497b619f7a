---------------------------- MODULE CommandRunner ----------------------------
(***************************************************************************)
(* The commands of one build (internal/executor/worker.go): git and hubcell *)
(* run one after the other under the build's context, each with a goroutine *)
(* per pipe that copies its output to the log line by line.                  *)
(*                                                                          *)
(* os/exec, the pipes and the child are outside the repository: they are    *)
(* modelled by what Start, Wait and a Scanner do with them. hubcell is       *)
(* started through sudo, by a service that is not root itself.               *)
(***************************************************************************)
EXTENDS Integers, Sequences, SequencesExt

CONSTANTS Pipes,         \* the two pipes of a child
          Steps,         \* how many commands the build runs
          Sudo,          \* which of them are run by root, through sudo
          Outputs,       \* what a child may write: sequences of [pipe, line]
          PipeCapacity   \* lines a pipe holds before its writer blocks

\* A line is "short", or "long" if it does not fit the Scanner's buffer.
Line == {"short", "long"}

ASSUME StepAssumption == Steps \in Nat \ {0}
ASSUME SudoAssumption == Sudo \subseteq 1..Steps
ASSUME CapacityAssumption == PipeCapacity \in Nat \ {0}
ASSUME OutputAssumption == Outputs \subseteq Seq([pipe : Pipes, line : Line])

VARIABLES
    step,      \* the command the worker is at
    pc,        \* where executeCommandWithLogging is, "done" after the build
    result,    \* the error it returns
    verdict,   \* what failJob or succeedJob is told
    expired,   \* is the deadline of the context over?
    child,     \* the child process
    todo,      \* what the child has yet to write
    pipe,      \* what the kernel holds
    closed,    \* has Wait closed the read ends?
    buf,       \* what a Scanner has read and not returned yet
    reader,    \* the goroutines of streamPipe
    wrote,     \* history: what the child has written to each pipe
    logged     \* what of it is in the log

childVars  == <<child, todo, wrote>>
readerVars == <<buf, reader, logged>>
workerVars == <<step, result, verdict>>
vars == <<step, pc, result, verdict, expired, child, todo, pipe, closed, buf,
          reader, wrote, logged>>

RunnerTypeOK ==
    /\ step \in 1..Steps
    /\ pc \in {"start", "wait", "collect", "check", "done"}
    /\ result \in {"nil", "exit", "signal", "deadline", "refused"}
    /\ verdict \in {"none", "success", "failed", "timeout"}
    /\ expired \in BOOLEAN
    /\ child \in {"none", "running", "ok", "error", "killed"}
    /\ todo \in Seq([pipe : Pipes, line : Line])
    /\ pipe \in [Pipes -> Seq(Line)]
    /\ closed \in BOOLEAN
    /\ buf \in [Pipes -> Seq(Line)]
    /\ reader \in [Pipes -> {"reading", "stopped"}]
    /\ wrote \in [Pipes -> Seq(Line)]
    /\ logged \in [Pipes -> Seq(Line)]

Nothing == [p \in Pipes |-> <<>>]

Init ==
    /\ step = 1
    /\ pc = "start"
    /\ result = "nil"
    /\ verdict = "none"
    /\ expired = FALSE
    /\ child = "none"
    /\ todo = <<>>
    /\ pipe = Nothing
    /\ closed = FALSE
    /\ buf = Nothing
    /\ reader = [p \in Pipes |-> "stopped"]
    /\ wrote = Nothing
    /\ logged = Nothing

-----------------------------------------------------------------------------
(* The worker's goroutine. *)

\* The two readers and the child start; the child will write `output`.
Start(output) ==
    /\ pc = "start"
    /\ ~expired
    /\ pc' = "wait"
    /\ child' = "running"
    /\ todo' = output
    /\ pipe' = Nothing
    /\ closed' = FALSE
    /\ buf' = Nothing
    /\ reader' = [p \in Pipes |-> "reading"]
    /\ wrote' = Nothing
    /\ logged' = Nothing
    /\ UNCHANGED <<workerVars, expired>>

\* Start returns the context's error if it is over, another one if the program
\* cannot be run. It closes the pipes, which nobody has written to.
StartFails ==
    /\ pc = "start"
    /\ result' = IF expired THEN "deadline" ELSE "exit"
    /\ pc' = "check"
    /\ child' = "none"
    /\ UNCHANGED <<step, verdict, expired, todo, pipe, closed, readerVars, wrote>>

\* Wait returns once the child is gone, and closes the read ends of its pipes. It
\* prefers the child's own error to the context's or the one of a refused kill; the
\* context's is returned for a child that was dead, and well, when the kill reached
\* it.
WaitReturns ==
    /\ pc = "wait"
    /\ child \in {"ok", "error", "killed"}
    /\ \/ child = "ok" /\ result' = result
       \/ child = "ok" /\ expired /\ step \notin Sudo /\ result' = "deadline"
       \/ child = "error" /\ result' = "exit"
       \/ child = "killed" /\ result' = "signal"
    /\ closed' = TRUE
    /\ pc' = "collect"
    /\ UNCHANGED <<step, verdict, expired, childVars, pipe, readerVars>>

\* wg.Wait
CollectReaders ==
    /\ pc = "collect"
    /\ \A p \in Pipes : reader[p] = "stopped"
    /\ pc' = "check"
    /\ UNCHANGED <<workerVars, expired, childVars, pipe, closed, readerVars>>

\* Mutant: only the error of the command is looked at.
DeadlineError == result = "deadline"

IsTimeoutError == result = "deadline" \/ expired

\* Mutant: the last command is not recognised.
CheckResultOffByOne ==
    /\ pc = "check"
    /\ IF result = "nil" /\ step <= Steps
       THEN /\ pc' = "start"
            /\ step' = step + 1
            /\ UNCHANGED verdict
       ELSE /\ pc' = "done"
            /\ verdict' = IF result = "nil" THEN "success"
                          ELSE IF IsTimeoutError THEN "timeout" ELSE "failed"
            /\ UNCHANGED step
    /\ UNCHANGED <<result, expired, childVars, pipe, closed, readerVars>>

\* Go on to the next command, or end the build: failForStep, succeedJob.
CheckResult ==
    /\ pc = "check"
    /\ IF result = "nil" /\ step < Steps
       THEN /\ pc' = "start"
            /\ step' = step + 1
            /\ UNCHANGED verdict
       ELSE /\ pc' = "done"
            /\ verdict' = IF result = "nil" THEN "success"
                          ELSE IF IsTimeoutError THEN "timeout" ELSE "failed"
            /\ UNCHANGED step
    /\ UNCHANGED <<result, expired, childVars, pipe, closed, readerVars>>

Worker == \/ \E output \in Outputs : Start(output)
          \/ StartFails
          \/ WaitReturns
          \/ CollectReaders
          \/ CheckResult

-----------------------------------------------------------------------------
(* The context and the goroutine of os/exec that watches it. *)

Expire ==
    /\ ~expired
    /\ pc # "done"
    /\ expired' = TRUE
    /\ UNCHANGED <<workerVars, pc, childVars, pipe, closed, readerVars>>

\* Mutant: only the last command is run under the context.
KillLastCommand ==
    /\ child = "running"
    /\ expired
    /\ step = Steps
    /\ step \notin Sudo
    /\ child' = "killed"
    /\ UNCHANGED <<workerVars, pc, expired, todo, wrote, pipe, closed, readerVars>>

Kill ==
    /\ child = "running"
    /\ expired
    /\ step \notin Sudo
    /\ child' = "killed"
    /\ UNCHANGED <<workerVars, pc, expired, todo, wrote, pipe, closed, readerVars>>

\* The service is not root: its signal to a sudo is refused, and sent only once.
\* Wait will return the refusal if the command does well.
KillRefused ==
    /\ pc = "wait"
    /\ expired
    /\ step \in Sudo
    /\ result = "nil"
    /\ result' = "refused"
    /\ UNCHANGED <<step, verdict, pc, expired, childVars, pipe, closed, readerVars>>

-----------------------------------------------------------------------------
(* The child: it writes, blocked by a full pipe, and exits. It may stall. *)

ChildWrites ==
    /\ child = "running"
    /\ todo # <<>>
    /\ LET p == Head(todo).pipe
           line == Head(todo).line
       IN  /\ Len(pipe[p]) < PipeCapacity
           /\ pipe' = [pipe EXCEPT ![p] = Append(@, line)]
           /\ wrote' = [wrote EXCEPT ![p] = Append(@, line)]
    /\ todo' = Tail(todo)
    /\ UNCHANGED <<workerVars, pc, expired, child, closed, readerVars>>

ChildExits ==
    /\ child = "running"
    /\ todo = <<>>
    /\ child' \in {"ok", "error"}
    /\ UNCHANGED <<workerVars, pc, expired, todo, wrote, pipe, closed, readerVars>>

-----------------------------------------------------------------------------
(* streamPipe: a Scanner on each pipe. *)

\* A read takes what there is, up to the room in the buffer: of a long line it
\* leaves the rest in the pipe.
Read(p) ==
    /\ reader[p] = "reading"
    /\ buf[p] = <<>>
    /\ ~closed
    /\ \E n \in 1..Len(pipe[p]) :
          /\ \A i \in 1..(n - 1) : pipe[p][i] = "short"
          /\ buf' = [buf EXCEPT ![p] = SubSeq(pipe[p], 1, n)]
          /\ pipe' = [pipe EXCEPT ![p] =
                 SubSeq(@, IF @[n] = "long" THEN n ELSE n + 1, Len(@))]
    /\ UNCHANGED <<workerVars, pc, expired, childVars, closed, reader, logged>>

\* Mutant: a long line is dropped and the scan goes on.
DropLongLine(p) ==
    /\ reader[p] = "reading"
    /\ buf[p] # <<>>
    /\ buf' = [buf EXCEPT ![p] = Tail(@)]
    /\ IF Head(buf[p]) = "short"
       THEN logged' = [logged EXCEPT ![p] = Append(@, "short")] /\ UNCHANGED pipe
       ELSE pipe' = [pipe EXCEPT ![p] = Tail(@)] /\ UNCHANGED logged
    /\ UNCHANGED <<workerVars, pc, expired, childVars, closed, reader>>

\* Scan returns a line, or gives up at one that is too long.
LogLine(p) ==
    /\ reader[p] = "reading"
    /\ buf[p] # <<>>
    /\ buf' = [buf EXCEPT ![p] = Tail(@)]
    /\ IF Head(buf[p]) = "short"
       THEN logged' = [logged EXCEPT ![p] = Append(@, "short")] /\ UNCHANGED reader
       ELSE reader' = [reader EXCEPT ![p] = "stopped"] /\ UNCHANGED logged
    /\ UNCHANGED <<workerVars, pc, expired, childVars, pipe, closed>>

\* End of file, or an error because Wait has closed the pipe.
EndOfPipe(p) ==
    /\ reader[p] = "reading"
    /\ buf[p] = <<>>
    /\ closed \/ (child # "running" /\ pipe[p] = <<>>)
    /\ reader' = [reader EXCEPT ![p] = "stopped"]
    /\ UNCHANGED <<workerVars, pc, expired, childVars, pipe, closed, buf, logged>>

StreamPipe(p) == Read(p) \/ LogLine(p) \/ EndOfPipe(p)

-----------------------------------------------------------------------------
Next == \/ Worker
        \/ Expire
        \/ Kill
        \/ KillRefused
        \/ ChildWrites
        \/ ChildExits
        \/ \E p \in Pipes : StreamPipe(p)

Spec == Init /\ [][Next]_vars

\* The goroutines run, the clock goes on, a signal is delivered or refused. The
\* child owes nothing.
Fairness == /\ WF_vars(Worker)
            /\ WF_vars(Expire)
            /\ WF_vars(Kill \/ KillRefused)
            /\ \A p \in Pipes : WF_vars(StreamPipe(p))

FairSpec == Spec /\ Fairness

-----------------------------------------------------------------------------
(* Properties. *)

\* What is missing of a stream in the log is missing at its end: no line is
\* logged after one that was lost, to a long line or to the closed pipe.
LogHasNoHoles == \A p \in Pipes : IsPrefix(logged[p], wrote[p])

\* A build whose command was killed at the deadline is said to have timed out,
\* although Wait returns the signal and not the context's error; and so is one
\* whose command did well, if the kill came too late or was refused.
KilledIsTimeout ==
    pc = "done" /\ (child = "killed" \/ result \in {"deadline", "refused"})
        => verdict = "timeout"

\* A build ends although its commands stall, or block on a pipe that nobody reads
\* any more because of a long line: unless the one that does is run by root, which
\* the kill at the deadline does not reach. As packaged, hubcell is.
BuildEnds ==
    \/ <>(pc = "done")
    \/ <>[](child = "running" /\ step \in Sudo /\ result = "refused")

\* GET logs "returns the raw text logs of the build process": of a child that
\* exited by itself every line is there when the command is over. (The code
\* calls Wait, which closes the pipes, before the readers are done, and a reader
\* stops at a long line.)
LogIsComplete ==
    pc \in {"check", "done"} /\ child \in {"ok", "error"} => logged = wrote
=============================================================================
