----------------------------- MODULE CommandRun -----------------------------
(***************************************************************************)
(* run_process of process.py and the three that call it: VerificationRunner*)
(* with a list of shell commands, CodexExecutor with a streamed attempt    *)
(* and CodexPlannerBackend with a captured one.                            *)
(*                                                                         *)
(* A command is a child that may leave a helper behind, a process of its   *)
(* own that keeps the child's end of the pipe open.  Of the two output     *)
(* streams, which are treated alike, there is one.  Output is counted in   *)
(* pieces; pieces are taken in order, so a number says what was taken.     *)
(* Heartbeats and the rendering of logs are left out.                      *)
(***************************************************************************)
EXTENDS Naturals, Sequences

CONSTANTS
  Sessions,    \* what is run: a set of sequences of kinds
  PromptFits,  \* the prompt fits the pipe to the child's input
  PipeSize,    \* pieces of output a pipe holds
  MaxPieces    \* bound: pieces a command writes

\* verify: a verification command.  probe: one of the commands that capture the
\* environment, all of which are run.  stream: an attempt of the executor.
\* capture: a call of the planner.
Kinds == {"verify", "probe", "stream", "capture"}

ASSUME CommandAssumption ==
  /\ Sessions \subseteq Seq(Kinds) \ {<<>>}
  /\ PromptFits \in BOOLEAN
  /\ PipeSize \in Nat \ {0}
  /\ MaxPieces \in Nat

VARIABLES
  session,   \* the kinds of the commands to run
  at,        \* what the calling thread is at
  child,     \* the process that was started
  code,      \* the exit code it ended with
  helper,    \* a process it started still holds the pipe
  fed,       \* it has read its prompt
  wrote,     \* pieces it has written
  got,       \* pieces taken out of the pipe and kept
  reader,    \* the thread that reads the pipe of a streamed command
  late,      \* the command's time is over
  output,    \* the ProcessOutput of the command that just ran
  results,   \* what is known of the commands that were run
  log        \* verification.log, or the record of the attempt, is written

own == <<at, output, results, log, reader>>
process == <<child, code, helper, fed, wrote>>
commandVars == <<session, own, process, got, late>>

Kind     == session[Len(results) + 1]
Streamed == Kind = "stream"
HasInput == Kind \in {"stream", "capture"}

NoOutput == [code |-> 0, timedOut |-> FALSE, pieces |-> 0, bytes |-> FALSE]

Outputs ==
  [code : {0, 1, 124}, timedOut : BOOLEAN, pieces : 0..MaxPieces, bytes : BOOLEAN]

\* After the fact: how the child really ended and what it really wrote.
Results ==
  [kind : Kinds, code : {0, 1, 124}, timedOut : BOOLEAN,
   pieces : 0..MaxPieces, child : {"exited", "killed"}, with : {0, 1, 124}, wrote : 0..MaxPieces]

CommandTypeOK ==
  /\ session \in Sessions
  /\ at \in {"spawn", "feed", "wait", "join", "record", "done", "raised"}
  /\ child \in {"none", "running", "exited", "killed"}
  /\ code \in {0, 1, 124}
  /\ helper \in BOOLEAN
  /\ fed \in BOOLEAN
  /\ wrote \in 0..MaxPieces
  /\ got \in 0..wrote
  /\ reader \in {"none", "reading", "finished", "broken"}
  /\ late \in BOOLEAN
  /\ output \in Outputs
  /\ results \in Seq(Results)
  /\ log \in BOOLEAN

CommandInit ==
  /\ session \in Sessions
  /\ at = "spawn"
  /\ child = "none"
  /\ code = 0
  /\ helper = FALSE
  /\ fed = FALSE
  /\ wrote = 0
  /\ got = 0
  /\ reader = "none"
  /\ late = FALSE
  /\ output = NoOutput
  /\ results = <<>>
  /\ log = FALSE

(***************************************************************************)
(* The command                                                             *)
(***************************************************************************)

ReadPrompt ==
  /\ child = "running" /\ HasInput /\ ~fed
  /\ at # "spawn"
  /\ fed' = TRUE
  /\ UNCHANGED <<session, own, child, code, helper, wrote, got, late>>

\* A full pipe holds the child up.
Write ==
  /\ child = "running"
  /\ wrote < MaxPieces
  /\ wrote - got < PipeSize
  /\ wrote' = wrote + 1
  /\ UNCHANGED <<session, own, child, code, helper, fed, got, late>>

StartHelper ==
  /\ child = "running"
  /\ helper' = TRUE
  /\ UNCHANGED <<session, own, child, code, fed, wrote, got, late>>

HelperEnds ==
  /\ helper
  /\ helper' = FALSE
  /\ UNCHANGED <<session, own, child, code, fed, wrote, got, late>>

Exit ==
  /\ child = "running"
  /\ child' = "exited"
  /\ code' \in {0, 1, 124}
  /\ UNCHANGED <<session, own, helper, fed, wrote, got, late>>

TimePasses ==
  /\ at \in {"feed", "wait"}
  /\ ~late
  /\ late' = TRUE
  /\ UNCHANGED <<session, own, process, got>>

(***************************************************************************)
(* run_process                                                             *)
(***************************************************************************)

Ended == child \in {"exited", "killed"}
EndOfFile == wrote = got /\ child # "running" /\ ~helper

\* A streamed command gets its reader first, then its prompt; subprocess.run
\* does both while it waits.
Spawn ==
  /\ at = "spawn"
  /\ child' = "running"
  /\ code' = 0
  /\ helper' = FALSE
  /\ fed' = FALSE
  /\ wrote' = 0
  /\ got' = 0
  /\ reader' = IF Streamed THEN "reading" ELSE "none"
  /\ late' = FALSE
  /\ at' = IF Streamed THEN "feed" ELSE "wait"
  /\ UNCHANGED <<session, output, results, log>>

\* process.stdin.write: it returns when the prompt fits the pipe, is read, or
\* nobody can read it any more (BrokenPipeError is ignored).
Feed ==
  /\ at = "feed"
  /\ PromptFits \/ fed \/ Ended
  /\ at' = "wait"
  /\ UNCHANGED <<session, output, results, log, reader, process, got, late>>

Killed == IF child = "running" THEN "killed" ELSE child

\* Variant for checking: the clock is read before the child is asked.
PollAfterClock ==
  /\ at = "wait" /\ Streamed
  /\ Ended \/ late
  /\ child' = Killed
  /\ output' = [NoOutput EXCEPT !.code = code, !.timedOut = late]
  /\ at' = "join"
  /\ UNCHANGED <<session, results, log, reader, code, helper, fed, wrote, got, late>>

\* Variant for checking: only the child ends the wait.
PollUntilExit ==
  /\ at = "wait" /\ Streamed
  /\ Ended
  /\ output' = [NoOutput EXCEPT !.code = code]
  /\ at' = "join"
  /\ UNCHANGED <<session, results, log, reader, process, got, late>>

\* The loop of _run_process_streamed: the child is asked before the clock.
Poll ==
  /\ at = "wait" /\ Streamed
  /\ Ended \/ late
  /\ child' = Killed
  /\ output' = IF Ended THEN [NoOutput EXCEPT !.code = code]
                        ELSE [NoOutput EXCEPT !.code = 124, !.timedOut = TRUE]
  /\ at' = "join"
  /\ UNCHANGED <<session, results, log, reader, code, helper, fed, wrote, got, late>>

\* read_stream.
ReaderTakes ==
  /\ reader = "reading"
  /\ got < wrote
  /\ got' = got + 1
  /\ reader' \in {"reading", "broken"}     \* stream_callback raised
  /\ UNCHANGED <<session, at, output, results, log, process, late>>

ReaderEnds ==
  /\ reader = "reading"
  /\ EndOfFile
  /\ reader' = "finished"
  /\ UNCHANGED <<session, at, output, results, log, process, got, late>>

\* The readers get a second to finish; what they have by then is the output.
Join ==
  /\ at = "join"
  /\ output' = [output EXCEPT !.pieces = got]
  /\ reader' = "none"
  /\ at' = "record"
  /\ UNCHANGED <<session, results, log, process, got, late>>

\* communicate() takes output until the pipe is closed ...
CommunicateTakes ==
  /\ at = "wait" /\ ~Streamed
  /\ got < wrote
  /\ got' = got + 1
  /\ UNCHANGED <<session, own, process, late>>

\* ... and then waits for the child.
CommunicateEnds ==
  /\ at = "wait" /\ ~Streamed
  /\ EndOfFile /\ Ended
  /\ output' = [NoOutput EXCEPT !.code = code, !.pieces = got]
  /\ at' = "record"
  /\ UNCHANGED <<session, results, log, reader, process, got, late>>

\* subprocess.run kills and waits; TimeoutExpired carries what was taken as
\* bytes, whatever text= says, or nothing.
CommunicateExpires ==
  /\ at = "wait" /\ ~Streamed
  /\ late
  /\ child' = Killed
  /\ output' = [code |-> 124, timedOut |-> TRUE, pieces |-> got, bytes |-> got > 0]
  /\ at' = "record"
  /\ UNCHANGED <<session, results, log, reader, code, helper, fed, wrote, got, late>>

(***************************************************************************)
(* The callers                                                             *)
(***************************************************************************)

\* stop_on_failure.
StopsTheRest == output.code # 0 /\ Kind # "probe"

\* stdout_path.write_text takes no bytes: the TypeError leaves the caller, with
\* neither result nor log.
Record ==
  /\ at = "record"
  /\ IF output.bytes
     THEN at' = "raised" /\ UNCHANGED <<results, log>>
     ELSE /\ results' = Append(results,
               [kind |-> Kind, code |-> output.code, timedOut |-> output.timedOut,
                pieces |-> output.pieces, child |-> child, with |-> code, wrote |-> wrote])
          /\ LET over == StopsTheRest \/ Len(results) + 1 = Len(session) IN
             /\ log' = over
             /\ at' = IF over THEN "done" ELSE "spawn"
  /\ UNCHANGED <<session, output, reader, process, got, late>>

Caller ==
  \/ Spawn \/ Feed \/ Poll \/ Join
  \/ CommunicateTakes \/ CommunicateEnds \/ CommunicateExpires
  \/ Record

Reader == ReaderTakes \/ ReaderEnds

CommandNext ==
  \/ ReadPrompt \/ Write \/ StartHelper \/ HelperEnds \/ Exit
  \/ TimePasses
  \/ Caller
  \/ Reader

\* The calling thread runs and time passes; a command need not do anything.
CommandSpec ==
  /\ CommandInit /\ [][CommandNext]_commandVars
  /\ WF_commandVars(Caller) /\ WF_commandVars(Reader) /\ WF_commandVars(TimePasses)

-----------------------------------------------------------------------------
(***************************************************************************)
(* Correctness                                                             *)
(***************************************************************************)

\* What is recorded of a command is what happened, however its end, its output
\* and the clock race: without a timeout the exit code is the child's own, also
\* when that is 124; one that was killed counts as timed out; captured output is
\* whole.  The commands are recorded in order; none ran after a verification that
\* failed, and those that are said to have passed are all there were
\* (_run_process_streamed, run_process, VerificationRunner.run).
ResultIsTrue ==
  /\ \A i \in DOMAIN results :
       LET r == results[i] IN
       /\ r.kind = session[i]
       /\ r.timedOut => r.code = 124
       /\ r.child = "killed" => r.timedOut
       /\ ~r.timedOut => r.code = r.with
       /\ ~r.timedOut /\ r.kind # "stream" => r.pieces = r.wrote
       /\ i < Len(results) => r.code = 0 \/ r.kind = "probe"
  /\ at = "done" =>
       Len(results) = Len(session) \/ results[Len(results)].code # 0

\* Every command comes to an end for its caller, if it hangs, forgets to read,
\* writes more than is read or leaves a process with its pipe.
CommandReturns ==
  [](at \in {"feed", "wait"} => <>(at \in {"spawn", "done", "raised"}))

\* "timeout for each verification command": one that is stopped there has a
\* result and a log like every other.  Not so of the code if it has printed
\* anything: the TypeError leaves the runner with neither.
TimeoutIsRecorded == at # "raised"
=============================================================================
