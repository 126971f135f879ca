---------------------------- MODULE MatlabServer ----------------------------
(***************************************************************************)
(* How a rank drives ISSM: every rank owns a MATLAB process, started by    *)
(* _MatlabServer.launch (matlab2python/mat2py_utils.py) and looping in     *)
(* matlab_server.m, and talks to it through two files: the rank creates the*)
(* command file, MATLAB executes it and deletes it; MATLAB announces itself*)
(* in the status file.  Neither side locks anything, and a launch          *)
(* terminates every non-GUI MATLAB process of its node.                    *)
(*                                                                         *)
(* A rank sends run_model commands 1..Commands, the model steps of one     *)
(* member, whose input and output share one file (_issm_model.py), then    *)
(* 'exit'.  SIGTERM is taken to act at once.  No caller of send_command    *)
(* passes a timeout and the default is 12960000*1000 s, so a command never *)
(* times out here; a launch does, after 10000 s.                           *)
(***************************************************************************)
EXTENDS Integers

CONSTANTS
  Ranks,
  Node,         \* Node[r]: the machine rank r runs on
  Commands,     \* run_model commands a rank sends
  MaxTimeouts   \* bound on starts of MATLAB that exceed their timeout

ASSUME ServerAssumption == Commands \in Nat /\ MaxTimeouts \in Nat

(* Contents of a command file: none, none yet, the n-th command, 'exit'.   *)
Absent == -1
Empty == 0
Exit == Commands + 1
Texts == Absent..Exit

VARIABLES
  pc,        \* pc[r]: where rank r is
  sent,      \* sent[r]: number of the command rank r sent last
  cmdfile,   \* cmdfile[r], statusfile[r]: the two files of rank r
  statusfile,
  output,    \* ensemble_output_{ens_id}.h5: the input or output of a command
  matlab,    \* matlab[r]: what the MATLAB process of rank r is doing
  job,       \* job[r]: the command it read last
  runs,      \* runs[r][n]: how often this process has executed command n
  done,      \* done[r]: the commands it has executed without an error
  timeouts

vars == <<pc, sent, cmdfile, statusfile, output, matlab, job, runs, done,
          timeouts>>
files == <<cmdfile, statusfile, output>>
server == <<matlab, job, runs, done>>

NoRuns == [n \in 1..Commands |-> 0]
Alive(r) == matlab[r] \notin {"none", "ended", "dead"}

(* An earlier job may have left its files behind, and its server running.  *)
Init ==
  /\ pc = [r \in Ranks |-> "kill"]
  /\ sent = [r \in Ranks |-> 0]
  /\ cmdfile \in [Ranks -> {Absent, Exit - 1}]
  /\ statusfile \in [Ranks -> {"absent", "ready"}]
  /\ output = [r \in Ranks |-> [command |-> 0, holds |-> "output"]]
  /\ matlab \in [Ranks -> {"none", "looping"}]
  /\ job = [r \in Ranks |-> 0]
  /\ runs = [r \in Ranks |-> NoRuns]
  /\ done = [r \in Ranks |-> {}]
  /\ timeouts = 0

Goto(r, label) == pc' = [pc EXCEPT ![r] = label]
MatlabGoto(r, label) == matlab' = [matlab EXCEPT ![r] = label]

-----------------------------------------------------------------------------
(* launch, on the first use of the server.                                 *)

Kill(r) ==
  /\ pc[r] = "kill"
  /\ matlab' = [q \in Ranks |-> IF Node[q] = Node[r] /\ Alive(q)
                                THEN "dead" ELSE matlab[q]]
  /\ Goto(r, "clean")
  /\ UNCHANGED <<sent, files, job, runs, done, timeouts>>

\* Mutant: only the status file of the earlier job is removed.
Clean_KeepsCommand(r) ==
  /\ pc[r] = "clean"
  /\ statusfile' = [statusfile EXCEPT ![r] = "absent"]
  /\ Goto(r, "spawn")
  /\ UNCHANGED <<sent, cmdfile, output, server, timeouts>>

\* Mutant: only the command file of the earlier job is removed.
Clean_KeepsStatus(r) ==
  /\ pc[r] = "clean"
  /\ cmdfile' = [cmdfile EXCEPT ![r] = Absent]
  /\ Goto(r, "spawn")
  /\ UNCHANGED <<sent, statusfile, output, server, timeouts>>

Clean(r) ==
  /\ pc[r] = "clean"
  /\ cmdfile' = [cmdfile EXCEPT ![r] = Absent]
  /\ statusfile' = [statusfile EXCEPT ![r] = "absent"]
  /\ Goto(r, "spawn")
  /\ UNCHANGED <<sent, output, server, timeouts>>

Spawn(r) ==
  /\ pc[r] = "spawn"
  /\ MatlabGoto(r, "starting")
  /\ runs' = [runs EXCEPT ![r] = NoRuns]
  /\ done' = [done EXCEPT ![r] = {}]
  /\ Goto(r, "await")
  /\ UNCHANGED <<sent, files, job, timeouts>>

SeeStatus(r) ==
  /\ pc[r] = "await" /\ statusfile[r] # "absent"
  /\ Goto(r, "check")
  /\ UNCHANGED <<sent, files, server, timeouts>>

(* killpg, then sys.exit(1).                                               *)
GiveUp(r) ==
  /\ MatlabGoto(r, "dead")
  /\ Goto(r, "exited")
  /\ UNCHANGED <<sent, files, job, runs, done>>

CheckStatus(r) ==
  /\ pc[r] = "check"
  /\ UNCHANGED timeouts
  /\ \/ /\ statusfile[r] = "ready"
        /\ Goto(r, "ready")
        /\ UNCHANGED <<sent, files, server>>
     \/ statusfile[r] # "ready" /\ GiveUp(r)

(* After 10000 s: MATLAB was killed meanwhile, or is that slow.            *)
LaunchTimeout(r) ==
  /\ pc[r] = "await" /\ statusfile[r] = "absent"
  /\ \/ ~Alive(r) /\ UNCHANGED timeouts
     \/ Alive(r) /\ timeouts < MaxTimeouts /\ timeouts' = timeouts + 1
  /\ GiveUp(r)

-----------------------------------------------------------------------------
(* run_model and send_command.                                             *)

\* Mutant: one command more than there are model steps.
SendCommand_PastEnd(r) ==
  /\ pc[r] = "ready" /\ sent[r] <= Commands
  /\ output' = [output EXCEPT ![r] = [command |-> sent[r] + 1, holds |-> "input"]]
  /\ sent' = [sent EXCEPT ![r] = @ + 1]
  /\ Goto(r, "open")
  /\ UNCHANGED <<cmdfile, statusfile, server, timeouts>>

\* Mutant: the input is written for the first command only.
SendCommand_KeepsFile(r) ==
  /\ pc[r] = "ready" /\ sent[r] < Commands
  /\ output' = IF sent[r] = 0
               THEN [output EXCEPT ![r] = [command |-> 1, holds |-> "input"]]
               ELSE output
  /\ sent' = [sent EXCEPT ![r] = @ + 1]
  /\ Goto(r, "open")
  /\ UNCHANGED <<cmdfile, statusfile, server, timeouts>>

SendCommand(r) ==
  /\ pc[r] = "ready" /\ sent[r] < Commands
  /\ output' = [output EXCEPT ![r] = [command |-> sent[r] + 1, holds |-> "input"]]
  /\ sent' = [sent EXCEPT ![r] = @ + 1]
  /\ Goto(r, "open")
  /\ UNCHANGED <<cmdfile, statusfile, server, timeouts>>

(* open(cmdfile, 'w') creates or empties the file; the text arrives when it*)
(* is closed, and nowhere if MATLAB has deleted the file in between.       *)
Open(r) ==
  /\ pc[r] = "open"
  /\ cmdfile' = [cmdfile EXCEPT ![r] = Empty]
  /\ Goto(r, "write")
  /\ UNCHANGED <<sent, statusfile, output, server, timeouts>>

Write(r) ==
  /\ pc[r] = "write"
  /\ cmdfile' = [cmdfile EXCEPT ![r] = IF @ = Absent THEN Absent ELSE sent[r]]
  /\ Goto(r, "poll")
  /\ UNCHANGED <<sent, statusfile, output, server, timeouts>>

(* The file is gone: send_command returns True.                            *)
Poll(r) ==
  /\ pc[r] = "poll" /\ cmdfile[r] = Absent
  /\ Goto(r, IF sent[r] = Exit THEN "communicate" ELSE "returned")
  /\ UNCHANGED <<sent, files, server, timeouts>>

(* run_model reads the file it wrote the input to as the forecast.         *)
ReadOutput(r) ==
  /\ pc[r] = "returned"
  /\ Goto(r, "ready")
  /\ UNCHANGED <<sent, files, server, timeouts>>

Shutdown(r) ==
  /\ pc[r] = "ready" /\ sent[r] = Commands
  /\ sent' = [sent EXCEPT ![r] = Exit]
  /\ Goto(r, "open")
  /\ UNCHANGED <<files, server, timeouts>>

\* Mutant: a server that does not exit in time is left alone.
EndServer_NoKill(r) ==
  /\ pc[r] = "communicate"
  /\ Goto(r, "done")
  /\ UNCHANGED <<sent, files, server, timeouts>>

(* communicate(timeout=5) sees the process end; otherwise the process group*)
(* is killed.                                                              *)
EndServer(r) ==
  /\ pc[r] = "communicate"
  /\ IF Alive(r) THEN MatlabGoto(r, "dead") ELSE UNCHANGED matlab
  /\ Goto(r, "done")
  /\ UNCHANGED <<sent, files, job, runs, done, timeouts>>

-----------------------------------------------------------------------------
(* matlab_server.m.                                                        *)

OpenStatus(r) ==
  /\ matlab[r] = "starting"
  /\ statusfile' = [statusfile EXCEPT ![r] = "empty"]
  /\ MatlabGoto(r, "announcing")
  /\ UNCHANGED <<pc, sent, cmdfile, output, job, runs, done, timeouts>>

WriteReady(r) ==
  /\ matlab[r] = "announcing"
  /\ statusfile' = [statusfile EXCEPT ![r] = "ready"]
  /\ MatlabGoto(r, "looping")
  /\ UNCHANGED <<pc, sent, cmdfile, output, job, runs, done, timeouts>>

FindCommand(r) ==
  /\ matlab[r] = "looping" /\ cmdfile[r] # Absent
  /\ MatlabGoto(r, "found")
  /\ UNCHANGED <<pc, sent, files, job, runs, done, timeouts>>

(* An empty file has no line to trim: the error ends in the catch branch.  *)
ReadEmpty(r) ==
  /\ matlab[r] = "found" /\ cmdfile[r] = Empty
  /\ MatlabGoto(r, "deleting")
  /\ UNCHANGED <<pc, sent, files, job, runs, done, timeouts>>

\* Mutant: MATLAB ends without deleting the command file.
ReadExit_KeepsFile(r) ==
  /\ matlab[r] = "found" /\ cmdfile[r] = Exit
  /\ statusfile' = [statusfile EXCEPT ![r] = "absent"]
  /\ MatlabGoto(r, "ended")
  /\ UNCHANGED <<pc, sent, cmdfile, output, job, runs, done, timeouts>>

ReadExit(r) ==
  /\ matlab[r] = "found" /\ cmdfile[r] = Exit
  /\ cmdfile' = [cmdfile EXCEPT ![r] = Absent]
  /\ statusfile' = [statusfile EXCEPT ![r] = "absent"]
  /\ MatlabGoto(r, "ended")
  /\ UNCHANGED <<pc, sent, output, job, runs, done, timeouts>>

ReadCommand(r) ==
  /\ matlab[r] = "found" /\ cmdfile[r] \in 1..Commands
  /\ job' = [job EXCEPT ![r] = cmdfile[r]]
  /\ runs' = [runs EXCEPT ![r][cmdfile[r]] = @ + 1]
  /\ MatlabGoto(r, "running")
  /\ UNCHANGED <<pc, sent, files, done, timeouts>>

Succeed(r) ==
  /\ matlab[r] = "running"
  /\ output' = [output EXCEPT ![r] = [command |-> job[r], holds |-> "output"]]
  /\ done' = [done EXCEPT ![r] = @ \cup {job[r]}]
  /\ MatlabGoto(r, "reporting")
  /\ UNCHANGED <<pc, sent, cmdfile, statusfile, job, runs, timeouts>>

Report(r) ==
  /\ matlab[r] = "reporting"
  /\ statusfile' = [statusfile EXCEPT ![r] = "done"]
  /\ MatlabGoto(r, "deleting")
  /\ UNCHANGED <<pc, sent, cmdfile, output, job, runs, done, timeouts>>

\* Mutant: the command file of a failed command is left in place.
Fail_KeepsCommand(r) ==
  /\ matlab[r] = "running"
  /\ MatlabGoto(r, "looping")
  /\ UNCHANGED <<pc, sent, files, job, runs, done, timeouts>>

(* The command raises a MATLAB error, which is caught and printed.         *)
Fail(r) ==
  /\ matlab[r] = "running"
  /\ MatlabGoto(r, "deleting")
  /\ UNCHANGED <<pc, sent, files, job, runs, done, timeouts>>

DeleteCommand(r) ==
  /\ matlab[r] = "deleting"
  /\ cmdfile' = [cmdfile EXCEPT ![r] = Absent]
  /\ MatlabGoto(r, "looping")
  /\ UNCHANGED <<pc, sent, statusfile, output, job, runs, done, timeouts>>

-----------------------------------------------------------------------------
Rank(r) ==
  \/ Kill(r) \/ Clean(r) \/ Spawn(r) \/ SeeStatus(r) \/ CheckStatus(r)
  \/ LaunchTimeout(r)
  \/ SendCommand(r) \/ Open(r) \/ Write(r) \/ Poll(r)
  \/ ReadOutput(r) \/ Shutdown(r) \/ EndServer(r)

Matlab(r) ==
  \/ OpenStatus(r) \/ WriteReady(r) \/ FindCommand(r)
  \/ ReadEmpty(r) \/ ReadExit(r) \/ ReadCommand(r)
  \/ Succeed(r) \/ Report(r) \/ Fail(r) \/ DeleteCommand(r)

Next == \E r \in Ranks : Rank(r) \/ Matlab(r)

(* Both processes keep being scheduled, and ISSM ends its run.  (Where a   *)
(* timeout is the only step of a waiting rank, it is due.)                 *)
Spec == /\ Init /\ [][Next]_vars
        /\ \A r \in Ranks : WF_vars(Rank(r)) /\ WF_vars(Matlab(r))

-----------------------------------------------------------------------------
(* Properties.                                                             *)

TypeOK ==
  /\ pc \in [Ranks -> {"kill", "clean", "spawn", "await", "check", "ready", "open",
                       "write", "poll", "returned", "communicate", "done", "exited"}]
  /\ sent \in [Ranks -> 0..Exit]
  /\ cmdfile \in [Ranks -> Texts]
  /\ statusfile \in [Ranks -> {"absent", "empty", "ready", "done"}]
  /\ output \in [Ranks -> [command : 0..Commands, holds : {"input", "output"}]]
  /\ matlab \in [Ranks -> {"none", "starting", "announcing", "looping", "found",
                           "running", "reporting", "deleting", "ended", "dead"}]
  /\ job \in [Ranks -> 0..Commands]
  /\ runs \in [Ranks -> [1..Commands -> Nat]]
  /\ done \in [Ranks -> SUBSET (1..Commands)]
  /\ timeouts \in 0..MaxTimeouts

(* No server executes a command twice, whatever is caught, deleted or      *)
(* overwritten on the way: a model step applied twice moves the member two *)
(* steps.                                                                  *)
RunsAtMostOnce == \A r \in Ranks, n \in 1..Commands : runs[r][n] <= 1

(* A server executes only commands its rank has sent since it launched it: *)
(* nothing an earlier job left in the command file, nothing from the       *)
(* future.                                                                 *)
RunsOnlySentCommands ==
  \A r \in Ranks : pc[r] \notin {"kill", "clean"} /\ matlab[r] = "running" =>
    job[r] \in 1..sent[r]

(* A launch returns only when its own MATLAB is in its loop, or has been   *)
(* killed since: a status file of an earlier job never passes for it.      *)
LaunchedServerIsUp ==
  \A r \in Ranks : pc[r] = "ready" => matlab[r] \notin {"none", "starting", "announcing"}

(* What run_model returns as the forecast of a step is the output or the   *)
(* input of that step, never an earlier step's, and it stays so while the  *)
(* rank reads it: MATLAB is through with the command.                      *)
ForecastOfThisStep ==
  \A r \in Ranks : pc[r] = "returned" =>
    output[r].command = sent[r] /\ matlab[r] # "running"

(* A rank that has shut its server down, or given it up, leaves no MATLAB  *)
(* process behind.                                                         *)
NoServerLeft ==
  \A r \in Ranks : pc[r] \in {"done", "exited"} => ~Alive(r)

(* Every rank comes to its end, except one whose MATLAB was killed by      *)
(* another rank's launch: errors, empty reads and lost commands, the lost  *)
(* 'exit' included, do not hang it.                                        *)
EndsUnlessKilled ==
  \A r \in Ranks :
    <>[](pc[r] \in {"done", "exited"} \/ matlab[r] = "dead")
-----------------------------------------------------------------------------
(* What is said of the code and does not hold: see Disagreements, README.md *)

(* send_command: "True if the command was processed successfully".         *)
ReturnsTrueWhenProcessed ==
  \A r \in Ranks : pc[r] = "returned" => sent[r] \in done[r]
=============================================================================
