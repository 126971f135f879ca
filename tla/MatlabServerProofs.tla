------------------------- MODULE MatlabServerProofs -------------------------
(***************************************************************************)
(* Theorems about MatlabServer, for any number of ranks, machines and      *)
(* commands: whatever an earlier job left, and whichever rank's launch     *)
(* kills whose server when, a server executes what its rank sent, once.    *)
(***************************************************************************)
EXTENDS MatlabServer, TLAPS

-----------------------------------------------------------------------------
(* The inductive invariant, rank by rank.                                  *)

Launched(r) == pc[r] \notin {"kill", "clean"}
Busy == {"found", "running", "reporting", "deleting"}

(* What a rank has sent where it is.                                       *)
SentInv(r) ==
  /\ pc[r] \in {"kill", "clean", "spawn", "await", "check"} => sent[r] = 0
  /\ pc[r] = "ready" => sent[r] \in 0..Commands
  /\ pc[r] \in {"open", "write", "poll"} => sent[r] \in 1..Exit
  /\ pc[r] = "returned" => sent[r] \in 1..Commands

(* Between launch and first command the server gets into its loop, and     *)
(* what the status file says of it is so; when it does not, it is given up.*)
StatusInv(r) ==
  /\ pc[r] \in {"clean", "spawn", "done", "exited"} => ~Alive(r)
  /\ pc[r] = "spawn" => statusfile[r] = "absent"
  /\ pc[r] \in {"await", "check"} =>
       /\ matlab[r] \in {"starting", "announcing", "looping", "dead"}
       /\ matlab[r] = "starting" => statusfile[r] = "absent"
       /\ matlab[r] = "announcing" => statusfile[r] = "empty"
  /\ pc[r] \in {"kill", "ready", "open", "write", "poll", "returned", "communicate"} =>
       matlab[r] \notin {"starting", "announcing"}
  /\ pc[r] \in {"ready", "open", "write", "poll", "returned", "communicate"} =>
       matlab[r] # "none"

(* The command file holds an earlier job's command before the launch, and  *)
(* after it, while the rank waits for an answer, the command sent last.    *)
CommandInv(r) ==
  /\ pc[r] = "kill" => cmdfile[r] \in {Absent, Commands}
  /\ Launched(r) /\ pc[r] \notin {"write", "poll"} => cmdfile[r] = Absent
  /\ pc[r] = "write" => cmdfile[r] \in {Absent, Empty}
  /\ pc[r] = "poll" => cmdfile[r] \in {Absent, sent[r]}

(* The server deletes a command only when it is through with it.           *)
ServerInv(r) ==
  /\ matlab[r] \in Busy => cmdfile[r] # Absent
  /\ matlab[r] \in {"running", "reporting"} => job[r] \in 1..Commands
  /\ Launched(r) /\ matlab[r] \in {"running", "reporting"} =>
       pc[r] = "poll" /\ job[r] = sent[r]

(* A command that was executed is one that was sent, and no server is about*)
(* to read it again.                                                       *)
OnceInv(r) ==
  \A n \in 1..Commands :
    /\ runs[r][n] \in {0, 1}
    /\ pc[r] \notin {"kill", "clean", "spawn"} /\ n > sent[r] => runs[r][n] = 0
    /\ pc[r] \in {"open", "write"} /\ n = sent[r] => runs[r][n] = 0
    /\ pc[r] = "kill" /\ n # Commands => runs[r][n] = 0
    /\ cmdfile[r] = n /\ matlab[r] \in {"looping", "found"} => runs[r][n] = 0

(* The file of input and output is that of the command under way.          *)
OutputInv(r) ==
  pc[r] \in {"open", "write", "poll", "returned"} /\ sent[r] <= Commands =>
    output[r].command = sent[r]

RankInv(r) == /\ SentInv(r) /\ StatusInv(r) /\ CommandInv(r)
              /\ ServerInv(r) /\ OnceInv(r) /\ OutputInv(r)

IInv == TypeOK /\ \A r \in Ranks : RankInv(r)

-----------------------------------------------------------------------------
(* Numbers of commands are integers.                                       *)
LEMMA Numbers == /\ Commands \in Nat /\ Exit = Commands + 1
                 /\ Absent = -1 /\ Empty = 0 /\ Texts = -1..(Commands + 1)
BY ServerAssumption DEF Exit, Absent, Empty, Texts

LEMMA InitTyped == Init => IInv
<1> SUFFICES ASSUME Init PROVE IInv
  OBVIOUS
<1>1. TypeOK
  BY Numbers, ServerAssumption DEF Init, TypeOK, NoRuns
<1>2. ASSUME NEW r \in Ranks
      PROVE  RankInv(r)
  <2>1. SentInv(r) /\ StatusInv(r) /\ CommandInv(r) /\ ServerInv(r) /\ OutputInv(r)
    BY Numbers DEF Init, SentInv, StatusInv, CommandInv, ServerInv, OutputInv,
       Launched, Busy, Alive
  <2>2. OnceInv(r)
    BY Numbers DEF Init, OnceInv, Launched, NoRuns
  <2> QED BY <2>1, <2>2 DEF RankInv
<1> QED BY <1>1, <1>2 DEF IInv

(* A rank that nothing happened to keeps its invariant; a server that is   *)
(* killed is one less to care about.                                       *)
LEMMA OthersKeep ==
  ASSUME IInv, NEW r \in Ranks,
         pc'[r] = pc[r], sent'[r] = sent[r], cmdfile'[r] = cmdfile[r],
         statusfile'[r] = statusfile[r], output'[r] = output[r],
         job'[r] = job[r], runs'[r] = runs[r],
         matlab'[r] \in {matlab[r], "dead"}
  PROVE  RankInv(r)'
<1> USE DEF IInv, RankInv
<1>1. SentInv(r)' /\ CommandInv(r)' /\ OutputInv(r)'
  BY DEF SentInv, CommandInv, OutputInv, Launched
<1>2. StatusInv(r)'
  BY DEF StatusInv, Alive
<1>3. ServerInv(r)'
  BY DEF ServerInv, Launched, Busy
<1>4. OnceInv(r)'
  BY DEF OnceInv, Launched
<1> QED BY <1>1, <1>2, <1>3, <1>4

(* The steps of a launch after its kill.                                    *)
LEMMA LaunchKeeps ==
  ASSUME IInv, NEW r \in Ranks,
         Clean(r) \/ Spawn(r) \/ SeeStatus(r)
         \/ CheckStatus(r) \/ LaunchTimeout(r)
  PROVE  RankInv(r)'
<1>1. IInv /\ TypeOK /\ RankInv(r)
  BY DEF IInv
<1> USE Numbers DEF RankInv
<1>2. CASE Clean(r)
  <2>1. /\ pc[r] = "clean"
        /\ pc'[r] = "spawn" /\ cmdfile'[r] = Absent /\ statusfile'[r] = "absent"
        /\ sent'[r] = sent[r] /\ output'[r] = output[r] /\ matlab'[r] = matlab[r]
        /\ job'[r] = job[r] /\ runs'[r] = runs[r]
    BY <1>1, <1>2 DEF Clean, Goto, MatlabGoto, files, server, TypeOK
  <2>2. SentInv(r)'
    BY <1>1, <2>1 DEF SentInv
  <2>3. StatusInv(r)' /\ CommandInv(r)'
    BY <1>1, <2>1 DEF SentInv, StatusInv, CommandInv, ServerInv, Launched, Busy, Alive
  <2>4. ServerInv(r)'
    BY <1>1, <2>1 DEF SentInv, StatusInv, CommandInv, ServerInv, Launched, Busy, Alive
  <2>5. OnceInv(r)'
    BY <1>1, <2>1 DEF SentInv, StatusInv, CommandInv, ServerInv, OnceInv, NoRuns, Launched, Busy, Alive
  <2>6. OutputInv(r)'
    BY <1>1, <2>1 DEF SentInv, CommandInv, ServerInv, OutputInv, Launched
  <2> QED BY <2>2, <2>3, <2>4, <2>5, <2>6
<1>3. CASE Spawn(r)
  <2>1. /\ pc[r] = "spawn"
        /\ pc'[r] = "await" /\ matlab'[r] = "starting" /\ runs'[r] = NoRuns
        /\ sent'[r] = sent[r] /\ cmdfile'[r] = cmdfile[r] /\ statusfile'[r] = statusfile[r]
        /\ output'[r] = output[r] /\ job'[r] = job[r]
    BY <1>1, <1>3 DEF Spawn, Goto, MatlabGoto, files, server, TypeOK
  <2>2. SentInv(r)'
    BY <1>1, <2>1 DEF SentInv
  <2>3. StatusInv(r)' /\ CommandInv(r)'
    BY <1>1, <2>1 DEF SentInv, StatusInv, CommandInv, ServerInv, Launched, Busy, Alive
  <2>4. ServerInv(r)'
    BY <1>1, <2>1 DEF SentInv, StatusInv, CommandInv, ServerInv, Launched, Busy, Alive
  <2>5. OnceInv(r)'
    BY <1>1, <2>1 DEF SentInv, StatusInv, CommandInv, ServerInv, OnceInv, NoRuns, Launched, Busy, Alive
  <2>6. OutputInv(r)'
    BY <1>1, <2>1 DEF SentInv, CommandInv, ServerInv, OutputInv, Launched
  <2> QED BY <2>2, <2>3, <2>4, <2>5, <2>6
<1>4. CASE SeeStatus(r)
  <2>1. /\ pc[r] = "await"
        /\ pc'[r] = "check"
        /\ sent'[r] = sent[r] /\ cmdfile'[r] = cmdfile[r] /\ statusfile'[r] = statusfile[r]
        /\ output'[r] = output[r] /\ matlab'[r] = matlab[r] /\ job'[r] = job[r]
        /\ runs'[r] = runs[r]
    BY <1>1, <1>4 DEF SeeStatus, Goto, MatlabGoto, files, server, TypeOK
  <2>2. SentInv(r)'
    BY <1>1, <2>1 DEF SentInv
  <2>3. StatusInv(r)' /\ CommandInv(r)'
    BY <1>1, <2>1 DEF SentInv, StatusInv, CommandInv, ServerInv, Launched, Busy, Alive
  <2>4. ServerInv(r)'
    BY <1>1, <2>1 DEF SentInv, StatusInv, CommandInv, ServerInv, Launched, Busy, Alive
  <2>5. OnceInv(r)'
    BY <1>1, <2>1 DEF SentInv, StatusInv, CommandInv, ServerInv, OnceInv, NoRuns, Launched, Busy, Alive
  <2>6. OutputInv(r)'
    BY <1>1, <2>1 DEF SentInv, CommandInv, ServerInv, OutputInv, Launched
  <2> QED BY <2>2, <2>3, <2>4, <2>5, <2>6
<1>5. CASE CheckStatus(r)
  <2>1. /\ pc[r] = "check" /\ sent'[r] = sent[r] /\ cmdfile'[r] = cmdfile[r]
        /\ statusfile'[r] = statusfile[r] /\ output'[r] = output[r]
        /\ job'[r] = job[r] /\ runs'[r] = runs[r]
        /\ \/ statusfile[r] = "ready" /\ pc'[r] = "ready" /\ matlab'[r] = matlab[r]
           \/ pc'[r] = "exited" /\ matlab'[r] = "dead"
    BY <1>1, <1>5 DEF CheckStatus, GiveUp, Goto, MatlabGoto, files, server, TypeOK
  <2>2. SentInv(r)'
    BY <1>1, <2>1 DEF SentInv
  <2>3. StatusInv(r)' /\ CommandInv(r)'
    BY <1>1, <2>1 DEF SentInv, StatusInv, CommandInv, ServerInv, Launched, Busy, Alive
  <2>4. ServerInv(r)'
    BY <1>1, <2>1 DEF SentInv, StatusInv, CommandInv, ServerInv, Launched, Busy, Alive
  <2>5. OnceInv(r)'
    BY <1>1, <2>1 DEF SentInv, StatusInv, CommandInv, ServerInv, OnceInv, NoRuns, Launched, Busy, Alive
  <2>6. OutputInv(r)'
    BY <1>1, <2>1 DEF SentInv, CommandInv, ServerInv, OutputInv, Launched
  <2> QED BY <2>2, <2>3, <2>4, <2>5, <2>6
<1>6. CASE LaunchTimeout(r)
  <2>1. /\ pc[r] = "await"
        /\ pc'[r] = "exited" /\ matlab'[r] = "dead"
        /\ sent'[r] = sent[r] /\ cmdfile'[r] = cmdfile[r] /\ statusfile'[r] = statusfile[r]
        /\ output'[r] = output[r] /\ job'[r] = job[r] /\ runs'[r] = runs[r]
    BY <1>1, <1>6 DEF LaunchTimeout, GiveUp, Goto, MatlabGoto, files, server, TypeOK
  <2>2. SentInv(r)'
    BY <1>1, <2>1 DEF SentInv
  <2>3. StatusInv(r)' /\ CommandInv(r)'
    BY <1>1, <2>1 DEF SentInv, StatusInv, CommandInv, ServerInv, Launched, Busy, Alive
  <2>4. ServerInv(r)'
    BY <1>1, <2>1 DEF SentInv, StatusInv, CommandInv, ServerInv, Launched, Busy, Alive
  <2>5. OnceInv(r)'
    BY <1>1, <2>1 DEF SentInv, StatusInv, CommandInv, ServerInv, OnceInv, NoRuns, Launched, Busy, Alive
  <2>6. OutputInv(r)'
    BY <1>1, <2>1 DEF SentInv, CommandInv, ServerInv, OutputInv, Launched
  <2> QED BY <2>2, <2>3, <2>4, <2>5, <2>6
<1> QED BY <1>2, <1>3, <1>4, <1>5, <1>6

(* The steps of a command, and of the shutdown.                             *)
LEMMA CommandKeeps ==
  ASSUME IInv, NEW r \in Ranks,
         SendCommand(r) \/ Open(r) \/ Write(r) \/ Poll(r)
         \/ ReadOutput(r) \/ Shutdown(r) \/ EndServer(r)
  PROVE  RankInv(r)'
<1>1. IInv /\ TypeOK /\ RankInv(r)
  BY DEF IInv
<1> USE Numbers DEF RankInv
<1>2. CASE SendCommand(r)
  <2>1. /\ pc[r] = "ready" /\ sent[r] < Commands
        /\ pc'[r] = "open" /\ sent'[r] = sent[r] + 1 /\ output'[r] = [command |-> sent[r] + 1, holds |-> "input"]
        /\ cmdfile'[r] = cmdfile[r] /\ statusfile'[r] = statusfile[r] /\ matlab'[r] = matlab[r]
        /\ job'[r] = job[r] /\ runs'[r] = runs[r]
    BY <1>1, <1>2 DEF SendCommand, Goto, MatlabGoto, files, server, TypeOK
  <2>2. SentInv(r)'
    BY <1>1, <2>1 DEF SentInv
  <2>3. StatusInv(r)' /\ CommandInv(r)'
    BY <1>1, <2>1 DEF SentInv, StatusInv, CommandInv, ServerInv, Launched, Busy, Alive
  <2>4. ServerInv(r)'
    BY <1>1, <2>1 DEF SentInv, StatusInv, CommandInv, ServerInv, Launched, Busy, Alive
  <2>5. OnceInv(r)'
    BY <1>1, <2>1 DEF SentInv, StatusInv, CommandInv, ServerInv, OnceInv, NoRuns, Launched, Busy, Alive
  <2>6. OutputInv(r)'
    BY <1>1, <2>1 DEF SentInv, CommandInv, ServerInv, OutputInv, Launched
  <2> QED BY <2>2, <2>3, <2>4, <2>5, <2>6
<1>3. CASE Open(r)
  <2>1. /\ pc[r] = "open"
        /\ pc'[r] = "write" /\ cmdfile'[r] = Empty
        /\ sent'[r] = sent[r] /\ statusfile'[r] = statusfile[r] /\ output'[r] = output[r]
        /\ matlab'[r] = matlab[r] /\ job'[r] = job[r] /\ runs'[r] = runs[r]
    BY <1>1, <1>3 DEF Open, Goto, MatlabGoto, files, server, TypeOK
  <2>2. SentInv(r)'
    BY <1>1, <2>1 DEF SentInv
  <2>3. StatusInv(r)' /\ CommandInv(r)'
    BY <1>1, <2>1 DEF SentInv, StatusInv, CommandInv, ServerInv, Launched, Busy, Alive
  <2>4. ServerInv(r)'
    BY <1>1, <2>1 DEF SentInv, StatusInv, CommandInv, ServerInv, Launched, Busy, Alive
  <2>5. OnceInv(r)'
    BY <1>1, <2>1 DEF SentInv, StatusInv, CommandInv, ServerInv, OnceInv, NoRuns, Launched, Busy, Alive
  <2>6. OutputInv(r)'
    BY <1>1, <2>1 DEF SentInv, CommandInv, ServerInv, OutputInv, Launched
  <2> QED BY <2>2, <2>3, <2>4, <2>5, <2>6
<1>4. CASE Write(r)
  <2>1. /\ pc[r] = "write"
        /\ pc'[r] = "poll" /\ cmdfile'[r] = (IF cmdfile[r] = Absent THEN Absent ELSE sent[r])
        /\ sent'[r] = sent[r] /\ statusfile'[r] = statusfile[r] /\ output'[r] = output[r]
        /\ matlab'[r] = matlab[r] /\ job'[r] = job[r] /\ runs'[r] = runs[r]
    BY <1>1, <1>4 DEF Write, Goto, MatlabGoto, files, server, TypeOK
  <2>2. SentInv(r)'
    BY <1>1, <2>1 DEF SentInv
  <2>3. StatusInv(r)' /\ CommandInv(r)'
    BY <1>1, <2>1 DEF SentInv, StatusInv, CommandInv, ServerInv, Launched, Busy, Alive
  <2>4. ServerInv(r)'
    BY <1>1, <2>1 DEF SentInv, StatusInv, CommandInv, ServerInv, Launched, Busy, Alive
  <2>5. OnceInv(r)'
    BY <1>1, <2>1 DEF SentInv, StatusInv, CommandInv, ServerInv, OnceInv, NoRuns, Launched, Busy, Alive
  <2>6. OutputInv(r)'
    BY <1>1, <2>1 DEF SentInv, CommandInv, ServerInv, OutputInv, Launched
  <2> QED BY <2>2, <2>3, <2>4, <2>5, <2>6
<1>5. CASE Poll(r)
  <2>1. /\ pc[r] = "poll" /\ cmdfile[r] = Absent
        /\ pc'[r] = (IF sent[r] = Exit THEN "communicate" ELSE "returned")
        /\ sent'[r] = sent[r] /\ cmdfile'[r] = cmdfile[r] /\ statusfile'[r] = statusfile[r]
        /\ output'[r] = output[r] /\ matlab'[r] = matlab[r] /\ job'[r] = job[r]
        /\ runs'[r] = runs[r]
    BY <1>1, <1>5 DEF Poll, Goto, MatlabGoto, files, server, TypeOK
  <2>2. SentInv(r)'
    BY <1>1, <2>1 DEF SentInv
  <2>3. StatusInv(r)' /\ CommandInv(r)'
    BY <1>1, <2>1 DEF SentInv, StatusInv, CommandInv, ServerInv, Launched, Busy, Alive
  <2>4. ServerInv(r)'
    BY <1>1, <2>1 DEF SentInv, StatusInv, CommandInv, ServerInv, Launched, Busy, Alive
  <2>5. OnceInv(r)'
    BY <1>1, <2>1 DEF SentInv, StatusInv, CommandInv, ServerInv, OnceInv, NoRuns, Launched, Busy, Alive
  <2>6. OutputInv(r)'
    BY <1>1, <2>1 DEF SentInv, CommandInv, ServerInv, OutputInv, Launched
  <2> QED BY <2>2, <2>3, <2>4, <2>5, <2>6
<1>6. CASE ReadOutput(r)
  <2>1. /\ pc[r] = "returned"
        /\ pc'[r] = "ready"
        /\ sent'[r] = sent[r] /\ cmdfile'[r] = cmdfile[r] /\ statusfile'[r] = statusfile[r]
        /\ output'[r] = output[r] /\ matlab'[r] = matlab[r] /\ job'[r] = job[r]
        /\ runs'[r] = runs[r]
    BY <1>1, <1>6 DEF ReadOutput, Goto, MatlabGoto, files, server, TypeOK
  <2>2. SentInv(r)'
    BY <1>1, <2>1 DEF SentInv
  <2>3. StatusInv(r)' /\ CommandInv(r)'
    BY <1>1, <2>1 DEF SentInv, StatusInv, CommandInv, ServerInv, Launched, Busy, Alive
  <2>4. ServerInv(r)'
    BY <1>1, <2>1 DEF SentInv, StatusInv, CommandInv, ServerInv, Launched, Busy, Alive
  <2>5. OnceInv(r)'
    BY <1>1, <2>1 DEF SentInv, StatusInv, CommandInv, ServerInv, OnceInv, NoRuns, Launched, Busy, Alive
  <2>6. OutputInv(r)'
    BY <1>1, <2>1 DEF SentInv, CommandInv, ServerInv, OutputInv, Launched
  <2> QED BY <2>2, <2>3, <2>4, <2>5, <2>6
<1>7. CASE Shutdown(r)
  <2>1. /\ pc[r] = "ready" /\ sent[r] = Commands
        /\ pc'[r] = "open" /\ sent'[r] = Exit
        /\ cmdfile'[r] = cmdfile[r] /\ statusfile'[r] = statusfile[r] /\ output'[r] = output[r]
        /\ matlab'[r] = matlab[r] /\ job'[r] = job[r] /\ runs'[r] = runs[r]
    BY <1>1, <1>7 DEF Shutdown, Goto, MatlabGoto, files, server, TypeOK
  <2>2. SentInv(r)'
    BY <1>1, <2>1 DEF SentInv
  <2>3. StatusInv(r)' /\ CommandInv(r)'
    BY <1>1, <2>1 DEF SentInv, StatusInv, CommandInv, ServerInv, Launched, Busy, Alive
  <2>4. ServerInv(r)'
    BY <1>1, <2>1 DEF SentInv, StatusInv, CommandInv, ServerInv, Launched, Busy, Alive
  <2>5. OnceInv(r)'
    BY <1>1, <2>1 DEF SentInv, StatusInv, CommandInv, ServerInv, OnceInv, NoRuns, Launched, Busy, Alive
  <2>6. OutputInv(r)'
    BY <1>1, <2>1 DEF SentInv, CommandInv, ServerInv, OutputInv, Launched
  <2> QED BY <2>2, <2>3, <2>4, <2>5, <2>6
<1>8. CASE EndServer(r)
  <2>1. /\ pc[r] = "communicate"
        /\ pc'[r] = "done" /\ matlab'[r] = (IF Alive(r) THEN "dead" ELSE matlab[r])
        /\ sent'[r] = sent[r] /\ cmdfile'[r] = cmdfile[r] /\ statusfile'[r] = statusfile[r]
        /\ output'[r] = output[r] /\ job'[r] = job[r] /\ runs'[r] = runs[r]
    BY <1>1, <1>8 DEF EndServer, Goto, MatlabGoto, files, server, TypeOK
  <2>2. SentInv(r)'
    BY <1>1, <2>1 DEF SentInv
  <2>3. StatusInv(r)' /\ CommandInv(r)'
    BY <1>1, <2>1 DEF SentInv, StatusInv, CommandInv, ServerInv, Launched, Busy, Alive
  <2>4. ServerInv(r)'
    BY <1>1, <2>1 DEF SentInv, StatusInv, CommandInv, ServerInv, Launched, Busy, Alive
  <2>5. OnceInv(r)'
    BY <1>1, <2>1 DEF SentInv, StatusInv, CommandInv, ServerInv, OnceInv, NoRuns, Launched, Busy, Alive
  <2>6. OutputInv(r)'
    BY <1>1, <2>1 DEF SentInv, CommandInv, ServerInv, OutputInv, Launched
  <2> QED BY <2>2, <2>3, <2>4, <2>5, <2>6
<1> QED BY <1>2, <1>3, <1>4, <1>5, <1>6, <1>7, <1>8

(* The steps of the server.                                                 *)
LEMMA ServerKeeps ==
  ASSUME IInv, NEW r \in Ranks,
         Matlab(r)
  PROVE  RankInv(r)'
<1>1. IInv /\ TypeOK /\ RankInv(r)
  BY DEF IInv
<1> USE Numbers DEF RankInv
<1>2. CASE OpenStatus(r)
  <2>1. /\ matlab[r] = "starting"
        /\ statusfile'[r] = "empty" /\ matlab'[r] = "announcing"
        /\ pc'[r] = pc[r] /\ sent'[r] = sent[r] /\ cmdfile'[r] = cmdfile[r]
        /\ output'[r] = output[r] /\ job'[r] = job[r] /\ runs'[r] = runs[r]
    BY <1>1, <1>2 DEF OpenStatus, Goto, MatlabGoto, files, server, TypeOK
  <2>2. SentInv(r)'
    BY <1>1, <2>1 DEF SentInv
  <2>3. StatusInv(r)' /\ CommandInv(r)'
    BY <1>1, <2>1 DEF SentInv, StatusInv, CommandInv, ServerInv, Launched, Busy, Alive
  <2>4. ServerInv(r)'
    BY <1>1, <2>1 DEF SentInv, StatusInv, CommandInv, ServerInv, Launched, Busy, Alive
  <2>5. OnceInv(r)'
    BY <1>1, <2>1 DEF SentInv, StatusInv, CommandInv, ServerInv, OnceInv, NoRuns, Launched, Busy, Alive
  <2>6. OutputInv(r)'
    BY <1>1, <2>1 DEF SentInv, CommandInv, ServerInv, OutputInv, Launched
  <2> QED BY <2>2, <2>3, <2>4, <2>5, <2>6
<1>3. CASE WriteReady(r)
  <2>1. /\ matlab[r] = "announcing"
        /\ statusfile'[r] = "ready" /\ matlab'[r] = "looping"
        /\ pc'[r] = pc[r] /\ sent'[r] = sent[r] /\ cmdfile'[r] = cmdfile[r]
        /\ output'[r] = output[r] /\ job'[r] = job[r] /\ runs'[r] = runs[r]
    BY <1>1, <1>3 DEF WriteReady, Goto, MatlabGoto, files, server, TypeOK
  <2>2. SentInv(r)'
    BY <1>1, <2>1 DEF SentInv
  <2>3. StatusInv(r)' /\ CommandInv(r)'
    BY <1>1, <2>1 DEF SentInv, StatusInv, CommandInv, ServerInv, Launched, Busy, Alive
  <2>4. ServerInv(r)'
    BY <1>1, <2>1 DEF SentInv, StatusInv, CommandInv, ServerInv, Launched, Busy, Alive
  <2>5. OnceInv(r)'
    BY <1>1, <2>1 DEF SentInv, StatusInv, CommandInv, ServerInv, OnceInv, NoRuns, Launched, Busy, Alive
  <2>6. OutputInv(r)'
    BY <1>1, <2>1 DEF SentInv, CommandInv, ServerInv, OutputInv, Launched
  <2> QED BY <2>2, <2>3, <2>4, <2>5, <2>6
<1>4. CASE FindCommand(r)
  <2>1. /\ matlab[r] = "looping" /\ cmdfile[r] # Absent
        /\ matlab'[r] = "found"
        /\ pc'[r] = pc[r] /\ sent'[r] = sent[r] /\ cmdfile'[r] = cmdfile[r]
        /\ statusfile'[r] = statusfile[r] /\ output'[r] = output[r] /\ job'[r] = job[r]
        /\ runs'[r] = runs[r]
    BY <1>1, <1>4 DEF FindCommand, Goto, MatlabGoto, files, server, TypeOK
  <2>2. SentInv(r)'
    BY <1>1, <2>1 DEF SentInv
  <2>3. StatusInv(r)' /\ CommandInv(r)'
    BY <1>1, <2>1 DEF SentInv, StatusInv, CommandInv, ServerInv, Launched, Busy, Alive
  <2>4. ServerInv(r)'
    BY <1>1, <2>1 DEF SentInv, StatusInv, CommandInv, ServerInv, Launched, Busy, Alive
  <2>5. OnceInv(r)'
    BY <1>1, <2>1 DEF SentInv, StatusInv, CommandInv, ServerInv, OnceInv, NoRuns, Launched, Busy, Alive
  <2>6. OutputInv(r)'
    BY <1>1, <2>1 DEF SentInv, CommandInv, ServerInv, OutputInv, Launched
  <2> QED BY <2>2, <2>3, <2>4, <2>5, <2>6
<1>5. CASE ReadEmpty(r)
  <2>1. /\ matlab[r] = "found" /\ cmdfile[r] = Empty
        /\ matlab'[r] = "deleting"
        /\ pc'[r] = pc[r] /\ sent'[r] = sent[r] /\ cmdfile'[r] = cmdfile[r]
        /\ statusfile'[r] = statusfile[r] /\ output'[r] = output[r] /\ job'[r] = job[r]
        /\ runs'[r] = runs[r]
    BY <1>1, <1>5 DEF ReadEmpty, Goto, MatlabGoto, files, server, TypeOK
  <2>2. SentInv(r)'
    BY <1>1, <2>1 DEF SentInv
  <2>3. StatusInv(r)' /\ CommandInv(r)'
    BY <1>1, <2>1 DEF SentInv, StatusInv, CommandInv, ServerInv, Launched, Busy, Alive
  <2>4. ServerInv(r)'
    BY <1>1, <2>1 DEF SentInv, StatusInv, CommandInv, ServerInv, Launched, Busy, Alive
  <2>5. OnceInv(r)'
    BY <1>1, <2>1 DEF SentInv, StatusInv, CommandInv, ServerInv, OnceInv, NoRuns, Launched, Busy, Alive
  <2>6. OutputInv(r)'
    BY <1>1, <2>1 DEF SentInv, CommandInv, ServerInv, OutputInv, Launched
  <2> QED BY <2>2, <2>3, <2>4, <2>5, <2>6
<1>6. CASE ReadExit(r)
  <2>1. /\ matlab[r] = "found" /\ cmdfile[r] = Exit
        /\ cmdfile'[r] = Absent /\ statusfile'[r] = "absent" /\ matlab'[r] = "ended"
        /\ pc'[r] = pc[r] /\ sent'[r] = sent[r] /\ output'[r] = output[r]
        /\ job'[r] = job[r] /\ runs'[r] = runs[r]
    BY <1>1, <1>6 DEF ReadExit, Goto, MatlabGoto, files, server, TypeOK
  <2>2. SentInv(r)'
    BY <1>1, <2>1 DEF SentInv
  <2>3. StatusInv(r)' /\ CommandInv(r)'
    BY <1>1, <2>1 DEF SentInv, StatusInv, CommandInv, ServerInv, Launched, Busy, Alive
  <2>4. ServerInv(r)'
    BY <1>1, <2>1 DEF SentInv, StatusInv, CommandInv, ServerInv, Launched, Busy, Alive
  <2>5. OnceInv(r)'
    BY <1>1, <2>1 DEF SentInv, StatusInv, CommandInv, ServerInv, OnceInv, NoRuns, Launched, Busy, Alive
  <2>6. OutputInv(r)'
    BY <1>1, <2>1 DEF SentInv, CommandInv, ServerInv, OutputInv, Launched
  <2> QED BY <2>2, <2>3, <2>4, <2>5, <2>6
<1>7. CASE ReadCommand(r)
  <2>1. /\ matlab[r] = "found" /\ cmdfile[r] \in 1..Commands
        /\ matlab'[r] = "running" /\ job'[r] = cmdfile[r] /\ runs'[r] = [runs[r] EXCEPT ![cmdfile[r]] = @ + 1]
        /\ pc'[r] = pc[r] /\ sent'[r] = sent[r] /\ cmdfile'[r] = cmdfile[r]
        /\ statusfile'[r] = statusfile[r] /\ output'[r] = output[r]
    BY <1>1, <1>7 DEF ReadCommand, Goto, MatlabGoto, files, server, TypeOK
  <2>2. SentInv(r)'
    BY <1>1, <2>1 DEF SentInv
  <2>3. StatusInv(r)' /\ CommandInv(r)'
    BY <1>1, <2>1 DEF SentInv, StatusInv, CommandInv, ServerInv, Launched, Busy, Alive
  <2>4. ServerInv(r)'
    BY <1>1, <2>1 DEF SentInv, StatusInv, CommandInv, ServerInv, Launched, Busy, Alive
  <2>5. OnceInv(r)'
    BY <1>1, <2>1 DEF SentInv, StatusInv, CommandInv, ServerInv, OnceInv, NoRuns, Launched, Busy, Alive
  <2>6. OutputInv(r)'
    BY <1>1, <2>1 DEF SentInv, CommandInv, ServerInv, OutputInv, Launched
  <2> QED BY <2>2, <2>3, <2>4, <2>5, <2>6
<1>8. CASE Succeed(r)
  <2>1. /\ matlab[r] = "running"
        /\ output'[r] = [command |-> job[r], holds |-> "output"] /\ matlab'[r] = "reporting"
        /\ pc'[r] = pc[r] /\ sent'[r] = sent[r] /\ cmdfile'[r] = cmdfile[r]
        /\ statusfile'[r] = statusfile[r] /\ job'[r] = job[r] /\ runs'[r] = runs[r]
    BY <1>1, <1>8 DEF Succeed, Goto, MatlabGoto, files, server, TypeOK
  <2>2. SentInv(r)'
    BY <1>1, <2>1 DEF SentInv
  <2>3. StatusInv(r)' /\ CommandInv(r)'
    BY <1>1, <2>1 DEF SentInv, StatusInv, CommandInv, ServerInv, Launched, Busy, Alive
  <2>4. ServerInv(r)'
    BY <1>1, <2>1 DEF SentInv, StatusInv, CommandInv, ServerInv, Launched, Busy, Alive
  <2>5. OnceInv(r)'
    BY <1>1, <2>1 DEF SentInv, StatusInv, CommandInv, ServerInv, OnceInv, NoRuns, Launched, Busy, Alive
  <2>6. OutputInv(r)'
    BY <1>1, <2>1 DEF SentInv, CommandInv, ServerInv, OutputInv, Launched
  <2> QED BY <2>2, <2>3, <2>4, <2>5, <2>6
<1>9. CASE Report(r)
  <2>1. /\ matlab[r] = "reporting"
        /\ statusfile'[r] = "done" /\ matlab'[r] = "deleting"
        /\ pc'[r] = pc[r] /\ sent'[r] = sent[r] /\ cmdfile'[r] = cmdfile[r]
        /\ output'[r] = output[r] /\ job'[r] = job[r] /\ runs'[r] = runs[r]
    BY <1>1, <1>9 DEF Report, Goto, MatlabGoto, files, server, TypeOK
  <2>2. SentInv(r)'
    BY <1>1, <2>1 DEF SentInv
  <2>3. StatusInv(r)' /\ CommandInv(r)'
    BY <1>1, <2>1 DEF SentInv, StatusInv, CommandInv, ServerInv, Launched, Busy, Alive
  <2>4. ServerInv(r)'
    BY <1>1, <2>1 DEF SentInv, StatusInv, CommandInv, ServerInv, Launched, Busy, Alive
  <2>5. OnceInv(r)'
    BY <1>1, <2>1 DEF SentInv, StatusInv, CommandInv, ServerInv, OnceInv, NoRuns, Launched, Busy, Alive
  <2>6. OutputInv(r)'
    BY <1>1, <2>1 DEF SentInv, CommandInv, ServerInv, OutputInv, Launched
  <2> QED BY <2>2, <2>3, <2>4, <2>5, <2>6
<1>10. CASE Fail(r)
  <2>1. /\ matlab[r] = "running"
        /\ matlab'[r] = "deleting"
        /\ pc'[r] = pc[r] /\ sent'[r] = sent[r] /\ cmdfile'[r] = cmdfile[r]
        /\ statusfile'[r] = statusfile[r] /\ output'[r] = output[r] /\ job'[r] = job[r]
        /\ runs'[r] = runs[r]
    BY <1>1, <1>10 DEF Fail, Goto, MatlabGoto, files, server, TypeOK
  <2>2. SentInv(r)'
    BY <1>1, <2>1 DEF SentInv
  <2>3. StatusInv(r)' /\ CommandInv(r)'
    BY <1>1, <2>1 DEF SentInv, StatusInv, CommandInv, ServerInv, Launched, Busy, Alive
  <2>4. ServerInv(r)'
    BY <1>1, <2>1 DEF SentInv, StatusInv, CommandInv, ServerInv, Launched, Busy, Alive
  <2>5. OnceInv(r)'
    BY <1>1, <2>1 DEF SentInv, StatusInv, CommandInv, ServerInv, OnceInv, NoRuns, Launched, Busy, Alive
  <2>6. OutputInv(r)'
    BY <1>1, <2>1 DEF SentInv, CommandInv, ServerInv, OutputInv, Launched
  <2> QED BY <2>2, <2>3, <2>4, <2>5, <2>6
<1>11. CASE DeleteCommand(r)
  <2>1. /\ matlab[r] = "deleting"
        /\ cmdfile'[r] = Absent /\ matlab'[r] = "looping"
        /\ pc'[r] = pc[r] /\ sent'[r] = sent[r] /\ statusfile'[r] = statusfile[r]
        /\ output'[r] = output[r] /\ job'[r] = job[r] /\ runs'[r] = runs[r]
    BY <1>1, <1>11 DEF DeleteCommand, Goto, MatlabGoto, files, server, TypeOK
  <2>2. SentInv(r)'
    BY <1>1, <2>1 DEF SentInv
  <2>3. StatusInv(r)' /\ CommandInv(r)'
    BY <1>1, <2>1 DEF SentInv, StatusInv, CommandInv, ServerInv, Launched, Busy, Alive
  <2>4. ServerInv(r)'
    BY <1>1, <2>1 DEF SentInv, StatusInv, CommandInv, ServerInv, Launched, Busy, Alive
  <2>5. OnceInv(r)'
    BY <1>1, <2>1 DEF SentInv, StatusInv, CommandInv, ServerInv, OnceInv, NoRuns, Launched, Busy, Alive
  <2>6. OutputInv(r)'
    BY <1>1, <2>1 DEF SentInv, CommandInv, ServerInv, OutputInv, Launched
  <2> QED BY <2>2, <2>3, <2>4, <2>5, <2>6
<1> QED BY <1>2, <1>3, <1>4, <1>5, <1>6, <1>7, <1>8, <1>9, <1>10, <1>11 DEF Matlab

(* The launch's kill ends the rank's own server, and those of its machine. *)
LEMMA KillKeeps ==
  ASSUME IInv, NEW r \in Ranks, Kill(r)
  PROVE  \A q \in Ranks : RankInv(q)'
<1>1. TypeOK /\ \A q \in Ranks : RankInv(q)
  BY DEF IInv
<1>2. ASSUME NEW q \in Ranks, q # r
      PROVE  RankInv(q)'
  BY <1>1, <1>2, OthersKeep DEF Kill, Goto, files, TypeOK
<1>3. RankInv(r)'
  <2>1. /\ pc[r] = "kill" /\ pc'[r] = "clean"
        /\ matlab'[r] = IF Alive(r) THEN "dead" ELSE matlab[r]
        /\ sent'[r] = sent[r] /\ cmdfile'[r] = cmdfile[r] /\ job'[r] = job[r]
        /\ runs'[r] = runs[r]
    BY <1>1 DEF Kill, Goto, files, TypeOK
  <2>2. SentInv(r)' /\ StatusInv(r)' /\ CommandInv(r)' /\ ServerInv(r)' /\ OutputInv(r)'
    BY <1>1, <2>1 DEF RankInv, SentInv, StatusInv, CommandInv, ServerInv, OutputInv,
       Launched, Busy, Alive
  <2>3. OnceInv(r)'
    BY <1>1, <2>1 DEF RankInv, OnceInv, Launched, Alive
  <2> QED BY <2>2, <2>3 DEF RankInv
<1> QED BY <1>2, <1>3

(* Every other step is one rank's, and leaves the others alone.            *)
LEMMA StepOfOneRank ==
  ASSUME IInv, NEW r \in Ranks, Rank(r) \/ Matlab(r), ~Kill(r),
         NEW q \in Ranks, q # r
  PROVE  RankInv(q)'
<1> USE DEF Goto, MatlabGoto, files, server
<1>1. /\ pc'[q] = pc[q] /\ sent'[q] = sent[q] /\ cmdfile'[q] = cmdfile[q]
      /\ statusfile'[q] = statusfile[q] /\ output'[q] = output[q]
      /\ job'[q] = job[q] /\ runs'[q] = runs[q] /\ matlab'[q] = matlab[q]
  <2>1. TypeOK
    BY DEF IInv
  <2>2. CASE Rank(r)
    BY <2>1, <2>2 DEF TypeOK, Rank, Clean, Spawn, SeeStatus, CheckStatus, LaunchTimeout,
       GiveUp, SendCommand, Open, Write, Poll, ReadOutput, Shutdown, EndServer
  <2>3. CASE Matlab(r)
    BY <2>1, <2>3 DEF TypeOK, Matlab, OpenStatus, WriteReady, FindCommand, ReadEmpty,
       ReadExit, ReadCommand, Succeed, Report, Fail, DeleteCommand
  <2> QED BY <2>2, <2>3
<1> QED BY <1>1, OthersKeep

-----------------------------------------------------------------------------
(* Types. A rank sends no more commands than there are, since it shuts its *)
(* server down after the last.                                             *)
LEMMA TypeStep ==
  ASSUME IInv, NEW r \in Ranks, Rank(r) \/ Matlab(r)
  PROVE  TypeOK'
<1>1. TypeOK /\ RankInv(r)
  BY DEF IInv
<1>2. /\ Absent \in Texts /\ Empty \in Texts /\ sent[r] \in Texts /\ Exit \in 0..Exit
      /\ 0 \in 0..Commands /\ \A n \in 1..Commands : n \in 0..Commands
      /\ sent[r] < Commands => sent[r] + 1 \in 0..Exit /\ sent[r] + 1 \in 0..Commands
  BY <1>1, Numbers DEF TypeOK
<1> USE DEF Goto, MatlabGoto, files, server, TypeOK
<1>3. CASE Kill(r)
  BY <1>1, <1>2, <1>3 DEF Kill
<1>4. CASE Clean(r)
  BY <1>1, <1>2, <1>4 DEF Clean
<1>5. CASE Spawn(r)
  BY <1>1, <1>2, <1>5 DEF Spawn, NoRuns
<1>6. CASE SeeStatus(r)
  BY <1>1, <1>2, <1>6 DEF SeeStatus
<1>7. CASE CheckStatus(r)
  BY <1>1, <1>2, <1>7 DEF CheckStatus, GiveUp
<1>8. CASE LaunchTimeout(r)
  BY <1>1, <1>2, ServerAssumption, <1>8 DEF LaunchTimeout, GiveUp
<1>9. CASE SendCommand(r)
  BY <1>1, <1>2, <1>9 DEF SendCommand
<1>10. CASE Open(r)
  BY <1>1, <1>2, <1>10 DEF Open
<1>11. CASE Write(r)
  BY <1>1, <1>2, <1>11 DEF Write
<1>12. CASE Poll(r)
  BY <1>1, <1>2, <1>12 DEF Poll
<1>13. CASE ReadOutput(r)
  BY <1>1, <1>2, <1>13 DEF ReadOutput
<1>14. CASE Shutdown(r)
  BY <1>1, <1>2, <1>14 DEF Shutdown
<1>15. CASE EndServer(r)
  BY <1>1, <1>2, <1>15 DEF EndServer
<1>16. CASE OpenStatus(r)
  BY <1>1, <1>2, <1>16 DEF OpenStatus
<1>17. CASE WriteReady(r)
  BY <1>1, <1>2, <1>17 DEF WriteReady
<1>18. CASE FindCommand(r)
  BY <1>1, <1>2, <1>18 DEF FindCommand
<1>19. CASE ReadEmpty(r)
  BY <1>1, <1>2, <1>19 DEF ReadEmpty
<1>20. CASE ReadExit(r)
  BY <1>1, <1>2, <1>20 DEF ReadExit
<1>21. CASE ReadCommand(r)
  <2>1. runs[r][cmdfile[r]] + 1 \in Nat
    <3>1. runs \in [Ranks -> [1..Commands -> Nat]] /\ cmdfile[r] \in 1..Commands
      BY <1>1, <1>21 DEF ReadCommand
    <3>2. runs[r][cmdfile[r]] \in Nat
      BY <3>1
    <3> QED BY <3>2
  <2>2. runs' \in [Ranks -> [1..Commands -> Nat]]
    BY <1>1, <1>21, <2>1 DEF ReadCommand
  <2>3. job' \in [Ranks -> 0..Commands]
    BY <1>1, <1>2, <1>21 DEF ReadCommand
  <2> QED BY <1>1, <1>21, <2>2, <2>3 DEF ReadCommand
<1>22. CASE Succeed(r)
  BY <1>1, <1>2, <1>22 DEF Succeed, RankInv, ServerInv
<1>23. CASE Report(r)
  BY <1>1, <1>2, <1>23 DEF Report
<1>24. CASE Fail(r)
  BY <1>1, <1>2, <1>24 DEF Fail
<1>25. CASE DeleteCommand(r)
  BY <1>1, <1>2, <1>25 DEF DeleteCommand
<1> QED BY <1>3, <1>4, <1>5, <1>6, <1>7, <1>8, <1>9, <1>10, <1>11, <1>12, <1>13,
           <1>14, <1>15, <1>16, <1>17, <1>18, <1>19, <1>20, <1>21, <1>22, <1>23, <1>24, <1>25
        DEF Rank, Matlab

LEMMA Step ==
  ASSUME IInv, [Next]_vars
  PROVE  IInv'
<1>1. ASSUME NEW r \in Ranks, Rank(r) \/ Matlab(r)
      PROVE  IInv'
  <2>1. TypeOK'
    BY <1>1, TypeStep
  <2>2. CASE Kill(r)
    BY <2>1, <2>2, KillKeeps DEF IInv
  <2>3. CASE ~Kill(r)
    <3>1. RankInv(r)'
      BY <1>1, <2>3, LaunchKeeps, CommandKeeps, ServerKeeps DEF Rank
    <3>2. \A q \in Ranks \ {r} : RankInv(q)'
      BY <1>1, <2>3, StepOfOneRank
    <3> QED BY <2>1, <3>1, <3>2 DEF IInv
  <2> QED BY <2>2, <2>3
<1>2. CASE UNCHANGED vars
  BY <1>2 DEF vars, IInv, TypeOK, RankInv, SentInv, StatusInv, CommandInv, ServerInv,
     OnceInv, OutputInv, Launched, Busy, Alive
<1> QED BY <1>1, <1>2 DEF Next

THEOREM InvariantHolds == Spec => []IInv
BY InitTyped, Step, PTL DEF Spec

-----------------------------------------------------------------------------
(* All variables keep their types; in particular no rank sends a command   *)
(* after 'exit' (send_command, shutdown).                                  *)
THEOREM TypesHold == Spec => []TypeOK
BY InvariantHolds, PTL DEF IInv

(* No server executes a command twice, whatever is caught, deleted or      *)
(* overwritten on the way, by any number of ranks that kill each other's   *)
(* servers.                                                                *)
THEOREM CommandsRunAtMostOnce == Spec => []RunsAtMostOnce
<1>1. IInv => RunsAtMostOnce
  BY DEF IInv, RankInv, OnceInv, RunsAtMostOnce
<1> QED BY <1>1, InvariantHolds, PTL

(* A launched server executes nothing but what its rank has sent.          *)
THEOREM OnlySentCommandsRun == Spec => []RunsOnlySentCommands
<1>1. IInv => RunsOnlySentCommands
  BY Numbers DEF IInv, RankInv, SentInv, ServerInv, Launched, RunsOnlySentCommands
<1> QED BY <1>1, InvariantHolds, PTL

(* A launch returns with a server that is in its loop, or was killed since.*)
THEOREM LaunchesReturnServers == Spec => []LaunchedServerIsUp
<1>1. IInv => LaunchedServerIsUp
  BY DEF IInv, RankInv, StatusInv, LaunchedServerIsUp
<1> QED BY <1>1, InvariantHolds, PTL

(* The file run_model reads is that of the command it sent, and its server *)
(* is not writing to it.                                                   *)
THEOREM ForecastsAreOfTheStep == Spec => []ForecastOfThisStep
<1>1. IInv => ForecastOfThisStep
  BY Numbers DEF IInv, RankInv, SentInv, ServerInv, OutputInv, Launched, ForecastOfThisStep
<1> QED BY <1>1, InvariantHolds, PTL

(* A rank that is through leaves no MATLAB process behind.                 *)
THEOREM NoServerIsLeft == Spec => []NoServerLeft
<1>1. IInv => NoServerLeft
  BY DEF IInv, RankInv, StatusInv, NoServerLeft
<1> QED BY <1>1, InvariantHolds, PTL
=============================================================================
