---------------------------- MODULE FailingRanks ----------------------------
(* The run of FullParallelRun in which single ranks raise an exception: the  *)
(* model of a member fails, or a read or write of its state has failed in    *)
(* all its attempts.  (Every other method of the I/O handler ends the job    *)
(* with Abort.)  The rank goes to the driver's exception handler, whose      *)
(* barriers MPI matches with whatever barriers the others are in.            *)
EXTENDS FullParallelRun

VARIABLE raised  \* the ranks that raised an exception

allvars == <<vars, raised>>

FailInit == Init /\ raised = {}

(* Mutant: the exception is caught and the rank goes on to its next member. *)
X_Swallow(r) ==
  /\ pc[r] \in {"init", "read", "write"} /\ HasMember(r)
  /\ raised' = raised \cup {r}
  /\ round' = [round EXCEPT ![r] = @ + 1]
  /\ Goto(r, IF At(r, "init") THEN "init" ELSE "read")
  /\ UNCHANGED <<exists, data, mean, batch, k, km, vec, gathered, ckpt, stack>>

(* A retried access is the access; the last failure raises.                  *)
Raise(r) ==
  /\ pc[r] \in {"init", "read", "write"} /\ HasMember(r)
  /\ raised' = raised \cup {r}
  /\ Block(r, "Barrier", IF At(r, "init") THEN "handler" ELSE "handler_saves")
  /\ UNCHANGED <<exists, data, mean, batch, k, km, round, vec, gathered, ckpt, stack>>

(* Rank 0 saves a checkpoint of the step before, if there is a step.         *)
Handler(r) ==
  /\ pc[r] \in {"handler", "handler_saves"}
  /\ ckpt' = IF r = 0 /\ At(r, "handler_saves")
             THEN [last_done_k |-> k[r] - 1, km |-> km[r]] ELSE ckpt
  /\ Block(r, "Barrier", "handler_stacks")
  /\ UNCHANGED <<exists, data, mean, batch, k, km, round, vec, gathered, stack, raised>>

(* Rank 0 builds a virtual stack, which holds no 'ensemble' and is no result,*)
(* or fails to, and then skips the last barrier.                             *)
HandlerStacks(r) ==
  /\ At(r, "handler_stacks")
  /\ Block(r, "Barrier", "failed") \/ (r = 0 /\ Goto(r, "failed"))
  /\ UNCHANGED <<exists, data, mean, batch, k, km, round, vec, gathered, ckpt, stack, raised>>

FailNext ==
  \/ \E r \in Ranks : Raise(r) \/ Handler(r) \/ HandlerStacks(r)
  \/ ((\E r \in Ranks : Rank(r)) \/ Collective) /\ UNCHANGED raised

FailSpec == FailInit /\ [][FailNext]_allvars
-----------------------------------------------------------------------------
(* Properties.                                                               *)

(* However far the others drift while a failed rank stands in the handler,   *)
(* they leave the steps that every rank had reached alone.                   *)
EarlierStepsIntact ==
  \A t \in 1..nt-2 : (\A r \in Ranks : k[r] >= t) => Complete(t, t)

(* What a failure does not reach: the ranks that go on correct no ensemble   *)
(* that lacks a member, and leave alone the steps every rank had reached.    *)
FailuresContained == raised # {} => AnalysisOfOneEnsemble /\ EarlierStepsIntact
-------------------------------------------------------------------------------
(* What is said of the code and does not hold: see Disagreements, README.md  *)

(* "Collective finalize (safe across ranks)": what rank 0 stacks is the      *)
(* whole result of the run, also when a rank has failed.                     *)
StackedComplete ==
  stack # << >> => \A t \in Steps, m \in Members, s \in Ranks :
                     IsStateOf(stack[t][m][s], IF t = nt - 1 THEN nt ELSE t)
=============================================================================
