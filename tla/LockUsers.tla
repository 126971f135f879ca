------------------------------ MODULE LockUsers ------------------------------
(***************************************************************************)
(* Who uses the locks: processes that take and release the ranges of a file*)
(* as they like, or the transactions of the database on one of the ranges. *)
(* A behaviour has one setting.                                            *)
(***************************************************************************)
EXTENDS DatabaseTransactions

VARIABLE setting   \* "locks" or "transactions"

everyVars == <<setting, faults, vars, databaseVars>>

EveryInit ==
  /\ DatabaseInit
  /\ setting \in {"locks", "transactions"}
  /\ setting = "locks" => faults = {}

EveryNext ==
  /\ UNCHANGED setting
  /\ \/ setting = "locks" /\ Next /\ UNCHANGED <<faults, databaseVars>>
     \/ setting = "transactions" /\ DatabaseNext

(* A poll loop goes on until it succeeds or its time is up, and a process  *)
(* goes on with the transaction that it has begun.                         *)
EverySpec ==
  /\ EveryInit /\ [][EveryNext]_everyVars
  /\ \A p \in Proc : /\ WF_vars(setting = "locks" /\ Poll(p))
                     /\ WF_<<vars, databaseVars>>(setting = "transactions" /\ Step(p))

(***************************************************************************)
(* What must hold                                                          *)
(***************************************************************************)
(* In a transaction a process has the records of the index and its own     *)
(* changes; outside of them it has left no change unwritten, and keeps no  *)
(* other process out.                                                      *)
CopiesCurrent ==
  /\ TypeOK /\ DatabaseTypeOK
  /\ setting = "transactions" /\ Mended =>
       ReadsCurrent /\ NothingUnwritten /\ ReleasedOutside

(* The index is replaced by itself with the changes of one process, and    *)
(* that process is alone in the database, also after writes have failed.   *)
NoLostUpdate ==
  [][/\ Mended => CommitsOwnChanges
     /\ CommitsAlone]_everyVars

(* A call with a timeout ends, whatever other processes do, and a process  *)
(* waiting for the database gets it or an error, also when two readers want*)
(* to write: one times out and lets the other go on.                       *)
WaitsEnd ==
  /\ TimedCallsEnd
  /\ \A p \in Proc : stage[p] = "entering" ~> stage[p] # "entering"
=============================================================================
