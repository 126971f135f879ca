-------------------------- MODULE ReadersWriterLock --------------------------
(***************************************************************************)
(* What the locks of llnl/util/lock.py promise to the processes that use   *)
(* them: on each lock, any number of readers or one writer.  A process     *)
(* changes its own mode only, and only to one the other modes allow.       *)
(***************************************************************************)
CONSTANTS Proc, Lock

VARIABLE mode   \* mode[p][l]: how process p holds lock l

Modes == {"none", "read", "write"}

Allowed(p, l, m) ==
  \A q \in Proc \ {p} : /\ m = "write" => mode[q][l] = "none"
                        /\ m = "read" => mode[q][l] # "write"

Init == mode = [p \in Proc |-> [l \in Lock |-> "none"]]

Change(p, l) == \E m \in Modes :
  /\ Allowed(p, l, m)
  /\ mode' = [mode EXCEPT ![p][l] = m]

Exit(p) == mode' = [mode EXCEPT ![p] = [l \in Lock |-> "none"]]

Next == \E p \in Proc : Exit(p) \/ \E l \in Lock : Change(p, l)

Spec == Init /\ [][Next]_mode
=============================================================================
