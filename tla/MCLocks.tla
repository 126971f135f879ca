------------------------------- MODULE MCLocks -------------------------------
(* Two processes and two byte ranges of one lock file, one of them that of   *)
(* the database: the processes use the locks as they like, or they have      *)
(* transactions, raise and are killed, or do so in a new store, or the index *)
(* cannot be written.                                                        *)
EXTENDS LockUsers

CONSTANTS a, b, r, s, k1

Files == {"lock"}
OneFile == [l \in Lock |-> "lock"]
OneKey == {k1}
Combinations == {{}, {"raise", "kill"}, {"no index", "kill"}, {"write"}}
=============================================================================
