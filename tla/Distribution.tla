---------------------------- MODULE Distribution ----------------------------
(***************************************************************************)
(* How n things (rows of the state, ensemble members) are split over size  *)
(* ranks.  ICESEE writes the same split three times: partition_1d of the   *)
(* ensemble I/O handler, block_decomp of icesee_get_index, and start/stop  *)
(* of icesee_mpi_ens_distribution's even distribution.                     *)
(***************************************************************************)
EXTENDS Integers

\* Mutant: the ranks with an extra row do not shift the ones after them.
partition_start_Unshifted(n, size, rank) == rank * (n \div size)

partition_start(n, size, rank) ==
  rank * (n \div size) + IF rank < n % size THEN rank ELSE n % size

\* Mutant: nobody takes the remainder.
partition_size_NoRemainder(n, size, rank) == n \div size

partition_size(n, size, rank) ==
  n \div size + IF rank < n % size THEN 1 ELSE 0

(* The half-open interval [start, stop) of one rank.                       *)
partition_1d(n, size, rank) ==
  LET start == partition_start(n, size, rank)
  IN  start .. start + partition_size(n, size, rank) - 1

block_decomp(n, size, rank) ==
  LET q == n \div size
      rem == n % size
      start == IF rank < rem THEN rank * (q + 1)
                             ELSE rem * (q + 1) + (rank - rem) * q
  IN  start .. start + (IF rank < rem THEN q + 1 ELSE q) - 1

(* Case Nens > size; with Nens = size the code assigns {rank} directly.    *)
even_distribution(Nens, size, rank) ==
  LET mem_per_task == Nens \div size
      remainder == Nens % size
  IN  IF rank < remainder
      THEN rank * (mem_per_task + 1) .. (rank + 1) * (mem_per_task + 1) - 1
      ELSE LET start == rank * mem_per_task + remainder
           IN  start .. start + mem_per_task - 1
=============================================================================
