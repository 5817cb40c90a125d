---------------------------------- MODULE Sums ----------------------------------
(*****************************************************************************)
(* Sums over sequences of integers, written with a recursive FUNCTION so     *)
(* that the proof modules can use them: every total the storage layer asks   *)
(* the database for (the combined price of a bulk order, the month's spend,  *)
(* a vendor's ledger) is a SUM over rows, and rows are kept in sequences     *)
(* indexed by their serial id.                                               *)
(*****************************************************************************)
EXTENDS Integers, Sequences

\* PartialSums(s)[n] is the sum of the first n entries of s.
PartialSums(s) ==
  LET sum[n \in Nat] == IF n = 0 THEN 0
                        ELSE sum[n - 1] + (IF n \in DOMAIN s THEN s[n] ELSE 0)
  IN  sum

\* The sum of all entries of s.
Total(s) == PartialSums(s)[Len(s)]

=================================================================================
