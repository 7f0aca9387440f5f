----------------------- MODULE MCSafeWithdrawalSearch -----------------------
(***************************************************************************)
(* Searches over a domain that is empty, one rate wide, as wide as the     *)
(* precision, and wider by powers of two and by odd numbers.               *)
(***************************************************************************)
EXTENDS SafeWithdrawalSearch

MCDomains ==
    {[min |-> 3, max |-> 3 + width, precision |-> p] : width \in {-1, 0, 1, 3, 5, 8}, p \in 1 .. 2}

MCGrid == <<0, 10, 20>>

=============================================================================
