----------------------------- MODULE MCNtpRateLimit -----------------------------
(* Addresses are told apart by nothing but equality. *)
EXTENDS NtpRateLimit, TLC

AddressSymmetry == Permutations(Addresses)
================================================================================
