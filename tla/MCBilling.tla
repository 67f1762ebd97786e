----------------------------- MODULE MCBilling -----------------------------
(* Billing with interchangeable requests and subscriptions. *)
EXTENDS Billing, TLC

Interchangeable == Permutations(Handlers) \cup Permutations(Subs)
=============================================================================
