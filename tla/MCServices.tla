----------------------------- MODULE MCServices -----------------------------
(* Providers and EventStream share no state: one run explores them side by *)
(* side, one component in each behaviour.                                  *)
EXTENDS Providers, EventStream, TLC

VARIABLE part  \* the component that moves

vars == <<part, providerVars, streamVars>>

\* One provider serves both models.
MCProviderOf == [m \in Models |-> NoModel]

Init == part \in {"providers", "stream"} /\ ProvidersInit /\ EventStreamInit

ModelCalls == part = "providers" /\ ProvidersNext /\ UNCHANGED <<part, streamVars>>
Progress == part = "stream" /\ EventStreamNext /\ UNCHANGED <<part, providerVars>>

Next == ModelCalls \/ Progress

\* The component that moves does so under its own fairness.
Spec ==
  /\ Init /\ [][Next]_vars
  /\ \/ part = "providers" /\ ProvidersFairness
     \/ part = "stream" /\ EventStreamFairness

\* The type invariants of the two components.
TypesOK == ProvidersTypeOK /\ EventStreamTypeOK
=============================================================================
