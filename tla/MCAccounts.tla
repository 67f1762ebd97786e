----------------------------- MODULE MCAccounts -----------------------------
(* Membership, Workspace, Sessions and Documents share no state: one run     *)
(* explores them side by side, one component in each behaviour.  They also   *)
(* share their model values, so that two permutations serve them all.        *)
EXTENDS Membership, Workspace, Sessions, Documents, TLC

VARIABLE part  \* the component that moves

vars == <<part, memberVars, workspaceVars, sessionVars, documentVars>>

Interchangeable == Permutations(Handlers) \cup Permutations(Invites)

Init ==
  /\ part \in {"members", "offices", "review", "sessions", "documents"}
  /\ MembersInit /\ WorkspaceInit /\ SessionsInit /\ DocumentsInit

Members ==
  /\ part = "members" /\ MembersNext
  /\ UNCHANGED <<part, workspaceVars, sessionVars, documentVars>>
OfficeList ==
  /\ part = "offices" /\ OfficesNext
  /\ UNCHANGED <<part, memberVars, sessionVars, documentVars>>
Reviews ==
  /\ part = "review" /\ ReviewNext
  /\ UNCHANGED <<part, memberVars, sessionVars, documentVars>>
SignIns ==
  /\ part = "sessions" /\ SessionsNext
  /\ UNCHANGED <<part, memberVars, workspaceVars, documentVars>>
Intake ==
  /\ part = "documents" /\ DocumentsNext
  /\ UNCHANGED <<part, memberVars, workspaceVars, sessionVars>>

Next == Members \/ OfficeList \/ Reviews \/ SignIns \/ Intake

Spec == Init /\ [][Next]_vars

\* The type invariants of the four modules, each where its component moves.
TypesOK ==
  /\ part = "members" => MembersTypeOK
  /\ part \in {"offices", "review"} => WorkspaceTypeOK
  /\ part = "sessions" => SessionsTypeOK
  /\ part = "documents" => DocumentsTypeOK
=============================================================================
