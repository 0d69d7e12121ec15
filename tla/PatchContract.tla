--------------------------- MODULE PatchContract ---------------------------
(***************************************************************************)
(* What a run of patch-capsule-cert promises: the device trees that carry  *)
(* the certificate property get the new certificate one after the other,   *)
(* none gets it back out, and the run succeeds only with all of them       *)
(* patched and the output written.                                         *)
(***************************************************************************)
VARIABLES carriers,  \* the trees that carry the property
          patched,   \* those that have the new certificate
          output,    \* "kept" as it was before the run, "torn", "written"
          verdict    \* how the run ended

contractVars == <<carriers, patched, output, verdict>>

ContractInit ==
  /\ patched \subseteq carriers
  /\ output = "kept" /\ verdict = "running"

\* Trees are patched, and the output may be written with what is there so far.
Advance ==
  /\ verdict = "running"
  /\ patched \subseteq patched' /\ patched' \subseteq carriers
  /\ output' \in {output, "written"}
  /\ UNCHANGED <<carriers, verdict>>

Succeed ==
  /\ verdict = "running"
  /\ patched = carriers
  /\ output' = "written" /\ verdict' = "ok"
  /\ UNCHANGED <<carriers, patched>>

\* A refused or failed run leaves the output as it is, torn if the failure is
\* that of the write itself.
Abort ==
  /\ verdict = "running"
  /\ output' \in {output, "written", "torn"} /\ verdict' = "failed"
  /\ patched' \subseteq patched
  /\ UNCHANGED carriers

ContractNext == Advance \/ Succeed \/ Abort
ContractSpec == ContractInit /\ [][ContractNext]_contractVars
=============================================================================
