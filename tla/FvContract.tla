----------------------------- MODULE FvContract -----------------------------
(***************************************************************************)
(* What fv-create promises to the step that packages its output, whatever  *)
(* happens inside a run: the output file is what it was, torn, or a volume *)
(* of this run; a volume carries the metadata of the version this run was  *)
(* asked for, or none; and "created" is reported only for a volume of this *)
(* run.  FvCreate implements this specification; CapsuleCreate runs it as  *)
(* one of its steps.                                                       *)
(***************************************************************************)
EXTENDS Naturals

CONSTANTS Absent,  \* no output file, or no version to ask for
          Broken   \* an output file whose write was cut short

VARIABLES phase,    \* "idle", "working", or "written" while the cleanup runs
          run,      \* how many runs were started
          request,  \* the firmware version word the run was asked for
          out,      \* the output file
          report    \* what the last run printed at its end

fvVars == <<phase, run, request, out, report>>

\* A volume: the run that wrote it and the version words of its metadata.
Volume == [run : Nat, fws : SUBSET Nat]

ContractTypeOK ==
  /\ phase \in {"idle", "working", "written"}
  /\ run \in Nat
  /\ request \in Nat \cup {Absent}
  /\ out \in Volume \cup {Absent, Broken}
  /\ report \in {"none", "created", "failed"}

ContractInit ==
  /\ phase = "idle"
  /\ run = 0
  /\ request = Absent
  /\ out = Absent
  /\ report = "none"

Begin(version) ==
  /\ phase = "idle"
  /\ phase' = "working"
  /\ run' = run + 1
  /\ request' = version
  /\ report' = "none"
  /\ UNCHANGED out

\* With its metadata, or, when a step failed, without.
Publish ==
  /\ phase = "working"
  /\ \E fws \in {{}, {request} \ {Absent}} : out' = [run |-> run, fws |-> fws]
  /\ report' = "created"
  /\ phase' = "written"
  /\ UNCHANGED <<run, request>>

\* The output file as it was, or torn.
Spoiled == out' = out \/ out' = Broken

Fail ==
  /\ phase = "working"
  /\ Spoiled
  /\ report' = "failed"
  /\ phase' = "idle"
  /\ UNCHANGED <<run, request>>

Die ==
  /\ \/ phase = "working" /\ Spoiled
     \/ phase = "written" /\ UNCHANGED out
  /\ phase' = "idle"
  /\ UNCHANGED <<run, request, report>>

Complete ==
  /\ phase = "written"
  /\ phase' = "idle"
  /\ UNCHANGED <<run, request, out, report>>

ContractNext == \/ request' \in Nat \cup {Absent} /\ Begin(request')
                \/ Publish \/ Fail \/ Die \/ Complete

ContractSpec == ContractInit /\ [][ContractNext]_fvVars
=============================================================================
