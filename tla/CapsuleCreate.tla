--------------------------- MODULE CapsuleCreate ---------------------------
(***************************************************************************)
(* create (capsule_creator.py): runs of the five-step pipeline in one      *)
(* working directory.  Each step is a subprocess that hands its result to  *)
(* the next through a file: the version file, FvUpdate.xml, the patched    *)
(* copies, firmware.fv, the JSON configuration and the capsule.  A run     *)
(* stops at the first step that exits with a nonzero code, and may be      *)
(* killed at any time; what it wrote stays for the next run.               *)
(*                                                                         *)
(* The firmware volume step is what FvContract promises of fv-create.      *)
(***************************************************************************)
EXTENDS Naturals, Sequences

CONSTANTS Version,       \* texts given as -fwver and -lfwver
          Malformed,     \* those that are not four numbers
          WordOf,        \* version -> the word stored for it
          Word,          \* 32-bit words
          ImagePath,     \* images given as --patch-image
          BaseName,      \* image -> its file name
          ConfigName,    \* configuration files a run may name
          DefaultConfig, \* config.json
          Configs,       \* contents a configuration file may start with
          Jobs,          \* the invocations of create
          None,          \* no file
          Torn,          \* a file whose write was cut short
          MaxRuns        \* bound: invocations in one behaviour

\* The keys of a payload of the configuration that the pipeline fills.
Certs == {"OpenSslSignerPrivateCertFile", "OpenSslOtherPublicCertFile",
          "OpenSslTrustedPublicCertFile"}
Keys == {"Guid", "FwVersion", "LowestSupportedVersion", "Payload"} \cup Certs

\* A payload: the keys it has and the two versions, zero where it has none.
PayloadConfig == [keys : SUBSET Keys, fw : Word, lowest : Word]

Job == [fwver : Version, lfwver : Version, patch : Seq(ImagePath), config : ConfigName]

ASSUME CreateConstants ==
  /\ Word \subseteq Nat /\ 0 \in Word
  /\ Malformed \subseteq Version
  /\ WordOf \in [Version \ Malformed -> Word]
  /\ DefaultConfig \in ConfigName
  /\ Configs \subseteq Seq(PayloadConfig)
  /\ Jobs \subseteq Job
  /\ MaxRuns \in Nat

Names == {BaseName[i] : i \in ImagePath}

VARIABLES pc,          \* the step _run is at; "idle" between runs
          job,         \* the arguments of the current run
          runs,        \* how many runs were started
          status,      \* how the last run ended
          left,        \* images the patch loop still has
          versionFile, \* SYSFW_VERSION.bin
          xml,         \* FvUpdate.xml: the run that wrote it
          staged,      \* patched_images/: name -> the run and the image patched
          phase, fvRun, request, fv, report,  \* the firmware volume step
          config,      \* the configuration files
          capsule      \* the output capsule

inputs == <<versionFile, xml, staged>>
fvVars == <<phase, fvRun, request, fv, report>>
vars   == <<pc, job, runs, status, left, inputs, fvVars, config, capsule>>

Fv == INSTANCE FvContract WITH Absent <- None, Broken <- Torn, run <- fvRun, out <- fv

\* SYSFW_VERSION.bin, a patched copy, an item of the capsule, the capsule.
VersionFile == [run : Nat, fw : Word, lowest : Word]
PatchedCopy == [run : Nat, of : ImagePath]
Item        == [fw : Word, lowest : Word, signed : BOOLEAN, volume : Fv!Volume \cup {Torn}]
Capsule     == [run : Nat, items : Seq(Item)]

\* No file is the value that stands for a torn one or none.
ASSUME NotContents ==
  /\ None # Torn
  /\ {None, Torn} \cap (Nat \cup Seq(PayloadConfig) \cup VersionFile \cup PatchedCopy
                        \cup Capsule \cup Fv!Volume) = {}

Pc == {"idle", "version", "xml", "patch", "fv", "json", "generate"}

TypeOK ==
  /\ pc \in Pc
  /\ job \in Jobs \cup {None}
  /\ runs \in 0..MaxRuns
  /\ status \in {"none", "ok", "failed"}
  /\ left \in Nat
  /\ versionFile \in VersionFile \cup {None, Torn}
  /\ xml \in Nat \cup {None, Torn}
  /\ staged \in [Names -> PatchedCopy \cup {None, Torn}]
  /\ Fv!ContractTypeOK
  /\ config \in [ConfigName -> Seq(PayloadConfig) \cup {None, Torn}]
  /\ capsule \in Capsule \cup {None, Torn}

Init ==
  /\ pc = "idle" /\ job = None /\ runs = 0 /\ status = "none" /\ left = 0
  /\ versionFile = None /\ xml = None /\ staged = [n \in Names |-> None]
  /\ Fv!ContractInit
  /\ config \in [ConfigName -> Configs \cup {None}]
  /\ capsule = None

Start ==
  /\ pc = "idle" /\ runs < MaxRuns
  /\ job' \in Jobs
  /\ runs' = runs + 1
  /\ pc' = "version"
  /\ status' = "none"
  /\ left' = 0
  /\ UNCHANGED <<inputs, fvVars, config, capsule>>

\* run_module on a nonzero exit code: sys.exit(1).
ExitOne == pc' = "idle" /\ status' = "failed"

-----------------------------------------------------------------------------
(* Steps 1, 2 and 2b.                                                       *)

\* (Slip: a version file that is there is kept.)
GenerateVersionOnce ==
  /\ pc = "version"
  /\ IF {job.fwver, job.lfwver} \cap Malformed = {} /\ versionFile = None
     THEN versionFile' = [run    |-> runs,
                          fw     |-> WordOf[job.fwver],
                          lowest |-> WordOf[job.lfwver]]
     ELSE UNCHANGED versionFile
  /\ pc' = "xml"
  /\ UNCHANGED <<job, runs, status, left, xml, staged, fvVars, config, capsule>>

\* generate_binary_file returns False on a version that is not four numbers,
\* and the module exits with code zero all the same: the file stays.
GenerateVersion ==
  /\ pc = "version"
  /\ IF {job.fwver, job.lfwver} \cap Malformed = {}
     THEN versionFile' = [run    |-> runs,
                          fw     |-> WordOf[job.fwver],
                          lowest |-> WordOf[job.lfwver]]
     ELSE UNCHANGED versionFile
  /\ pc' = "xml"
  /\ UNCHANGED <<job, runs, status, left, xml, staged, fvVars, config, capsule>>

\* write_xml; an unknown target or no partitions.conf exits with code one.
UpdateFvXml ==
  /\ pc = "xml"
  /\ \/ /\ xml' = runs
        /\ left' = Len(job.patch)
        /\ pc' = "patch"
        /\ UNCHANGED status
     \/ ExitOne /\ UNCHANGED <<xml, left>>
  /\ UNCHANGED <<job, runs, versionFile, staged, fvVars, config, capsule>>

CurrentImage == job.patch[Len(job.patch) - left + 1]

\* patch_capsule_cert either writes the copy or raises, which exits; the copy may
\* then be torn or have some of its trees patched (PatchContract), which is the
\* same to those that come after.
SkipUnpatchable ==   \* slip: an image that cannot be patched is passed over
  /\ pc = "patch" /\ left > 0
  /\ \/ staged' = [staged EXCEPT ![BaseName[CurrentImage]] = [run |-> runs, of |-> CurrentImage]]
     \/ UNCHANGED staged
  /\ left' = left - 1
  /\ UNCHANGED <<pc, job, runs, status, versionFile, xml, fvVars, config, capsule>>
PatchImage ==
  /\ pc = "patch" /\ left > 0
  /\ \/ /\ staged' = [staged EXCEPT ![BaseName[CurrentImage]] =
                        [run |-> runs, of |-> CurrentImage]]
        /\ left' = left - 1
        /\ UNCHANGED <<pc, status>>
     \/ /\ ExitOne /\ UNCHANGED left
        /\ \/ UNCHANGED staged
           \/ staged' = [staged EXCEPT ![BaseName[CurrentImage]] = Torn]
  /\ UNCHANGED <<job, runs, versionFile, xml, fvVars, config, capsule>>

\* What a reader of the version file finds: memmove copies a whole structure
\* from a file cut short, whatever memory follows.
VersionsRead == IF versionFile = Torn THEN [fw : Word, lowest : Word]
                ELSE {[fw |-> versionFile.fw, lowest |-> versionFile.lowest]}

-----------------------------------------------------------------------------
(* Step 3: the FVCreation module, a run of fv-create.                       *)
StartFv ==
  /\ pc = "patch" /\ left = 0
  /\ pc' = "fv"
  /\ IF versionFile = None THEN Fv!Begin(None)
     ELSE \E v \in VersionsRead : Fv!Begin(v.fw)
  /\ UNCHANGED <<job, runs, status, left, inputs, config, capsule>>

WriteFv ==
  /\ pc = "fv"
  /\ Fv!Publish
  /\ UNCHANGED <<pc, job, runs, status, left, inputs, config, capsule>>

\* The_Main ends with exit code zero, whether it printed that the volume was
\* created or that it failed.
EndFv ==
  /\ pc = "fv"
  /\ Fv!Complete \/ Fv!Fail
  /\ pc' = "json"
  /\ UNCHANGED <<job, runs, status, left, inputs, config, capsule>>

\* An exception that The_Main does not catch, or a kill of the child alone.
FvDies ==
  /\ pc = "fv"
  /\ Fv!Die
  /\ ExitOne
  /\ UNCHANGED <<job, runs, left, inputs, config, capsule>>

-----------------------------------------------------------------------------
(* Step 4: UpdateJsonFile.                                                  *)

\* The one payload of create_config.
DefaultPayloads == <<[keys |-> Keys, fw |-> 0, lowest |-> 0]>>

\* Every key that a payload has is set; one it does not have is not added.
UpdatePayload(p, v) ==
  [p EXCEPT !.fw     = IF "FwVersion" \in p.keys THEN v.fw ELSE @,
            !.lowest = IF "LowestSupportedVersion" \in p.keys THEN v.lowest ELSE @]

\* (Slips: only the first payload is set; the two versions are exchanged.)
UpdateFirst(payloads, v) ==
  IF payloads = <<>> THEN payloads ELSE [payloads EXCEPT ![1] = UpdatePayload(@, v)]
UpdateSwapped(payloads, v) ==
  [k \in DOMAIN payloads |-> UpdatePayload(payloads[k], [fw |-> v.lowest, lowest |-> v.fw])]
UpdatePayloads(payloads, v) == [k \in DOMAIN payloads |-> UpdatePayload(payloads[k], v)]

\* A missing configuration is created, but always under the default name.
ConfigsFound == IF config[job.config] = None
                THEN [config EXCEPT ![DefaultConfig] = DefaultPayloads]
                ELSE config

\* Loading a missing or torn file exits with code one.  (Slip: the loop that
\* waits for the file does not count its turns.)
UpdateJsonWaiting ==
  /\ pc = "json"
  /\ IF versionFile = None
     THEN ExitOne /\ UNCHANGED config
     ELSE /\ ConfigsFound[job.config] \notin {None, Torn}
          /\ \E v \in VersionsRead :
               config' = [ConfigsFound EXCEPT ![job.config] = UpdatePayloads(@, v)]
          /\ pc' = "generate"
          /\ UNCHANGED status
  /\ UNCHANGED <<job, runs, left, inputs, fvVars, capsule>>
UpdateJson ==
  /\ pc = "json"
  /\ IF versionFile = None
     THEN ExitOne /\ UNCHANGED config
     ELSE IF ConfigsFound[job.config] \in {None, Torn}
     THEN ExitOne /\ config' = ConfigsFound
     ELSE /\ \E v \in VersionsRead :
               config' = [ConfigsFound EXCEPT ![job.config] = UpdatePayloads(@, v)]
          /\ pc' = "generate"
          /\ UNCHANGED status
  /\ UNCHANGED <<job, runs, left, inputs, fvVars, capsule>>

-----------------------------------------------------------------------------
(* Step 5: generate_capsule.                                                *)

\* PayloadDescriptor: the required keys, and all certificates or none.
Required  == {"Guid", "FwVersion", "LowestSupportedVersion", "Payload"}
Signed(p) == p.keys \cap Certs # {}
Accepted(p) == Required \subseteq p.keys /\ (Signed(p) => Certs \subseteq p.keys)

\* (Slip: a volume file that is missing is packed as an empty one.)
PackableWithoutFile(payloads) == /\ payloads # <<>>
                                 /\ \A k \in DOMAIN payloads : Accepted(payloads[k])
Packable(payloads) == /\ payloads # <<>>
                      /\ fv # None
                      /\ \A k \in DOMAIN payloads : Accepted(payloads[k])

\* encode_capsule: every payload is the volume file, as it is.
Encode(payloads) ==
  [run   |-> runs,
   items |-> [k \in DOMAIN payloads |->
                [fw |-> payloads[k].fw, lowest |-> payloads[k].lowest,
                 signed |-> Signed(payloads[k]), volume |-> fv]]]

\* The signing tool may fail on a payload that is to be signed.
GenerateCapsule ==
  /\ pc = "generate"
  /\ LET payloads == config[job.config]
     IN \/ /\ Packable(payloads)
           /\ capsule' = Encode(payloads)
           /\ pc' = "idle" /\ status' = "ok"
        \/ /\ Packable(payloads) => \E k \in DOMAIN payloads : Signed(payloads[k])
           /\ ExitOne /\ UNCHANGED capsule
  /\ UNCHANGED <<job, runs, left, inputs, fvVars, config>>

-----------------------------------------------------------------------------
(* A step fails while it writes its file, or the run is killed there; the   *)
(* version file is removed before it is written.                            *)
CutShort ==
  \/ UNCHANGED <<inputs, config, capsule>>
  \/ /\ pc = "version" /\ {job.fwver, job.lfwver} \cap Malformed = {}
     /\ versionFile' \in {None, Torn}
     /\ UNCHANGED <<xml, staged, config, capsule>>
  \/ /\ pc = "xml"
     /\ xml' = Torn
     /\ UNCHANGED <<versionFile, staged, config, capsule>>
  \/ /\ pc = "patch" /\ left > 0
     /\ staged' = [staged EXCEPT ![BaseName[CurrentImage]] = Torn]
     /\ UNCHANGED <<versionFile, xml, config, capsule>>
  \/ /\ pc = "json" /\ versionFile # None
     /\ \/ config' = ConfigsFound
        \/ /\ config[job.config] = None
           /\ config' = [config EXCEPT ![DefaultConfig] = Torn]
        \/ /\ ConfigsFound[job.config] # None
           /\ config' = [ConfigsFound EXCEPT ![job.config] = Torn]
     /\ UNCHANGED <<inputs, capsule>>
  \/ /\ pc = "generate" /\ Packable(config[job.config])
     /\ capsule' = Torn
     /\ UNCHANGED <<inputs, config>>

Crash ==
  /\ pc \notin {"idle", "fv"}
  /\ CutShort
  /\ ExitOne
  /\ UNCHANGED <<job, runs, left, fvVars>>

Progress == \/ GenerateVersion \/ UpdateFvXml \/ PatchImage
            \/ StartFv \/ WriteFv \/ EndFv \/ FvDies
            \/ UpdateJson \/ GenerateCapsule

Next == Start \/ Progress \/ Crash

\* A run that was started keeps running: each step waits for one child.
Spec == Init /\ [][Next]_vars /\ WF_vars(Progress)

-----------------------------------------------------------------------------
(* Properties.                                                              *)

\* The capsule of a run that succeeds carries the two versions that the run was
\* given, provided that both are four numbers (README, step 1): they have gone
\* through the version file and the configuration, over those of earlier runs.
WellFormedVersions == {job.fwver, job.lfwver} \cap Malformed = {}
VersionCarried ==
  status = "ok" /\ WellFormedVersions =>
    \A k \in DOMAIN capsule.items : /\ capsule.items[k].fw = WordOf[job.fwver]
                                     /\ capsule.items[k].lowest = WordOf[job.lfwver]

\* A run that exits with code zero has written the capsule, and each of its
\* payload headers carries the two words of the version file in the
\* directory, whatever versions the configuration held before and however
\* many payloads it has.
HeadersOfVersionFile ==
  status = "ok" =>
    /\ capsule.run = runs /\ capsule.items # <<>>
    /\ versionFile # Torn => \A k \in DOMAIN capsule.items :
         /\ capsule.items[k].fw = versionFile.fw
         /\ capsule.items[k].lowest = versionFile.lowest

\* The version that the payload header announces and the version in the
\* metadata of the volume below it, which two programs read from the same
\* file at different times, are equal when the volume is of this run.
HeaderMatchesMetadata ==
  status = "ok" /\ versionFile # Torn =>
    \A k \in DOMAIN capsule.items :
      LET item == capsule.items[k]
      IN item.volume # Torn /\ item.volume.run = fvRun => item.volume.fws \subseteq {item.fw}

\* fv-create is started only over inputs of this run: its FvUpdate.xml, and
\* for every image to be patched a whole copy that this run made, of that
\* image or of a later one of the same name, never the torn or the old copy
\* that an earlier run left in patched_images.
InputsReady ==
  pc = "fv" =>
    /\ xml = runs
    /\ \A i \in DOMAIN job.patch :
         LET copy == staged[BaseName[job.patch[i]]]
         IN /\ copy \notin {None, Torn}
            /\ copy.run = runs
            /\ \E k \in i..Len(job.patch) : copy.of = job.patch[k]

\* Every invocation comes to an end: no step waits for a file for ever.
RunEnds == pc # "idle" ~> pc = "idle"

-----------------------------------------------------------------------------
(* The inductive invariant of the proofs.                                   *)

\* The k-th image to patch has its copy: of this run, and of an image between
\* the k-th and the last one patched so far that has the same name.
Copied(k, done) == LET copy == staged[BaseName[job.patch[k]]]
                   IN copy \notin {None, Torn} /\ copy.run = runs /\ \E m \in k..done : copy.of = job.patch[m]

Control ==
  /\ pc # "idle" => job \in Jobs /\ status = "none"
  /\ pc # "fv" => phase = "idle"
  /\ pc = "fv" => phase # "idle"
  /\ pc \in {"patch", "fv"} =>
       /\ xml = runs
       /\ left <= Len(job.patch)
       /\ \A k \in 1..(Len(job.patch) - left) : Copied(k, Len(job.patch) - left)
  /\ pc = "fv" => left = 0

\* The volume file is of a contract run up to the current one, and until that
\* one publishes, of an earlier; once it has, its metadata, if any, carries
\* the word of the version file.
VolumeOfVersionFile ==
  /\ fv \notin {None, Torn} => fv.run <= fvRun /\ (phase = "working" => fv.run < fvRun)
  /\ pc = "fv" /\ versionFile # Torn =>
       request = IF versionFile = None THEN None ELSE versionFile.fw
  /\ pc \in {"fv", "json", "generate"} \/ status = "ok" =>
       (versionFile # Torn /\ fv \notin {None, Torn} /\ fv.run = fvRun =>
          fv.fws \subseteq (IF versionFile = None THEN {} ELSE {versionFile.fw}))

\* From the second step on the version file is that of the run, if its versions are
\* well-formed.
VersionFileOfRun ==
  pc \notin {"idle", "version"} \/ status = "ok" =>
    /\ job \in Jobs
    /\ WellFormedVersions => versionFile = [run    |-> runs,
                                            fw     |-> WordOf[job.fwver],
                                            lowest |-> WordOf[job.lfwver]]

\* What generate_capsule finds in the configuration, and what it packs.
VersionsConfigured ==
  pc = "generate" =>
    /\ versionFile # None
    /\ config[job.config] \in Seq(PayloadConfig)
    /\ versionFile # Torn => \A k \in 1..Len(config[job.config]) :
         LET p == config[job.config][k]
         IN /\ "FwVersion" \in p.keys => p.fw = versionFile.fw
            /\ "LowestSupportedVersion" \in p.keys => p.lowest = versionFile.lowest

VolumePacked ==
  status = "ok" => /\ pc = "idle" /\ versionFile # None
                   /\ capsule \in Capsule
                   /\ \A k \in 1..Len(capsule.items) : capsule.items[k].volume = fv

IInv == /\ TypeOK /\ Control /\ VersionFileOfRun /\ VolumeOfVersionFile
        /\ VersionsConfigured /\ VolumePacked /\ HeadersOfVersionFile

-----------------------------------------------------------------------------
(* What the repository says of the program and the program does not do.     *)

\* A run exits when a module fails (run_module): no configuration is written
\* and no capsule generated after fv-create failed.
ExitOnFvFailure == pc \in {"json", "generate"} => report = "created"
=============================================================================
