------------------------ MODULE CapsuleCreateProofs ------------------------
(***************************************************************************)
(* Proofs about CapsuleCreate for every set of versions, images,           *)
(* configurations and invocations and any number of runs.                  *)
(***************************************************************************)
EXTENDS CapsuleCreate, SequenceTheorems, TLAPS

-----------------------------------------------------------------------------
(* Lemmas on the operators.                                                 *)

\* The fields of an invocation.
LEMMA JobType ==
  ASSUME NEW j \in Jobs
  PROVE  /\ j.fwver \in Version /\ j.lfwver \in Version
         /\ j.patch \in Seq(ImagePath)
         /\ j.config \in ConfigName
BY CreateConstants DEF Job

\* A function on the positions of a sequence is a sequence of the same length.
LEMMA MapType ==
  ASSUME NEW S, NEW T, NEW s \in Seq(S), NEW f \in [DOMAIN s -> T]
  PROVE  f \in Seq(T) /\ Len(f) = Len(s)
<1>1. DOMAIN s = 1..Len(s) /\ Len(s) \in Nat
  BY LenProperties
<1> QED
  BY <1>1

\* The image the patch loop is at, and the place of its copy.
LEMMA CurrentImageType ==
  ASSUME TypeOK, job \in Jobs, left \in 1..Len(job.patch)
  PROVE  CurrentImage \in ImagePath /\ BaseName[CurrentImage] \in Names
<1>1. job.patch \in Seq(ImagePath)
  BY JobType
<1>2. Len(job.patch) - left + 1 \in 1..Len(job.patch)
  BY <1>1, LenProperties
<1>3. CurrentImage \in ImagePath
  BY <1>1, <1>2, ElementOfSeq DEF CurrentImage
<1> QED
  BY <1>3 DEF Names

\* A reader of the version file gets two words, torn file or not.
LEMMA VersionsReadType ==
  ASSUME TypeOK, versionFile # None
  PROVE  VersionsRead \subseteq [fw : Word, lowest : Word]
BY DEF TypeOK, VersionsRead, VersionFile

\* Setting the versions keeps a payload list a payload list, keeps the keys,
\* and sets the version of every payload that has the key.
LEMMA UpdatePayloadsType ==
  ASSUME NEW ps \in Seq(PayloadConfig), NEW v \in [fw : Word, lowest : Word]
  PROVE  /\ UpdatePayloads(ps, v) \in Seq(PayloadConfig)
         /\ \A k \in 1..Len(UpdatePayloads(ps, v)) :
              LET p == UpdatePayloads(ps, v)[k]
              IN /\ "FwVersion" \in p.keys => p.fw = v.fw
                 /\ "LowestSupportedVersion" \in p.keys => p.lowest = v.lowest
<1>1. DOMAIN ps = 1..Len(ps) /\ Len(ps) \in Nat /\ \A k \in 1..Len(ps) : ps[k] \in PayloadConfig
  BY LenProperties, ElementOfSeq
<1>2. ASSUME NEW p \in PayloadConfig
      PROVE  /\ UpdatePayload(p, v) \in PayloadConfig
             /\ UpdatePayload(p, v).keys = p.keys
             /\ "FwVersion" \in p.keys => UpdatePayload(p, v).fw = v.fw
             /\ "LowestSupportedVersion" \in p.keys => UpdatePayload(p, v).lowest = v.lowest
  BY DEF UpdatePayload, PayloadConfig
<1>3. UpdatePayloads(ps, v) \in [DOMAIN ps -> PayloadConfig]
  BY <1>1, <1>2 DEF UpdatePayloads
<1>4. UpdatePayloads(ps, v) \in Seq(PayloadConfig) /\ Len(UpdatePayloads(ps, v)) = Len(ps)
  BY <1>3, MapType
<1>5. ASSUME NEW k \in 1..Len(ps)
      PROVE  UpdatePayloads(ps, v)[k] = UpdatePayload(ps[k], v)
  BY <1>1 DEF UpdatePayloads
<1> QED
  BY <1>1, <1>2, <1>4, <1>5

\* The default configuration is one payload with every key, so the files
\* found after a missing one was created are still configurations.
LEMMA ConfigsFoundType ==
  ASSUME TypeOK
  PROVE  ConfigsFound \in [ConfigName -> Seq(PayloadConfig) \cup {None, Torn}]
<1>1. [keys |-> Keys, fw |-> 0, lowest |-> 0] \in PayloadConfig
  BY CreateConstants DEF PayloadConfig
<1>2. DefaultPayloads \in Seq(PayloadConfig)
  BY <1>1 DEF DefaultPayloads
<1> QED
  BY <1>2, CreateConstants DEF TypeOK, ConfigsFound

\* A capsule encoded from a configuration: one item for each payload, with
\* its versions and the volume file.
LEMMA EncodeType ==
  ASSUME TypeOK, NEW ps \in Seq(PayloadConfig), fv # None
  PROVE  /\ Encode(ps) \in Capsule
         /\ Encode(ps).run = runs
         /\ Len(Encode(ps).items) = Len(ps)
         /\ \A k \in 1..Len(ps) : /\ Encode(ps).items[k].fw = ps[k].fw
                                  /\ Encode(ps).items[k].lowest = ps[k].lowest
                                  /\ Encode(ps).items[k].volume = fv
<1>1. DOMAIN ps = 1..Len(ps) /\ Len(ps) \in Nat /\ \A k \in 1..Len(ps) : ps[k] \in PayloadConfig
  BY LenProperties, ElementOfSeq
<1> DEFINE Items == [k \in DOMAIN ps |-> [fw |-> ps[k].fw, lowest |-> ps[k].lowest,
                                          signed |-> Signed(ps[k]), volume |-> fv]]
<1>2. fv \in Fv!Volume \cup {Torn} /\ runs \in Nat
  BY CreateConstants DEF TypeOK, Fv!ContractTypeOK
<1>3. ASSUME NEW p \in PayloadConfig
      PROVE  [fw |-> p.fw, lowest |-> p.lowest, signed |-> Signed(p), volume |-> fv] \in Item
  <2>1. Signed(p) \in BOOLEAN
    BY DEF Signed
  <2> QED
    BY <1>2, <2>1 DEF Item, PayloadConfig
<1>4. Items \in [DOMAIN ps -> Item]
  BY <1>1, <1>3
<1>5. Items \in Seq(Item) /\ Len(Items) = Len(ps)
  BY <1>4, MapType
<1>6. Encode(ps) = [run |-> runs, items |-> Items]
  BY DEF Encode
<1> QED
  BY <1>1, <1>2, <1>5, <1>6 DEF Capsule

-----------------------------------------------------------------------------
(* The inductive invariant.                                                 *)

\* Initially every part holds: no run, no file but the configurations.
LEMMA InitInv == Init => IInv
<1> SUFFICES ASSUME Init PROVE IInv
  OBVIOUS
<1>1. TypeOK
  BY CreateConstants DEF Init, TypeOK, Pc, Fv!ContractInit, Fv!ContractTypeOK
<1> QED
  BY <1>1, NotContents
     DEF IInv, Init, Control, VolumeOfVersionFile, VersionsConfigured, VolumePacked,
         HeadersOfVersionFile, VersionFileOfRun, Fv!ContractInit

\* Every step keeps the types.  What the write that is cut short leaves:
LEMMA CutShortType ==
  ASSUME TypeOK, Control, pc # "idle", CutShort
  PROVE  /\ versionFile' \in VersionFile \cup {None, Torn}
         /\ xml' \in Nat \cup {None, Torn}
         /\ staged' \in [Names -> PatchedCopy \cup {None, Torn}]
         /\ config' \in [ConfigName -> Seq(PayloadConfig) \cup {None, Torn}]
         /\ capsule' \in Capsule \cup {None, Torn}
<1>1. job \in Jobs
  BY DEF Control
<1>2. CASE UNCHANGED <<inputs, config, capsule>>
  BY <1>2 DEF TypeOK, inputs
<1>3. CASE pc = "version" /\ versionFile' \in {None, Torn} /\ UNCHANGED <<xml, staged, config, capsule>>
  BY <1>3 DEF TypeOK
<1>4. CASE xml' = Torn /\ UNCHANGED <<versionFile, staged, config, capsule>>
  BY <1>4 DEF TypeOK
<1>5. CASE /\ staged' = [staged EXCEPT ![BaseName[CurrentImage]] = Torn]
           /\ UNCHANGED <<versionFile, xml, config, capsule>>
  BY <1>5 DEF TypeOK
<1>6. CASE /\ \/ config' = ConfigsFound
              \/ config' = [config EXCEPT ![DefaultConfig] = Torn]
              \/ config' = [ConfigsFound EXCEPT ![job.config] = Torn]
           /\ UNCHANGED <<inputs, capsule>>
  <2>1. config' \in [ConfigName -> Seq(PayloadConfig) \cup {None, Torn}]
    BY <1>6, ConfigsFoundType DEF TypeOK
  <2> QED
    BY <1>6, <2>1 DEF TypeOK, inputs
<1>7. CASE capsule' = Torn /\ UNCHANGED <<inputs, config>>
  BY <1>7 DEF TypeOK, inputs
<1> QED
  BY <1>2, <1>3, <1>4, <1>5, <1>6, <1>7 DEF CutShort

\* The firmware volume step keeps the types of the contract.
LEMMA FvTypeStep ==
  ASSUME Fv!ContractTypeOK,
         \/ \E version \in Nat \cup {None} : Fv!Begin(version)
         \/ Fv!Publish \/ Fv!Fail \/ Fv!Die \/ Fv!Complete
  PROVE  Fv!ContractTypeOK'
<1>1. CASE \E version \in Nat \cup {None} : Fv!Begin(version)
  BY <1>1 DEF Fv!ContractTypeOK, Fv!Begin
<1>2. CASE Fv!Publish
  <2>1. fvRun \in Nat /\ request \in Nat \cup {None}
    BY DEF Fv!ContractTypeOK
  <2>2. PICK fws \in {{}, {request} \ {None}} : fv' = [run |-> fvRun, fws |-> fws]
    BY <1>2 DEF Fv!Publish
  <2>3. fws \in SUBSET Nat
    BY <2>1
  <2>4. fv' \in Fv!Volume
    BY <2>1, <2>2, <2>3 DEF Fv!Volume
  <2> QED
    BY <1>2, <2>4 DEF Fv!ContractTypeOK, Fv!Publish
<1>3. CASE Fv!Fail \/ Fv!Die \/ Fv!Complete
  BY <1>3 DEF Fv!ContractTypeOK, Fv!Fail, Fv!Die, Fv!Complete, Fv!Spoiled
<1> QED
  BY <1>1, <1>2, <1>3

LEMMA TypeStep == TypeOK /\ Control /\ VersionsConfigured /\ [Next]_vars => TypeOK'
<1> SUFFICES ASSUME TypeOK, Control, VersionsConfigured, [Next]_vars PROVE TypeOK'
  OBVIOUS
<1> USE DEF Pc
<1>1. CASE Start
  BY <1>1, CreateConstants DEF Start, TypeOK, inputs, fvVars, Fv!ContractTypeOK
<1>2. CASE GenerateVersion
  <2>1. job.fwver \in Version /\ job.lfwver \in Version
    BY <1>2, JobType DEF GenerateVersion, Control
  <2>2. versionFile' \in VersionFile \cup {None, Torn}
    BY <1>2, <2>1, CreateConstants DEF GenerateVersion, TypeOK, VersionFile
  <2> QED
    BY <1>2, <2>2 DEF GenerateVersion, TypeOK, fvVars, Fv!ContractTypeOK
<1>3. CASE UpdateFvXml
  <2>1. Len(job.patch) \in Nat
    BY <1>3, JobType, LenProperties DEF UpdateFvXml, Control
  <2>2. runs \in Nat
    BY CreateConstants DEF TypeOK
  <2> QED
    BY <1>3, <2>1, <2>2 DEF UpdateFvXml, ExitOne, TypeOK, fvVars, Fv!ContractTypeOK
<1>4. CASE PatchImage
  <2>1. left \in 1..Len(job.patch) /\ job \in Jobs
    BY <1>4, JobType, LenProperties DEF PatchImage, Control, TypeOK
  <2>2. CurrentImage \in ImagePath /\ runs \in Nat
    BY <2>1, CurrentImageType, CreateConstants DEF TypeOK
  <2>3. [run |-> runs, of |-> CurrentImage] \in PatchedCopy
    BY <2>2 DEF PatchedCopy
  <2>4. left - 1 \in Nat
    BY <2>1
  <2>5. staged' \in [Names -> PatchedCopy \cup {None, Torn}] /\ left' \in Nat
    BY <1>4, <2>3, <2>4 DEF PatchImage, TypeOK
  <2> QED
    BY <1>4, <2>5 DEF PatchImage, ExitOne, TypeOK, fvVars, Fv!ContractTypeOK
<1>5. CASE StartFv
  <2>1. \E version \in Nat \cup {None} : Fv!Begin(version)
    BY <1>5, VersionsReadType, CreateConstants DEF StartFv
  <2>2. Fv!ContractTypeOK'
    BY <2>1, FvTypeStep DEF TypeOK
  <2> QED
    BY <1>5, <2>2 DEF StartFv, TypeOK, inputs
<1>6. CASE WriteFv
  <2>1. Fv!ContractTypeOK'
    BY <1>6, FvTypeStep DEF TypeOK, WriteFv
  <2> QED
    BY <1>6, <2>1 DEF WriteFv, TypeOK, inputs
<1>7. CASE EndFv
  <2>1. Fv!ContractTypeOK'
    BY <1>7, FvTypeStep DEF TypeOK, EndFv
  <2> QED
    BY <1>7, <2>1 DEF EndFv, TypeOK, inputs
<1>8. CASE FvDies
  <2>1. Fv!ContractTypeOK'
    BY <1>8, FvTypeStep DEF TypeOK, FvDies
  <2> QED
    BY <1>8, <2>1 DEF FvDies, ExitOne, TypeOK, inputs
<1>9. CASE UpdateJson
  <2>1. config' \in [ConfigName -> Seq(PayloadConfig) \cup {None, Torn}]
    <3>1. CASE UNCHANGED config \/ config' = ConfigsFound
      BY <3>1, ConfigsFoundType DEF TypeOK
    <3>2. CASE /\ versionFile # None /\ ConfigsFound[job.config] \notin {None, Torn}
               /\ \E v \in VersionsRead :
                    config' = [ConfigsFound EXCEPT ![job.config] = UpdatePayloads(@, v)]
      <4>1. job.config \in ConfigName
        BY <1>9, JobType DEF UpdateJson, Control
      <4>2. ConfigsFound[job.config] \in Seq(PayloadConfig)
        BY <3>2, <4>1, ConfigsFoundType
      <4>3. PICK v \in VersionsRead :
              config' = [ConfigsFound EXCEPT ![job.config] = UpdatePayloads(@, v)]
        BY <3>2
      <4>4. v \in [fw : Word, lowest : Word]
        BY <3>2, VersionsReadType
      <4>5. UpdatePayloads(ConfigsFound[job.config], v) \in Seq(PayloadConfig)
        BY <4>2, <4>4, UpdatePayloadsType
      <4> QED
        BY <4>3, <4>5, ConfigsFoundType
    <3> QED
      BY <1>9, <3>1, <3>2 DEF UpdateJson
  <2> QED
    BY <1>9, <2>1 DEF UpdateJson, ExitOne, TypeOK, inputs, fvVars, Fv!ContractTypeOK
<1>10. CASE GenerateCapsule
  <2>1. config[job.config] \in Seq(PayloadConfig)
    BY <1>10 DEF GenerateCapsule, VersionsConfigured
  <2>2. Packable(config[job.config]) => Encode(config[job.config]) \in Capsule
    BY <2>1, EncodeType DEF Packable
  <2>3. capsule' \in Capsule \cup {None, Torn}
    BY <1>10, <2>2 DEF GenerateCapsule, TypeOK
  <2> QED
    BY <1>10, <2>3 DEF GenerateCapsule, ExitOne, TypeOK, inputs, fvVars, Fv!ContractTypeOK
<1>11. CASE Crash
  <2>1. pc # "idle" /\ CutShort
    BY <1>11 DEF Crash
  <2> QED
    BY <1>11, <2>1, CutShortType DEF Crash, ExitOne, TypeOK, fvVars, Fv!ContractTypeOK
<1>12. CASE UNCHANGED vars
  BY <1>12 DEF vars, inputs, fvVars, TypeOK, Fv!ContractTypeOK
<1> QED
  BY <1>1, <1>2, <1>3, <1>4, <1>5, <1>6, <1>7, <1>8, <1>9, <1>10, <1>11, <1>12 DEF Next, Progress

\* Patching one more image keeps the copies of those before it whole, and of
\* this run: a copy is replaced only by one of an image of the same name.
LEMMA PatchKeepsCopies ==
  ASSUME TypeOK, Control, PatchImage, pc' # "idle"
  PROVE  (/\ left <= Len(job.patch)
          /\ \A k \in 1..(Len(job.patch) - left) : Copied(k, Len(job.patch) - left))'
<1> DEFINE done == Len(job.patch) - left
<1>1. job \in Jobs /\ job.patch \in Seq(ImagePath) /\ Len(job.patch) \in Nat
  BY JobType, LenProperties DEF Control, PatchImage
<1>2. left \in 1..Len(job.patch) /\ left' = left - 1 /\ job' = job /\ runs' = runs
  BY <1>1 DEF PatchImage, Control, TypeOK, ExitOne
<1>3. done \in Nat /\ done' = done + 1 /\ CurrentImage = job.patch[done + 1]
  BY <1>1, <1>2 DEF CurrentImage
<1>4. CurrentImage \in ImagePath /\ BaseName[CurrentImage] \in Names
  BY <1>1, <1>2, CurrentImageType
<1>5. staged' = [staged EXCEPT ![BaseName[CurrentImage]] = [run |-> runs, of |-> CurrentImage]]
  BY DEF PatchImage, ExitOne
<1>6. [run |-> runs, of |-> CurrentImage] \notin {None, Torn}
  <2>1. [run |-> runs, of |-> CurrentImage] \in PatchedCopy
    BY <1>4, CreateConstants DEF PatchedCopy, TypeOK
  <2> QED
    BY <2>1, NotContents
<1>7. ASSUME NEW k \in 1..(done + 1)
      PROVE  Copied(k, done)'
  <2>1. CASE BaseName[job.patch[k]] = BaseName[CurrentImage]
    <3>1. staged'[BaseName[job.patch[k]]] = [run |-> runs, of |-> CurrentImage]
      BY <1>4, <1>5, <2>1 DEF TypeOK
    <3>2. done + 1 \in k..(done + 1)
      BY <1>3
    <3> QED
      BY <1>2, <1>3, <1>6, <3>1, <3>2 DEF Copied
  <2>2. CASE BaseName[job.patch[k]] # BaseName[CurrentImage]
    <3>1. k \in 1..done
      BY <1>3, <2>2
    <3>2. Copied(k, done)
      BY <3>1 DEF Control, PatchImage
    <3>3. job.patch[k] \in ImagePath
      BY <1>1, <1>2, <1>3, <3>1, ElementOfSeq
    <3>4. BaseName[job.patch[k]] \in Names
      BY <3>3 DEF Names
    <3>5. staged'[BaseName[job.patch[k]]] = staged[BaseName[job.patch[k]]]
      BY <1>5, <2>2, <3>4 DEF TypeOK
    <3>6. k..done \subseteq k..(done + 1)
      BY <1>3
    <3> QED
      BY <1>2, <3>2, <3>5, <3>6 DEF Copied
  <2> QED
    BY <2>1, <2>2
<1>8. left' <= Len(job'.patch)
  BY <1>1, <1>2
<1>9. (\A k \in 1..done : Copied(k, done))'
  BY <1>3, <1>7
<1> QED
  BY <1>8, <1>9

LEMMA ControlStep == TypeOK /\ Control /\ [Next]_vars => Control'
<1> SUFFICES ASSUME TypeOK, Control, [Next]_vars PROVE Control'
  OBVIOUS
<1>1. CASE Start
  BY <1>1 DEF Start, Control, fvVars
<1>2. CASE GenerateVersion
  BY <1>2 DEF GenerateVersion, Control, fvVars
<1>3. CASE UpdateFvXml
  <2>1. job' \in Jobs /\ Len(job.patch) \in Nat
    BY <1>3, JobType, LenProperties DEF UpdateFvXml, Control
  <2> QED
    BY <1>3, <2>1 DEF UpdateFvXml, ExitOne, Control, Copied, fvVars
<1>4. CASE PatchImage
  <2>1. CASE pc' = "idle"
    BY <1>4, <2>1 DEF PatchImage, Control, fvVars
  <2>2. CASE pc' # "idle"
    <3>1. pc' = "patch" /\ status' = status /\ job' = job /\ xml' = xml /\ runs' = runs
      BY <1>4, <2>2 DEF PatchImage, ExitOne
    <3> QED
      BY <1>4, <2>2, <3>1, PatchKeepsCopies DEF PatchImage, Control, fvVars
  <2> QED
    BY <2>1, <2>2
<1>5. CASE StartFv
  BY <1>5 DEF StartFv, Control, Copied, inputs, Fv!Begin
<1>6. CASE WriteFv
  BY <1>6 DEF WriteFv, Control, Copied, inputs, Fv!Publish
<1>7. CASE EndFv
  BY <1>7 DEF EndFv, Control, inputs, Fv!Complete, Fv!Fail
<1>8. CASE FvDies
  BY <1>8 DEF FvDies, ExitOne, Control, inputs, Fv!Die
<1>9. CASE UpdateJson
  BY <1>9 DEF UpdateJson, ExitOne, Control, inputs, fvVars
<1>10. CASE GenerateCapsule
  BY <1>10 DEF GenerateCapsule, ExitOne, Control, inputs, fvVars
<1>11. CASE Crash
  BY <1>11 DEF Crash, ExitOne, Control, fvVars
<1>12. CASE UNCHANGED vars
  BY <1>12 DEF vars, inputs, fvVars, Control, Copied
<1> QED
  BY <1>1, <1>2, <1>3, <1>4, <1>5, <1>6, <1>7, <1>8, <1>9, <1>10, <1>11, <1>12 DEF Next, Progress

\* A run with well-formed versions keeps the version file that it wrote.
LEMMA VersionStep == IInv /\ [Next]_vars => VersionFileOfRun'
<1> SUFFICES ASSUME IInv, [Next]_vars PROVE VersionFileOfRun'
  OBVIOUS
<1> USE DEF IInv, VersionFileOfRun
<1>1. CASE Start
  BY <1>1 DEF Start
<1>2. CASE GenerateVersion
  BY <1>2 DEF GenerateVersion, Control, WellFormedVersions
<1>3. CASE UpdateFvXml \/ PatchImage
  BY <1>3 DEF UpdateFvXml, PatchImage, ExitOne, WellFormedVersions
<1>4. CASE StartFv \/ WriteFv \/ EndFv \/ FvDies
  BY <1>4 DEF StartFv, WriteFv, EndFv, FvDies, ExitOne, inputs, WellFormedVersions
<1>5. CASE UpdateJson \/ GenerateCapsule
  BY <1>5 DEF UpdateJson, GenerateCapsule, ExitOne, inputs, WellFormedVersions
<1>6. CASE Crash
  BY <1>6 DEF Crash, ExitOne
<1>7. CASE UNCHANGED vars
  BY <1>7 DEF vars, inputs, WellFormedVersions
<1> QED
  BY <1>1, <1>2, <1>3, <1>4, <1>5, <1>6, <1>7 DEF Next, Progress

\* The volume file and the version file of a run agree.
LEMMA VolumeStep == IInv /\ [Next]_vars => VolumeOfVersionFile'
<1> SUFFICES ASSUME IInv, [Next]_vars PROVE VolumeOfVersionFile'
  OBVIOUS
<1> USE DEF IInv
<1>1. CASE Start
  BY <1>1 DEF Start, VolumeOfVersionFile, fvVars
<1>2. CASE GenerateVersion
  BY <1>2 DEF GenerateVersion, VolumeOfVersionFile, Control, fvVars
<1>3. CASE UpdateFvXml
  BY <1>3 DEF UpdateFvXml, ExitOne, VolumeOfVersionFile, Control, fvVars
<1>4. CASE PatchImage
  BY <1>4 DEF PatchImage, ExitOne, VolumeOfVersionFile, Control, fvVars
<1>5. CASE StartFv
  <2>1. pc' = "fv" /\ status' = status /\ versionFile' = versionFile /\ status # "ok"
    BY <1>5 DEF StartFv, Control, inputs
  <2>2. fv' = fv /\ fvRun' = fvRun + 1 /\ phase' = "working" /\ fvRun \in Nat
    BY <1>5 DEF StartFv, TypeOK, Fv!Begin, Fv!ContractTypeOK
  <2>3. versionFile # Torn =>
          request' = IF versionFile = None THEN None ELSE versionFile.fw
    BY <1>5 DEF StartFv, VersionsRead, Fv!Begin
  <2>4. fv \notin {None, Torn} => fv.run \in Nat /\ fv.run <= fvRun
    BY DEF VolumeOfVersionFile, TypeOK, Fv!ContractTypeOK, Fv!Volume
  <2> QED
    BY <2>1, <2>2, <2>3, <2>4 DEF VolumeOfVersionFile
<1>6. CASE WriteFv
  <2>1. pc = "fv" /\ pc' = "fv" /\ status' = status /\ versionFile' = versionFile
    BY <1>6 DEF WriteFv, inputs
  <2>2. PICK fws \in {{}, {request} \ {None}} : fv' = [run |-> fvRun, fws |-> fws]
    BY <1>6 DEF WriteFv, Fv!Publish
  <2>3. fvRun' = fvRun /\ phase' = "written" /\ request' = request /\ fvRun \in Nat
    BY <1>6 DEF WriteFv, TypeOK, Fv!Publish, Fv!ContractTypeOK
  <2>4. versionFile # Torn => fws \subseteq (IF versionFile = None THEN {} ELSE {versionFile.fw})
    BY <2>1, <2>2 DEF VolumeOfVersionFile
  <2> QED
    BY <2>1, <2>2, <2>3, <2>4 DEF VolumeOfVersionFile
<1>7. CASE EndFv
  BY <1>7 DEF EndFv, VolumeOfVersionFile, inputs, Fv!Complete, Fv!Fail, Fv!Spoiled
<1>8. CASE FvDies
  BY <1>8 DEF FvDies, ExitOne, VolumeOfVersionFile, inputs, Fv!Die, Fv!Spoiled
<1>9. CASE UpdateJson
  BY <1>9 DEF UpdateJson, ExitOne, VolumeOfVersionFile, inputs, fvVars
<1>10. CASE GenerateCapsule
  BY <1>10 DEF GenerateCapsule, ExitOne, VolumeOfVersionFile, inputs, fvVars
<1>11. CASE Crash
  BY <1>11 DEF Crash, ExitOne, VolumeOfVersionFile, Control, fvVars
<1>12. CASE UNCHANGED vars
  BY <1>12 DEF vars, inputs, fvVars, VolumeOfVersionFile
<1> QED
  BY <1>1, <1>2, <1>3, <1>4, <1>5, <1>6, <1>7, <1>8, <1>9, <1>10, <1>11, <1>12 DEF Next, Progress

\* What UpdateJson leaves in the file it was told to use.
LEMMA UpdateJsonConfigures ==
  ASSUME IInv, UpdateJson, pc' = "generate"
  PROVE  VersionsConfigured'
<1>1. versionFile # None /\ versionFile' = versionFile /\ job' = job /\ job.config \in ConfigName
  BY JobType DEF IInv, Control, UpdateJson, ExitOne, inputs
<1>2. ConfigsFound[job.config] \in Seq(PayloadConfig)
  BY <1>1, ConfigsFoundType DEF IInv, UpdateJson, ExitOne
<1>3. PICK v \in VersionsRead :
        config' = [ConfigsFound EXCEPT ![job.config] = UpdatePayloads(@, v)]
  BY DEF UpdateJson, ExitOne
<1>4. v \in [fw : Word, lowest : Word]
  BY <1>1, VersionsReadType DEF IInv
<1>5. config'[job.config] = UpdatePayloads(ConfigsFound[job.config], v)
  BY <1>1, <1>3, ConfigsFoundType DEF IInv
<1>6. versionFile # Torn => v.fw = versionFile.fw /\ v.lowest = versionFile.lowest
  BY <1>1 DEF VersionsRead
<1> QED
  BY <1>1, <1>2, <1>4, <1>5, <1>6, UpdatePayloadsType DEF VersionsConfigured

LEMMA ConfiguredStep == IInv /\ [Next]_vars => VersionsConfigured'
<1> SUFFICES ASSUME IInv, [Next]_vars, pc' = "generate" PROVE VersionsConfigured'
  BY DEF VersionsConfigured
<1>1. CASE UpdateJson
  BY <1>1, UpdateJsonConfigures
<1>2. CASE UNCHANGED vars
  BY <1>2 DEF IInv, vars, inputs, VersionsConfigured
<1>3. CASE Start \/ GenerateVersion \/ UpdateFvXml \/ PatchImage
  BY <1>3 DEF Start, GenerateVersion, UpdateFvXml, PatchImage, ExitOne
<1>4. CASE StartFv \/ WriteFv \/ EndFv \/ FvDies
  BY <1>4 DEF StartFv, WriteFv, EndFv, FvDies, ExitOne
<1>5. CASE GenerateCapsule \/ Crash
  BY <1>5 DEF GenerateCapsule, Crash, ExitOne
<1> QED
  BY <1>1, <1>2, <1>3, <1>4, <1>5 DEF Next, Progress

\* What GenerateCapsule writes when it exits with code zero.
LEMMA GenerateCapsulePacks ==
  ASSUME IInv, GenerateCapsule, status' = "ok"
  PROVE  VolumePacked' /\ HeadersOfVersionFile'
<1> DEFINE payloads == config[job.config]
<1>1. /\ versionFile # None
      /\ payloads \in Seq(PayloadConfig)
      /\ versionFile # Torn => \A k \in 1..Len(payloads) :
           /\ "FwVersion" \in payloads[k].keys => payloads[k].fw = versionFile.fw
           /\ "LowestSupportedVersion" \in payloads[k].keys => payloads[k].lowest = versionFile.lowest
  BY DEF IInv, VersionsConfigured, GenerateCapsule
<1>2. Packable(payloads) /\ capsule' = Encode(payloads) /\ pc' = "idle"
  BY DEF GenerateCapsule, ExitOne
<1>3. fv # None /\ payloads # <<>> /\ \A k \in 1..Len(payloads) :
        {"FwVersion", "LowestSupportedVersion"} \subseteq payloads[k].keys
  BY <1>1, <1>2, LenProperties DEF Packable, Accepted, Required
<1>4. /\ capsule' \in Capsule /\ capsule'.run = runs /\ Len(capsule'.items) = Len(payloads)
      /\ \A k \in 1..Len(payloads) : /\ capsule'.items[k].fw = payloads[k].fw
                                      /\ capsule'.items[k].lowest = payloads[k].lowest
                                      /\ capsule'.items[k].volume = fv
  BY <1>1, <1>2, <1>3, EncodeType DEF IInv
<1>5. versionFile' = versionFile /\ fv' = fv /\ runs' = runs
  BY DEF GenerateCapsule, inputs, fvVars
<1>6. capsule'.items \in Seq(Item)
  BY <1>4 DEF Capsule
<1>7. DOMAIN capsule'.items = 1..Len(payloads) /\ Len(payloads) # 0
  BY <1>1, <1>3, <1>4, <1>6, LenProperties, EmptySeq
<1>8. capsule'.items # <<>>
  BY <1>4, <1>7, EmptySeq
<1> QED
  BY <1>1, <1>2, <1>3, <1>4, <1>5, <1>7, <1>8 DEF VolumePacked, HeadersOfVersionFile

LEMMA PackedStep == IInv /\ [Next]_vars => (VolumePacked /\ HeadersOfVersionFile)'
<1> SUFFICES ASSUME IInv, [Next]_vars, status' = "ok"
             PROVE  (VolumePacked /\ HeadersOfVersionFile)'
  BY DEF VolumePacked, HeadersOfVersionFile
<1>1. CASE GenerateCapsule
  BY <1>1, GenerateCapsulePacks
<1>2. CASE UNCHANGED vars
  BY <1>2 DEF IInv, vars, inputs, fvVars, VolumePacked, HeadersOfVersionFile
<1>3. CASE Start \/ Crash
  BY <1>3 DEF Start, Crash, ExitOne
<1>4. CASE GenerateVersion \/ UpdateFvXml \/ PatchImage
  BY <1>4 DEF IInv, Control, GenerateVersion, UpdateFvXml, PatchImage, ExitOne
<1>5. CASE StartFv \/ WriteFv \/ EndFv \/ FvDies
  BY <1>5 DEF IInv, Control, StartFv, WriteFv, EndFv, FvDies, ExitOne
<1>6. CASE UpdateJson
  BY <1>6 DEF IInv, Control, UpdateJson, ExitOne
<1> QED
  BY <1>1, <1>2, <1>3, <1>4, <1>5, <1>6 DEF Next, Progress

-----------------------------------------------------------------------------
(* The theorems.                                                            *)

\* The inductive invariant holds of every behaviour.
THEOREM Invariance == Spec => []IInv
<1>1. Init => IInv
  BY InitInv
<1>2. IInv /\ [Next]_vars => IInv'
  BY TypeStep, ControlStep, VersionStep, VolumeStep, ConfiguredStep, PackedStep DEF IInv
<1> QED
  BY <1>1, <1>2, PTL DEF Spec

\* Every variable keeps its type, whatever is killed and whatever is stale.
THEOREM TypeCorrectness == Spec => []TypeOK
<1>1. IInv => TypeOK
  BY DEF IInv
<1> QED
  BY <1>1, Invariance, PTL

\* A run that exits with code zero has written a capsule whose payload
\* headers all carry the version words of SYSFW_VERSION.bin.
THEOREM HeaderVersions == Spec => []HeadersOfVersionFile
<1>1. IInv => HeadersOfVersionFile
  BY DEF IInv
<1> QED
  BY <1>1, Invariance, PTL

\* The capsule of a run that exits with code zero carries the two versions the
\* run was given, if both are four numbers, whatever earlier runs left behind.
THEOREM VersionsCarried == Spec => []VersionCarried
<1>1. ASSUME IInv, status = "ok", WellFormedVersions
      PROVE  versionFile # Torn /\ versionFile.fw = WordOf[job.fwver]
                                /\ versionFile.lowest = WordOf[job.lfwver]
  <2>1. versionFile = [run |-> runs, fw |-> WordOf[job.fwver], lowest |-> WordOf[job.lfwver]]
    BY <1>1 DEF IInv, VersionFileOfRun
  <2>2. versionFile \in VersionFile
    <3>1. job \in Jobs
      BY <1>1 DEF IInv, VersionFileOfRun
    <3>2. WordOf[job.fwver] \in Word /\ WordOf[job.lfwver] \in Word
      BY <1>1, <3>1, JobType, CreateConstants DEF WellFormedVersions
    <3>3. runs \in Nat
      BY <1>1, CreateConstants DEF IInv, TypeOK
    <3> QED
      BY <2>1, <3>2, <3>3 DEF VersionFile
  <2> QED
    BY <2>1, <2>2, NotContents
<1>2. IInv => VersionCarried
  BY <1>1 DEF VersionCarried, IInv, HeadersOfVersionFile
<1> QED
  BY <1>2, Invariance, PTL

\* The two versions in a capsule, that of the payload header and that of the
\* metadata inside the volume, agree when the volume is of the same run.
THEOREM VersionsAgree == Spec => []HeaderMatchesMetadata
<1>1. ASSUME IInv, status = "ok", versionFile # Torn, NEW k \in DOMAIN capsule.items,
             capsule.items[k].volume # Torn, capsule.items[k].volume.run = fvRun
      PROVE  capsule.items[k].volume.fws \subseteq {capsule.items[k].fw}
  <2>1. versionFile # None /\ capsule.items \in Seq(Item)
    BY <1>1 DEF IInv, VolumePacked, Capsule
  <2>2. k \in 1..Len(capsule.items)
    BY <2>1, <1>1, LenProperties
  <2>3. capsule.items[k].volume = fv /\ capsule.items[k].volume \in Fv!Volume \cup {Torn}
    <3>1. capsule.items[k] \in Item
      BY <2>1, <2>2, ElementOfSeq
    <3>2. capsule.items[k].volume = fv
      BY <1>1, <2>2 DEF IInv, VolumePacked
    <3> QED
      BY <3>1, <3>2 DEF Item
  <2>4. fv \notin {None, Torn}
    BY <1>1, <2>3, NotContents
  <2>5. fv.fws \subseteq {versionFile.fw}
    BY <1>1, <2>1, <2>3, <2>4 DEF IInv, VolumeOfVersionFile
  <2>6. capsule.items[k].fw = versionFile.fw
    BY <1>1 DEF IInv, HeadersOfVersionFile
  <2> QED
    BY <2>3, <2>5, <2>6
<1>2. IInv => HeaderMatchesMetadata
  BY <1>1 DEF HeaderMatchesMetadata
<1> QED
  BY <1>2, Invariance, PTL

\* fv-create is started over an XML and over patched copies of its own run.
THEOREM FvInputs == Spec => []InputsReady
<1>1. ASSUME IInv, pc = "fv", NEW i \in DOMAIN job.patch
      PROVE  Copied(i, Len(job.patch))
  <2>1. job \in Jobs /\ left = 0
    BY <1>1 DEF IInv, Control
  <2>2. i \in 1..(Len(job.patch) - left) /\ Len(job.patch) - left = Len(job.patch)
    BY <1>1, <2>1, JobType, LenProperties
  <2> QED
    BY <1>1, <2>2 DEF IInv, Control
<1>2. IInv => InputsReady
  BY <1>1 DEF InputsReady, Copied, IInv, Control
<1> QED
  BY <1>2, Invariance, PTL
=============================================================================
