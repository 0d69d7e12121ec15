-------------------------- MODULE MCCapsuleCreate --------------------------
(***************************************************************************)
(* A small instance of CapsuleCreate: words of two bits, two versions and  *)
(* a malformed one, two images of one name and one of another, and         *)
(* configurations with every key, with one missing and with two payloads.  *)
(***************************************************************************)
EXTENDS CapsuleCreate, SysfwVersion

MCVersion == {"0.0.0.1", "0.0.1.0", "1.0"}
MCMalformed == {"1.0"}
MCVersionWord == [v \in MCVersion \ MCMalformed |->
                    IF v = "0.0.0.1" THEN VersionWord(0, 1) ELSE VersionWord(1, 0)]
MCWord == 0..(Half * Half - 1)

MCImagePath == {"a/dtb", "b/dtb", "xbl"}
MCBaseName == [i \in MCImagePath |-> IF i = "xbl" THEN "xbl" ELSE "dtb"]

MCConfigName == {"config.json", "other.json"}

Payload(keys) == [keys |-> keys, fw |-> 3, lowest |-> 3]

MCConfigs == {<<Payload(Keys), Payload(Keys)>>, <<Payload(Keys), Payload(Keys \ Certs)>>,
              <<Payload(Keys \ {"LowestSupportedVersion"})>>,
              <<Payload(Keys \ {"OpenSslOtherPublicCertFile"})>>, <<>>}

Create(fwver, patch, name) ==
  [fwver |-> fwver, lfwver |-> "0.0.0.1", patch |-> patch, config |-> name]

MCJobs == {Create("0.0.1.0", <<"a/dtb", "xbl">>, "config.json"),
           Create("0.0.0.1", <<"xbl", "a/dtb", "b/dtb">>, "other.json"),
           Create("1.0", <<>>, "config.json")}
=============================================================================
