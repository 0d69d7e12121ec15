----------------------------- MODULE MCFvCreate -----------------------------
(***************************************************************************)
(* Small instances of FvCreate: documents of one to three entries over two *)
(* binaries of different stems and one of the same stem as another, and    *)
(* every way each check can refuse one.                                    *)
(***************************************************************************)
EXTENDS FvCreate

MCBinary == {"xbl.elf", "tz.mbn"}
MCPart == {"xbl_a", "xbl_b", "tz_a", "tz_b", "SYSFW_VERSION"}
MCRefusedPart == {"SYSFW_VERSION"}
MCTypeGuid == {"g1", "g2"}
MCMatchId == {"m1", "m2"}
MCDir == {"Images", "staging"}
MCFfsName == {"xbl.ffs", "xbl_a.ffs", "xbl_b.ffs", "xbl_x.ffs", "tz.ffs", "tz_x.ffs",
              "Metadata.ffs", "EC_FW.ffs"}
MCStemOf == [b \in MCBinary |-> IF b = "xbl.elf" THEN "xbl.ffs" ELSE "tz.ffs"]

\* xbl + xbl_a gives xbl_a; every other pair, one suffixed name per stem.
MCRenamed ==
  [n \in MCFfsName |-> [p \in MCPart |->
     CASE n = "xbl.ffs" /\ p = "xbl_a" -> "xbl_a.ffs"
       [] n = "xbl.ffs" /\ p = "xbl_b" -> "xbl_b.ffs"
       [] n = "xbl.ffs" /\ p \notin {"xbl_a", "xbl_b"} -> "xbl_x.ffs"
       [] OTHER -> "tz_x.ffs"]]

Path(disk, part, guid) == [disk |-> disk, part |-> part, guid |-> guid]

Update(bin, upd, bak) ==
  [op |-> "UPDATE", bin |-> bin, inPath |-> "Images",
   updateType |-> "PARTITION", backupType |-> "PARTITION", upd |-> upd, bak |-> bak,
   match |-> None, binType |-> None, images |-> <<>>]

XblA == Update("xbl.elf", Path("LUN1", "xbl_a", "g1"), Path("LUN2", "xbl_b", "g1"))
XblB == Update("xbl.elf", Path("LUN4", "xbl_a", "g2"), Path("LUN5", "xbl_b", "g2"))
XblC == Update("xbl.elf", Path("LUN6", "xbl_a", "g2"), Path("LUN7", "xbl_b", "g2"))
Tz   == Update("tz.mbn", Path("LUN4", "tz_a", "g2"), Path("LUN4", "tz_b", "g2"))

\* Type GUIDs of nothing but braces, which every check lets pass.
TzBraces == [Tz EXCEPT !.upd.guid = Braces, !.bak.guid = Braces]

\* Entries that some check refuses, or that a later step fails on.
FaultyEntries ==
  {[Tz EXCEPT !.op = None], [Tz EXCEPT !.op = Unknown], [Tz EXCEPT !.bin = None],
   [Tz EXCEPT !.updateType = "FAT_FILE"], [Tz EXCEPT !.updateType = "DPP_OEM"],
   [Tz EXCEPT !.backupType = "FAT_FILE"], [Tz EXCEPT !.upd.disk = None],
   [Tz EXCEPT !.bak.disk = None], [Tz EXCEPT !.bak.guid = None],
   [Tz EXCEPT !.upd.part = "SYSFW_VERSION"],
   [Tz EXCEPT !.upd.disk = "SPINOR"], [Tz EXCEPT !.updateType = "FWCLASS_GUID"]}

FwClass == [Tz EXCEPT !.updateType = "FWCLASS_GUID", !.backupType = None,
                      !.upd = EmptyPath, !.bak = EmptyPath]

GlymurEntries ==
  {[Tz EXCEPT !.match = "m1"],
   [Tz EXCEPT !.binType = "FATFS", !.images = <<[file |-> "xbl.elf", arType |-> "set"]>>],
   [Tz EXCEPT !.images = <<[file |-> "xbl.elf", arType |-> "set"]>>]}

Ignored(e) == [e EXCEPT !.op = "IGNORE"]

MCVersion == [revisionOk |-> TRUE, signature |-> "good", crc |-> "good", fw |-> 2, lowest |-> 1]

Everything == [d \in MCDir |-> IF d = "Images" THEN MCBinary ELSE {"xbl.elf"}]

SysFw(entries) ==
  [type |-> "SYS_FW", glymur |-> FALSE, version |-> MCVersion,
   doc |-> [wellFormed |-> TRUE, flash |-> "UFS", entries |-> entries],
   paths |-> <<"staging">>, found |-> Everything]

EcFw == [SysFw(<<>>) EXCEPT !.type = "EC_FW", !.version = None]

GoodJobs ==
  {SysFw(<<XblA, Tz>>), SysFw(<<XblA, Ignored(Tz), XblB>>), SysFw(<<Ignored(XblA), Tz, FwClass>>),
   SysFw(<<XblA, XblB, XblC>>), SysFw(<<XblA, [Tz EXCEPT !.bak = XblA.upd]>>), EcFw,
   [SysFw(<<XblA, Tz>>) EXCEPT !.found["Images"] = {"tz.mbn"}, !.version.fw = 3]}

BadJobs ==
  {SysFw(<<XblA, e>>) : e \in FaultyEntries}
  \cup {[SysFw(<<XblA, e>>) EXCEPT !.glymur = g] : e \in GlymurEntries, g \in BOOLEAN}
  \cup {[SysFw(<<Tz>>) EXCEPT !.version = v] :
          v \in {None, [MCVersion EXCEPT !.revisionOk = FALSE], [MCVersion EXCEPT !.signature = "ascii"],
                 [MCVersion EXCEPT !.crc = "bad"],
                 [MCVersion EXCEPT !.signature = "non_ascii", !.crc = "bad"],
                 [MCVersion EXCEPT !.crc = "past_end"], [MCVersion EXCEPT !.fw = 0]}}
  \cup {[SysFw(<<[Tz EXCEPT !.upd.disk = "BOOT1", !.bak.disk = d]>>) EXCEPT !.doc.flash = "EMMC"] :
           d \in {"BOOT2", None}}
  \cup {SysFw(<<>>), SysFw(<<XblA, TzBraces>>), [SysFw(<<Tz>>) EXCEPT !.doc.wellFormed = FALSE],
        [SysFw(<<Tz>>) EXCEPT !.doc.flash = None], [SysFw(<<XblA, Tz>>) EXCEPT !.found["Images"] = {}]}

MCJobs == GoodJobs \cup BadJobs
=============================================================================
