------------------------------ MODULE MCFvXml ------------------------------
(***************************************************************************)
(* Partition files for FvXml.  UFS: one name listed again and again on     *)
(* several LUNs, beside its backup.  The other types: both naming          *)
(* conventions mixed, in every order of the lines.  The image of a line is *)
(* its number, so that the line an entry was taken from shows.             *)
(***************************************************************************)
EXTENDS FvXml

CONSTANTS Guid1, File1, File2, File3, File4, File5

Files == <<File1, File2, File3, File4, File5>>

A(base)      == <<base, "_a">>
B(base)      == <<base, "_b">>
Plain(base)  == <<base>>
Backup(name) == Append(name, "_BACKUP")

MCPart == {A("x"), B("x"), Plain("x"), Plain("y"), Plain("v")}
          \cup {Backup(n) : n \in {A("x"), B("x"), Plain("x"), Plain("y"), Plain("v")}}
MCRefused == {Plain("v")}
MCRank == (Plain("v") :> 1) @@ (Plain("x") :> 2) @@ (A("x") :> 3) @@ (B("x") :> 4) @@ (Plain("y") :> 5)

On(name, lun, image) ==
  [name |-> name, lun |-> lun, guid |-> Guid1, file |-> IF image THEN File1 ELSE None, type |-> None]
Numbered(lines) == [k \in DOMAIN lines |-> [lines[k] EXCEPT !.file = IF @ = None THEN None ELSE Files[k]]]
DiskLine(t) == [name |-> None, lun |-> None, guid |-> Guid1, file |-> None, type |-> t]

\* One or two names, up to four lines, on LUNs that are looked at and one that is not.
UfsLine == {On(A("x"), l, TRUE) : l \in {0, 1, 2, 4}} \cup {On(A("x"), 1, FALSE), On(B("x"), None, TRUE)}
UfsFiles == {Append(Numbered(s), [On(B("x"), l, TRUE) EXCEPT !.file = File5]) :
               s \in UNION {[1..n -> UfsLine] : n \in 0..3}, l \in {1, 2}}

\* Some of the names, in any order, once each; one of them with a bad type GUID.
Flat(ns)   == [k \in DOMAIN ns |-> [On(ns[k], None, TRUE) EXCEPT !.file = Files[k]]]
Orders(S)   == {s \in [1..Cardinality(S) -> S] : \A i, j \in DOMAIN s : i # j => s[i] # s[j]}
FlatFiles == {Flat(s) : s \in UNION {Orders(S) : S \in
                 {{A("x"), B("x"), Plain("x"), Backup(Plain("x"))},
                  {A("x"), B("x"), Backup(A("x")), Plain("y")},
                  {A("x"), B("x"), Backup(B("x"))},
                  {A("x"), Backup(A("x")), Plain("y"), Backup(Plain("y"))},
                  {Plain("v"), Backup(Plain("v")), A("x"), B("x")}}}}
             \cup {<<[On(Plain("x"), None, TRUE) EXCEPT !.file = File1, !.guid = Unknown],
                     [On(Backup(Plain("x")), None, TRUE) EXCEPT !.file = File2]>>,
                   <<[On(Plain("x"), None, TRUE) EXCEPT !.file = File1],
                     [On(Plain("x"), 1, TRUE) EXCEPT !.file = File2],
                     [On(Plain("x"), None, TRUE) EXCEPT !.file = File3],
                     [On(Backup(Plain("x")), None, TRUE) EXCEPT !.file = File4]>>}

Run(conf, target, storage, lines, update) ==
  [conf |-> conf, target |-> target, storage |-> storage, lines |-> lines, update |-> update]

MCJobs ==
  {Run(FALSE, "known", "UFS", f, {Plain("x")}) : f \in UfsFiles}
  \cup {Run(FALSE, "known", s, f, {Plain("x"), Plain("y")}) : s \in {"EMMC", "NORUFS", "NORNVME"}, f \in FlatFiles}
  \cup {Run(TRUE, None, None, <<DiskLine(t), DiskLine("UFS")>> \o f, {A("x")}) :
          t \in {"EMMC", "SPINOR", None}, f \in {Flat(<<A("x"), Backup(A("x"))>>)}}
  \cup {Run(TRUE, None, None, Flat(<<A("x")>>), {}), Run(TRUE, None, "UFS", Flat(<<A("x")>>), {}),
        Run(TRUE, "known", None, Flat(<<A("x")>>), {}), Run(TRUE, None, None, None, {}),
        Run(FALSE, "known", None, Flat(<<A("x")>>), {}), Run(FALSE, Unknown, "UFS", Flat(<<A("x")>>), {}),
        Run(FALSE, None, None, None, {}), Run(FALSE, "known", "EMMC", None, {})}
=============================================================================
