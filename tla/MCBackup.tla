------------------------------- MODULE MCBackup -------------------------------
(* Packages over three paths, a directory (4) and a file of another        *)
(* package (5).  The content of path p in version v is 10 * v + p.         *)
EXTENDS Backup, TLC

MCPath      == 1..5
MCDirectory == {4}
MCForeign   == {5}
MCContent   == {11, 12, 13, 21, 22, 23, 99}

(* Regular files: some in both versions, some in one.                      *)
Plain == {{ 1 :> File(11) @@ 2 :> File(12),
            2 :> File(22) @@ 3 :> File(23),
            1 :> File(21) @@ 2 :> File(22) @@ 3 :> File(23) }}

(* A link to a file of another package that stays as it is or goes.        *)
Linked == {{ 1 :> Link(5) @@ 2 :> File(12),
             1 :> Link(5) @@ 3 :> File(23),
             2 :> File(22) @@ 3 :> File(13) }}

(* Packages whose transactions keep what they promise ...                  *)
Sound == Plain \cup Linked

(* ... and packages where some do not: a link that the next version makes  *)
(* lead somewhere else,                                                    *)
Retargeted == {{ 1 :> Link(3) @@ 3 :> File(13), 1 :> Link(5) @@ 3 :> File(23) }}

(* a link that becomes a regular file,                                     *)
Unlinked == {{ 1 :> Link(5), 1 :> File(21) }}

(* a link the next version does not have,                                  *)
Dropped == {{ 1 :> Link(2) @@ 2 :> File(12), 2 :> File(22) }}

(* a link to a directory.                                                  *)
ToFolder == {{ 1 :> Link(4) @@ 2 :> File(12) }}
===============================================================================
