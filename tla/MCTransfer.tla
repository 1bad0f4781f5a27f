----------------------------- MODULE MCTransfer -----------------------------
\* Transfers for TLC: two operations beside each other, a tree of
\* two entries of which one is a symbolic link.
EXTENDS Transfer, TLC

CONSTANTS j1, j2, file1, link1

MCEntries == <<link1, file1>>

Asks(kind, tree, overwrite) == [kind |-> kind, tree |-> tree, overwrite |-> overwrite]
Beside(a, b) == (j1 :> a) @@ (j2 :> b)

\* Any server, any files there already.
Remotely(jobs) ==
  [job : jobs, server : [posix : BOOLEAN, overwrite : BOOLEAN],
   remote : [Names -> {Absent, Foreign}], folder : {TRUE}]

Locally(jobs) ==
  [job : jobs, server : {[posix |-> FALSE, overwrite |-> FALSE]},
   remote : {[f \in Names |-> Foreign]}, folder : BOOLEAN]

\* Uploads of a tree beside saves, uploads and file actions on the same
\* names; two downloads to the same target.
MCScenarios ==
  Remotely(
    {Beside(Asks("upload", TRUE, TRUE), Asks("upload", FALSE, FALSE))}
    \cup {Beside(Asks("upload", TRUE, FALSE), Asks("save", FALSE, TRUE))}
    \cup {Beside(Asks("upload", FALSE, TRUE), Asks("delete", TRUE, FALSE))}
    \cup {Beside(Asks("upload", TRUE, TRUE), Asks(k, FALSE, FALSE)) : k \in {"touch", "rename"}})
  \cup Locally({Beside(Asks("download", t, FALSE), Asks("download", t, FALSE)) : t \in BOOLEAN})
=============================================================================
