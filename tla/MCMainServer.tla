---------------------------- MODULE MCMainServer ----------------------------
(* Instances of MainServer for TLC.                                         *)
EXTENDS MainServer, TLC

CONSTANTS w1, w2, c1, c2, c3, x, y

MCWorkers == {w1, w2}
MCClients == {c1, c2, c3}
MCNames   == {"a", "b", JunkName}
MCBlobs   == {x, y, Partial, BadBlob}

F(name, blob) == [name |-> name, blob |-> blob]

\* One file, and two files of which the second may find the table full when
\* MaxManifestEntries is 2 and a junk name was listed before.
MCFileLists == {<<F("a", x)>>, <<F("b", y), F("a", y)>>}

\* For the run with crashes: at most one file per push, so that a crash between
\* two files is one between the file and the manifest.
MCFileListsTwo == {<<>>, <<F("a", x)>>, <<F("b", y)>>}

\* For liveness, with a push of no files, which makes an empty manifest.
MCFileListsOne   == {<<>>, <<F("a", x)>>}

Symmetry == Permutations(MCWorkers) \cup Permutations(MCClients)
=============================================================================
