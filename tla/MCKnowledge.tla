----------------------------- MODULE MCKnowledge -----------------------------
(***************************************************************************)
(* Instances of Knowledge for TLC.                                         *)
(***************************************************************************)
EXTENDS Knowledge

CONSTANTS a, b, m1, m2

T == {"near", "far"}

K(t) == Key(t, "docs")
Digest == Key("near", "digest")
Old(k) == [id |-> <<"old", 0, 0, k>>, text |-> k.text, source |-> k.source]

\* The embeddings of a file that was marked with m when it was last opened.
FileOf(rows, m) ==
    Files(rows, [id \in IdsOf(rows) |-> Embedded(CHOOSE r \in rows : r.id = id, m)], m)

MCOldRows == {{}, {Old(K("near")), Old(Digest)}}

\* No file, one of m1's, and one written before there were markers.
MCOldFiles ==
    {NoFile, FileOf({Old(K("near")), Old(Digest)}, m1), FileOf({Old(K("near"))}, Unmarked)}

MCModel == [c \in Callers |-> IF c = a THEN m1 ELSE m2]
MCScope == [t \in T |-> IF t = "near" THEN "all" ELSE "hit"]
MCRank == [t \in T |-> IF t = "near" THEN 1 ELSE 2]

\* A batch drained one at a time, one with the same items in the other order,
\* one that repeats an item; edits that collide; deletions.
MCRequests ==
    {Ingest(<<K("near"), K("far")>>, 1), Ingest(<<K("far"), K("near")>>, 9),
     Ingest(<<K("near"), K("far"), K("far")>>, 9),
     Update(Old(K("near")).id, "far", UNSET),
     Update(Old(K("near")).id, UNSET, "digest"),
     Forget("id", Old(K("near")).id), Forget("source", "docs"), Query, Listing}

Few == {Ingest(<<K("near"), K("far")>>, 9), Forget("source", "docs")}

=============================================================================
