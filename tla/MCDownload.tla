----------------------------- MODULE MCDownload -----------------------------
(***************************************************************************)
(* The lists and artifact tables a small download meets: repros that share *)
(* nothing, share an artifact, list the same one twice, have none, or are  *)
(* asked for twice because a lineage is named twice.                       *)
(***************************************************************************)
EXTENDS Download

CONSTANTS r1, r2, h1, h2, w1, w2

MCRepro == {r1, r2}
MCHash == {h1, h2}
MCWorker == {w1, w2}

Table(a, b) == [r \in MCRepro |-> IF r = r1 THEN a ELSE b]

Tables == {Table(<<h1>>, <<h2>>), Table(<<h1>>, <<h1>>),
           Table(<<h1, h2>>, <<h2>>), Table(<<h1, h1>>, << >>)}

MCWorlds ==
    [list   : {<<r1, r2>>},
     hashes : Tables,
     faults : {{}, {"download"}, {"download", "write"}, {"crash"}, Fault}]
    \cup [list : {<<r1, r1>>}, hashes : {Table(<<h1>>, <<h2>>)}, faults : {{}}]

\* Two repros list the same artifact, and nothing goes wrong.
MCSharedWorlds ==
    [list : {<<r1, r2>>}, hashes : {Table(<<h1>>, <<h1>>)}, faults : {{}}]

\* Two repros list the same artifact, and a write may fail.
MCFullDisk ==
    [list : {<<r1, r2>>}, hashes : {Table(<<h1>>, <<h1>>)}, faults : {{"write"}}]
=============================================================================
