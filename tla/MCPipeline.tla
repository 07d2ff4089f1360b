----------------------------- MODULE MCPipeline -----------------------------
(***************************************************************************)
(* Three artifacts, two of which have the same payload, in two sessions    *)
(* that ask for the same artifacts or for others.                          *)
(***************************************************************************)
EXTENDS Pipeline

CONSTANTS h1, h2, h3, p1, p2

MCHash == {h1, h2, h3}
MCPayload == {p1, p2}

MCPayloads == [h \in MCHash |-> IF h = h3 THEN p2 ELSE p1]

Two(a, b) == [p \in MCPayload |-> IF p = p1 THEN a ELSE b]

MCWorlds ==
    [asked     : {<<MCHash, MCHash>>, <<{h1, h3}, {h2}>>, <<{h1, h2}, {}>>},
     payload   : {MCPayloads},
     kind      : {Two("accepted", k) : k \in Kind},
     canonical : {{}, {p1}},
     faults    : {{"kill"}, Fault}]

\* One repro has only a raw crash input, and nothing fails.
MCRawWorlds ==
    [asked     : {<<MCHash>>},
     payload   : {MCPayloads},
     kind      : {Two("accepted", "raw")},
     canonical : {{}},
     faults    : {{}}]
=============================================================================
