---------------------------- MODULE MCSancovStub -----------------------------
(***************************************************************************)
(* Two processes on one temporary directory, killed and started again up   *)
(* to twice, two compilers or none, and a library that needs               *)
(* coverage callbacks, the stack-depth variable, both or neither.          *)
(***************************************************************************)
EXTENDS SancovStub

CONSTANTS p1, p2

MCProcess == {p1, p2}
MCSymbol == {"__sanitizer_cov_", "__sancov_lowest_stack"}
MCRecognised == {"__sanitizer_cov_"}
MCCompiler == {"gcc", "clang"}

MCWorlds ==
    [needs      : SUBSET MCSymbol,
     setupFirst : {{}, {p1}, MCProcess},
     runtime    : BOOLEAN,
     compilers  : {<<"gcc", "clang">>, << >>}]

\* Nothing fails and nobody is killed.
MCTwoCommands ==
    [needs : {{"__sanitizer_cov_"}}, setupFirst : {{}}, runtime : {FALSE},
     compilers : {<<"gcc">>}]
=============================================================================
