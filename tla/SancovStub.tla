----------------------------- MODULE SancovStub ------------------------------
(***************************************************************************)
(* sanitizer_utils.py: loading a shared library that was built with        *)
(* sanitizer coverage.  Processes (commands that run at the same time)     *)
(* find or build one stub library in a shared temporary directory, preload *)
(* it, and load their library.                                             *)
(*                                                                         *)
(* The compiler is external: it reads the source, then creates the library *)
(* under its name in place of an earlier one, then completes it.  A source *)
(* that is still empty compiles to a library without symbols.              *)
(***************************************************************************)
EXTENDS Integers, Sequences, FiniteSets, SequencesExt

CONSTANTS
    Process,
    Symbol,         \* what instrumented libraries need and the stub has
    Recognised,     \* symbols whose absence is taken for a sanitizer error
    Worlds,         \* [needs, setupFirst, runtime, compilers]
    Compiler,       \* "gcc" and "clang"
    MaxKills        \* bound: processes killed and started again

ASSUME SancovAssumption ==
    /\ Recognised \subseteq Symbol
    /\ MaxKills \in Nat
    /\ \A w \in Worlds :
          /\ w.needs \subseteq Symbol           \* undefined in the library
          /\ w.setupFirst \subseteq Process     \* run-tests, create-fixtures
          /\ w.runtime \in BOOLEAN              \* ldconfig knows one, with all symbols
          /\ w.compilers \in Seq(Compiler)      \* installed, in the order tried

VARIABLES
    world,
    source,     \* sancov_stub.c: "absent", "empty" or "full"
    stub,       \* libsancov_stub.so: who made it, and its content
    proc,       \* what each process is doing and knows
    kills,
    builds,     \* links that were completed
    disturbed   \* a builder was overlapped, killed or failed

vars == <<world, source, stub, proc, kills, builds, disturbed>>

NoPath == "none"
NoStub == [by |-> "nobody", content |-> "absent"]

(***************************************************************************)
(* A process: pc; attempt, the load it is at; checked and path, the cached *)
(* answer of locate_sancov_stub; left, the compilers not yet tried; object,*)
(* what its compiler has read; symbols, those loaded with RTLD_GLOBAL.     *)
(***************************************************************************)
Fresh(p) ==
    [pc      |-> IF p \in world.setupFirst THEN "setup" ELSE "load",
     attempt |-> 1,
     checked |-> FALSE,
     path    |-> NoPath,
     left    |-> << >>,
     object  |-> "absent",
     symbols |-> {}]

Init ==
    /\ world \in Worlds
    /\ source = "absent"
    /\ stub = NoStub
    /\ proc = [p \in Process |-> Fresh(p)]
    /\ kills = 0
    /\ builds = 0
    /\ disturbed = FALSE

\* From the decision to build to the end of the build.
Building(p) == proc[p].pc \in {"open_source", "write_source", "compile", "link", "complete"}

Goto(p, pc) == proc' = [proc EXCEPT ![p].pc = pc]

\* The answer of locate_sancov_stub is remembered.
Located(p, path) == proc' = [proc EXCEPT ![p].path = path, ![p].pc = "preload"]

-----------------------------------------------------------------------------
(***************************************************************************)
(* Faulty variants, exchanged for the definition they are named after to   *)
(* show that a property is able to fail; nothing else uses them.           *)
(***************************************************************************)
\* the stub is loaded without RTLD_GLOBAL
FaultyProvided(p) == {}

\* the library is built in every process
FaultyBuiltAlready == FALSE

\* the environment is set up again after every failed load
FaultyGivesUp(p, missing) == missing \notin Recognised

-----------------------------------------------------------------------------
(***************************************************************************)
(* load_shared_library_safe.  The error names one of the symbols that are  *)
(* missing; only the first load is repeated, and only after an error that  *)
(* looks like a sanitizer's.                                               *)
(***************************************************************************)
Missing(p) == world.needs \ proc[p].symbols

Load(p) ==
    /\ proc[p].pc = "load"
    /\ Missing(p) = {}
    /\ Goto(p, "loaded")
    /\ UNCHANGED <<world, source, stub, kills, builds, disturbed>>

GivesUp(p, missing) == missing \notin Recognised \/ proc[p].attempt = 2

LoadFails(p) ==
    /\ proc[p].pc = "load"
    /\ \E missing \in Missing(p) :
          proc' = [proc EXCEPT
              ![p].pc = IF GivesUp(p, missing) THEN "raised" ELSE "setup",
              ![p].attempt = IF GivesUp(p, missing) THEN @ ELSE 2]
    /\ UNCHANGED <<world, source, stub, kills, builds, disturbed>>

(***************************************************************************)
(* locate_sancov_stub.  The answer is cached from the first question on,   *)
(* the one that it cannot be built included.                               *)
(***************************************************************************)
LocateAgain(p) ==
    /\ proc[p].pc = "setup"
    /\ proc[p].checked
    /\ Goto(p, "preload")
    /\ UNCHANGED <<world, source, stub, kills, builds, disturbed>>

LocateRuntime(p) ==
    /\ proc[p].pc = "setup"
    /\ ~proc[p].checked
    /\ world.runtime
    /\ proc' = [proc EXCEPT ![p].checked = TRUE, ![p].path = "runtime", ![p].pc = "preload"]
    /\ UNCHANGED <<world, source, stub, kills, builds, disturbed>>

\* stub_so.exists(): whatever it holds.
BuiltAlready == stub.content # "absent"

LocateStub(p) ==
    /\ proc[p].pc = "setup"
    /\ ~proc[p].checked
    /\ ~world.runtime
    /\ proc' = [proc EXCEPT ![p].checked = TRUE,
                            ![p].path = IF BuiltAlready THEN "stub" ELSE NoPath,
                            ![p].pc = IF BuiltAlready THEN "preload" ELSE "open_source"]
    /\ disturbed' = (disturbed \/ \E q \in Process : Building(q))
    /\ UNCHANGED <<world, source, stub, kills, builds>>

\* write_text truncates the source before it writes it.
OpenSource(p) ==
    /\ proc[p].pc = "open_source"
    /\ source' = "empty"
    /\ Goto(p, "write_source")
    /\ UNCHANGED <<world, stub, kills, builds, disturbed>>

WriteSource(p) ==
    /\ proc[p].pc = "write_source"
    /\ source' = "full"
    /\ proc' = [proc EXCEPT ![p].pc = "compile", ![p].left = world.compilers]
    /\ UNCHANGED <<world, stub, kills, builds, disturbed>>

Compile(p) ==
    /\ proc[p].pc = "compile"
    /\ proc[p].left # << >>
    /\ proc' = [proc EXCEPT ![p].pc = "link", ![p].object = source]
    /\ UNCHANGED <<world, source, stub, kills, builds, disturbed>>

CompilerFails(p) ==
    /\ proc[p].pc = "compile"
    /\ proc[p].left # << >>
    /\ proc' = [proc EXCEPT ![p].left = Tail(@)]
    /\ disturbed' = TRUE
    /\ UNCHANGED <<world, source, stub, kills, builds>>

\* An exception on the way: the directory, the source, or starting a compiler.
BuildRaises(p) ==
    /\ proc[p].pc \in {"open_source", "write_source", "compile"}
    /\ proc[p].pc = "compile" => proc[p].left # << >>
    /\ Located(p, NoPath)
    /\ disturbed' = TRUE
    /\ UNCHANGED <<world, source, stub, kills, builds>>

NoCompiler(p) ==
    /\ proc[p].pc = "compile"
    /\ proc[p].left = << >>
    /\ Located(p, NoPath)
    /\ disturbed' = TRUE
    /\ UNCHANGED <<world, source, stub, kills, builds>>

LinkBegins(p) ==
    /\ proc[p].pc = "link"
    /\ stub' = [by |-> p, content |-> "partial"]
    /\ Goto(p, "complete")
    /\ UNCHANGED <<world, source, kills, builds, disturbed>>

\* Another linker may have put its own file under the name meanwhile.
LinkEnds(p) ==
    /\ proc[p].pc = "complete"
    /\ stub' = IF stub.by = p
               THEN [stub EXCEPT !.content = IF proc[p].object = "full" THEN "good" ELSE "empty"]
               ELSE stub
    /\ Located(p, "stub")
    /\ builds' = builds + 1
    /\ UNCHANGED <<world, source, kills, disturbed>>

(***************************************************************************)
(* The rest of setup_sanitizer_environment: a stub that does not load is   *)
(* only warned of.                                                         *)
(***************************************************************************)
Provided(p) ==
    IF \/ proc[p].path = "runtime"
       \/ proc[p].path = "stub" /\ stub.content = "good"
    THEN Symbol ELSE {}

Preload(p) ==
    /\ proc[p].pc = "preload"
    /\ proc' = [proc EXCEPT ![p].pc = "load", ![p].symbols = @ \cup Provided(p)]
    /\ UNCHANGED <<world, source, stub, kills, builds, disturbed>>

-----------------------------------------------------------------------------
\* Killed and started again; the files stay as they are.
Kill(p) ==
    /\ kills < MaxKills
    /\ proc[p].pc \notin {"loaded", "raised"}
    /\ kills' = kills + 1
    /\ proc' = [proc EXCEPT ![p] = Fresh(p)]
    /\ disturbed' = (disturbed \/ Building(p))
    /\ UNCHANGED <<world, source, stub, builds>>

Step(p) ==
    \/ Load(p) \/ LoadFails(p)
    \/ LocateAgain(p) \/ LocateRuntime(p) \/ LocateStub(p)
    \/ OpenSource(p) \/ WriteSource(p)
    \/ Compile(p) \/ CompilerFails(p) \/ NoCompiler(p) \/ BuildRaises(p)
    \/ LinkBegins(p) \/ LinkEnds(p) \/ Preload(p)

Next == \E p \in Process : Step(p) \/ Kill(p)

Spec == Init /\ [][Next]_vars /\ \A p \in Process : WF_vars(Step(p))

-----------------------------------------------------------------------------
\* The types of what a process is doing and knows.
Pc == {"load", "setup", "preload", "open_source", "write_source",
       "compile", "link", "complete", "loaded", "raised"}

ProcRecord ==
    [pc      : Pc,
     attempt : {1, 2},
     checked : BOOLEAN,
     path    : {NoPath, "stub", "runtime"},
     left    : Seq(Compiler),
     object  : {"absent", "empty", "full"},
     symbols : SUBSET Symbol]

TypeOK ==
    /\ world \in Worlds
    /\ source \in {"absent", "empty", "full"}
    /\ stub \in [by : Process \cup {"nobody"}, content : {"absent", "partial", "empty", "good"}]
    /\ proc \in [Process -> ProcRecord]
    /\ kills \in 0..MaxKills
    /\ builds \in Nat
    /\ disturbed \in BOOLEAN

(***************************************************************************)
(* sanitizer_utils.py:307.  Whichever processes run, one after the other   *)
(* or at once, as long as no build was overlapped, interrupted or failed,  *)
(* a library is loaded that needs nothing but symbols whose absence is     *)
(* recognised, or whose process sets up the environment first.             *)
(***************************************************************************)
LoadsUndisturbed ==
    \A p \in Process :
        proc[p].pc = "raised" /\ ~disturbed =>
            world.needs \ Recognised # {} /\ p \notin world.setupFirst

(***************************************************************************)
(* sanitizer_utils.py:122.  The stub is built once for all processes, now  *)
(* and later, and stays what it was, unless a build was disturbed.         *)
(***************************************************************************)
BuiltOnce ==
    ~disturbed =>
        /\ builds <= 1
        /\ builds = 1 => stub.content = "good" /\ source = "full"
        /\ Cardinality({p \in Process : Building(p)}) <= 1

\* sanitizer_utils.py:300.  Every load succeeds or raises.
EveryLoadEnds == \A p \in Process : <>(proc[p].pc \in {"loaded", "raised"})

(***************************************************************************)
(* sanitizer_utils.py:78 "Locate or build a sancov stub library that       *)
(* provides dummy sanitizer coverage symbols": the path it returns names   *)
(* one that does.                                                          *)
(***************************************************************************)
StubProvides ==
    \A p \in Process :
        proc[p].pc = "preload" /\ proc[p].path = "stub" => stub.content = "good"
=============================================================================
