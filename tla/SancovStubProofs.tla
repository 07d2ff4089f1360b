--------------------------- MODULE SancovStubProofs --------------------------
(***************************************************************************)
(* Proofs about module SancovStub, for any number of processes, symbols    *)
(* and compilers: what the processes know of the stub is true as long as   *)
(* no build was disturbed.                                                 *)
(***************************************************************************)
EXTENDS SancovStub, FiniteSetTheorems, TLAPS

\* There is one builder, and the files are as far as it is.
BuilderRight ==
    \A p \in Process : Building(p) =>
        /\ builds = 0
        /\ stub = IF proc[p].pc = "complete" THEN [by |-> p, content |-> "partial"] ELSE NoStub
        /\ proc[p].pc \in {"compile", "link", "complete"} => source = "full"
        /\ proc[p].pc \in {"link", "complete"} => proc[p].object = "full"
        /\ \A q \in Process : Building(q) => p = q

\* Without a builder the stub is there whole, or not at all.
StubRight ==
    \/ \E p \in Process : Building(p)
    \/ builds = 0 /\ stub = NoStub
    \/ builds = 1 /\ stub.content = "good" /\ source = "full"

\* What a process knows and has loaded.
Knows(p) ==
    /\ proc[p].path = "stub" => builds = 1
    /\ proc[p].checked /\ ~Building(p) => proc[p].path # NoPath
    /\ proc[p].pc = "preload" \/ Building(p) => proc[p].checked
    /\ proc[p].pc \in {"load", "raised"} /\ (proc[p].attempt = 2 \/ p \in world.setupFirst)
          => proc[p].symbols = Symbol
    /\ proc[p].pc = "raised" => world.needs \ Recognised # {} /\ p \notin world.setupFirst

Undisturbed ==
    ~disturbed => BuilderRight /\ StubRight /\ \A p \in Process : Knows(p)

IInv == TypeOK /\ Undisturbed

-----------------------------------------------------------------------------
\* A process that is started anew is well typed.
LEMMA FreshType == ASSUME NEW p PROVE Fresh(p) \in ProcRecord
<1> DEFINE pc == IF p \in world.setupFirst THEN "setup" ELSE "load"
<1>1. pc \in Pc
  BY DEF Pc
<1>2. Fresh(p)
          = [pc |-> pc, attempt |-> 1, checked |-> FALSE, path |-> NoPath,
             left |-> << >>, object |-> "absent", symbols |-> {}]
  BY DEF Fresh
<1>3. << >> \in Seq(Compiler) /\ {} \in SUBSET Symbol /\ FALSE \in BOOLEAN
  OBVIOUS
<1> HIDE DEF pc
<1> QED
  BY <1>1, <1>2, <1>3 DEF ProcRecord, pc

\* Nobody has looked for the stub yet.
LEMMA InitIInv == Init => IInv
<1> SUFFICES ASSUME Init PROVE IInv
  OBVIOUS
<1>1. TypeOK
  <2>1. proc \in [Process -> ProcRecord]
    <3>1. \A p \in Process : Fresh(p) \in ProcRecord
      BY FreshType
    <3>2. proc = [p \in Process |-> Fresh(p)]
      BY DEF Init
    <3> QED
      BY <3>1, <3>2
  <2>2. /\ world \in Worlds
        /\ source \in {"absent", "empty", "full"}
        /\ stub \in [by : Process \cup {"nobody"},
                    content : {"absent", "partial", "empty", "good"}]
        /\ kills \in 0..MaxKills /\ builds \in Nat /\ disturbed \in BOOLEAN
    <3>1. kills \in 0..MaxKills /\ builds \in Nat /\ disturbed \in BOOLEAN
      <4>1. MaxKills \in Nat
        BY SancovAssumption
      <4>2. kills = 0
        BY DEF Init
      <4>3. builds \in Nat
        BY DEF Init
      <4>4. disturbed \in BOOLEAN
        BY DEF Init
      <4> QED
        BY <4>1, <4>2, <4>3, <4>4
    <3> QED
      BY <3>1 DEF Init, NoStub
  <2> QED
    BY <2>1, <2>2 DEF TypeOK
<1>2. Undisturbed
  BY DEF Init, Undisturbed, BuilderRight, StubRight, Knows, Building, Fresh,
     NoPath
<1> QED
  BY <1>1, <1>2 DEF IInv

\* A step is one of one process, which remains well typed.
LEMMA Moves ==
    ASSUME TypeOK, NEW p \in Process, Step(p) \/ Kill(p)
    PROVE  \E new \in ProcRecord : proc' = [proc EXCEPT ![p] = new]
<1> DEFINE Became(new) == proc' = [proc EXCEPT ![p] = new]
           In(pc) == [proc[p] EXCEPT !.pc = pc]
<1>1. proc[p] \in ProcRecord
  BY DEF TypeOK
<1>2. \A pc \in Pc : In(pc) \in ProcRecord
  BY <1>1 DEF ProcRecord
<1>3. CASE Load(p)
  <2>1. Became(In("loaded"))
    BY <1>3 DEF Load, Goto
  <2> QED
    BY <1>2, <2>1 DEF Pc
<1>4. CASE LoadFails(p)
  <2>1. PICK missing \in Missing(p) :
           proc' = [proc EXCEPT
               ![p].pc = IF GivesUp(p, missing) THEN "raised" ELSE "setup",
               ![p].attempt = IF GivesUp(p, missing) THEN @ ELSE 2]
    BY <1>4 DEF LoadFails
  <2>2. CASE GivesUp(p, missing)
    <3>1. Became([In("raised") EXCEPT !.attempt = proc[p].attempt])
      BY <2>1, <2>2
    <3>2. [In("raised") EXCEPT !.attempt = proc[p].attempt] \in ProcRecord
      BY <1>1 DEF ProcRecord, Pc
    <3> QED
      BY <3>1, <3>2
  <2>3. CASE ~GivesUp(p, missing)
    <3>1. Became([In("setup") EXCEPT !.attempt = 2])
      BY <2>1, <2>3
    <3>2. [In("setup") EXCEPT !.attempt = 2] \in ProcRecord
      BY <1>1 DEF ProcRecord, Pc
    <3> QED
      BY <3>1, <3>2
  <2> QED
    BY <2>2, <2>3
<1>5. CASE LocateAgain(p)
  <2>1. Became(In("preload"))
    BY <1>5 DEF LocateAgain, Goto
  <2> QED
    BY <1>2, <2>1 DEF Pc
<1>6. CASE LocateRuntime(p)
  <2>1. Became([[[proc[p] EXCEPT !.checked = TRUE] EXCEPT !.path = "runtime"] EXCEPT !.pc = "preload"])
    BY <1>6 DEF LocateRuntime
  <2>2. [[[proc[p] EXCEPT !.checked = TRUE] EXCEPT !.path = "runtime"] EXCEPT !.pc = "preload"]
            \in ProcRecord
    BY <1>1 DEF ProcRecord, Pc
  <2> QED
    BY <2>1, <2>2
<1>7. CASE LocateStub(p)
  <2> DEFINE path == IF BuiltAlready THEN "stub" ELSE NoPath
             pc == IF BuiltAlready THEN "preload" ELSE "open_source"
  <2>1. path \in {NoPath, "stub", "runtime"} /\ pc \in Pc
    BY DEF Pc
  <2>2. Became([[[proc[p] EXCEPT !.checked = TRUE] EXCEPT !.path = path] EXCEPT !.pc = pc])
    BY <1>7 DEF LocateStub
  <2> HIDE DEF path, pc
  <2>3. [[[proc[p] EXCEPT !.checked = TRUE] EXCEPT !.path = path] EXCEPT !.pc = pc] \in ProcRecord
    BY <1>1, <2>1 DEF ProcRecord
  <2> QED
    BY <2>2, <2>3
<1>8. CASE OpenSource(p)
  <2>1. Became(In("write_source"))
    BY <1>8 DEF OpenSource, Goto
  <2> QED
    BY <1>2, <2>1 DEF Pc
<1>9. CASE WriteSource(p)
  <2>1. Became([In("compile") EXCEPT !.left = world.compilers])
    BY <1>9 DEF WriteSource
  <2>2. world.compilers \in Seq(Compiler)
    BY SancovAssumption DEF TypeOK
  <2>3. [In("compile") EXCEPT !.left = world.compilers] \in ProcRecord
    BY <1>1, <2>2 DEF ProcRecord, Pc
  <2> QED
    BY <2>1, <2>3
<1>10. CASE Compile(p)
  <2>1. Became([In("link") EXCEPT !.object = source])
    BY <1>10 DEF Compile
  <2>2. [In("link") EXCEPT !.object = source] \in ProcRecord
    BY <1>1 DEF ProcRecord, Pc, TypeOK
  <2> QED
    BY <2>1, <2>2
<1>11. CASE CompilerFails(p)
  <2>1. Became([proc[p] EXCEPT !.left = Tail(proc[p].left)])
    BY <1>11 DEF CompilerFails
  <2>2. Tail(proc[p].left) \in Seq(Compiler)
    BY <1>1, <1>11 DEF CompilerFails, ProcRecord
  <2>3. [proc[p] EXCEPT !.left = Tail(proc[p].left)] \in ProcRecord
    BY <1>1, <2>2 DEF ProcRecord
  <2> QED
    BY <2>1, <2>3
<1>12. ASSUME NEW path \in {NoPath, "stub", "runtime"}, Located(p, path)
       PROVE  \E new \in ProcRecord : Became(new)
  <2>1. Became([[proc[p] EXCEPT !.path = path] EXCEPT !.pc = "preload"])
    BY <1>12 DEF Located
  <2>2. [[proc[p] EXCEPT !.path = path] EXCEPT !.pc = "preload"] \in ProcRecord
    BY <1>1 DEF ProcRecord, Pc
  <2> QED
    BY <2>1, <2>2
<1>13. CASE NoCompiler(p) \/ BuildRaises(p) \/ LinkEnds(p)
  BY <1>12, <1>13 DEF NoCompiler, BuildRaises, LinkEnds
<1>14. CASE LinkBegins(p)
  <2>1. Became(In("complete"))
    BY <1>14 DEF LinkBegins, Goto
  <2> QED
    BY <1>2, <2>1 DEF Pc
<1>15. CASE Preload(p)
  <2>1. Became([In("load") EXCEPT !.symbols = proc[p].symbols \cup Provided(p)])
    BY <1>15 DEF Preload
  <2>2. Provided(p) \in SUBSET Symbol
    BY DEF Provided
  <2>3. [In("load") EXCEPT !.symbols = proc[p].symbols \cup Provided(p)] \in ProcRecord
    BY <1>1, <2>2 DEF ProcRecord, Pc
  <2> QED
    BY <2>1, <2>3
<1>16. CASE Kill(p)
  <2>1. Became(Fresh(p))
    BY <1>16 DEF Kill
  <2>2. Fresh(p) \in ProcRecord
    BY FreshType
  <2> QED
    BY <2>1, <2>2
<1> HIDE DEF Became, In
<1>17. CASE Step(p)
  BY <1>3, <1>4, <1>5, <1>6, <1>7, <1>8, <1>9, <1>10, <1>11, <1>13, <1>14,
     <1>15, <1>17 DEF Step, Became
<1> QED
  BY <1>16, <1>17 DEF Became

\* Every step keeps the types.
LEMMA TypeStep == ASSUME TypeOK, [Next]_vars PROVE TypeOK'
<1>1. CASE UNCHANGED vars
  BY <1>1 DEF TypeOK, vars
<1>2. ASSUME NEW p \in Process, Step(p) \/ Kill(p) PROVE TypeOK'
  <2>1. proc' \in [Process -> ProcRecord]
    <3>1. proc \in [Process -> ProcRecord]
      BY DEF TypeOK
    <3> QED
      BY <1>2, <3>1, Moves
  <2>2. /\ world' \in Worlds
        /\ source' \in {"absent", "empty", "full"}
        /\ kills' \in 0..MaxKills
        /\ builds' \in Nat
        /\ disturbed' \in BOOLEAN
    <3>1. CASE Kill(p)
      BY <3>1, SancovAssumption DEF Kill, TypeOK
    <3>2. CASE Step(p)
      <4>1. world' = world /\ kills' = kills
        BY <3>2 DEF Step, Load, LoadFails, LocateAgain, LocateRuntime,
           LocateStub,
                    OpenSource, WriteSource, Compile, CompilerFails, NoCompiler, BuildRaises, LinkBegins,
                    LinkEnds, Preload
      <4>2. source' \in {source, "empty", "full"}
        BY <3>2 DEF Step, Load, LoadFails, LocateAgain, LocateRuntime,
           LocateStub,
                    OpenSource, WriteSource, Compile, CompilerFails, NoCompiler, BuildRaises, LinkBegins,
                    LinkEnds, Preload
      <4>3. builds' \in {builds, builds + 1}
        BY <3>2 DEF Step, Load, LoadFails, LocateAgain, LocateRuntime,
           LocateStub,
                    OpenSource, WriteSource, Compile, CompilerFails, NoCompiler, BuildRaises, LinkBegins,
                    LinkEnds, Preload
      <4>4. disturbed' \in BOOLEAN
        BY <3>2 DEF TypeOK, Step, Load, LoadFails, LocateAgain, LocateRuntime,
           LocateStub,
                    OpenSource, WriteSource, Compile, CompilerFails, NoCompiler, BuildRaises, LinkBegins,
                    LinkEnds, Preload
      <4> QED
        BY <4>1, <4>2, <4>3, <4>4 DEF TypeOK
    <3> QED
      BY <1>2, <3>1, <3>2
  <2>3. stub' \in [by : Process \cup {"nobody"},
                   content : {"absent", "partial", "empty", "good"}]
    <3>1. CASE LinkBegins(p)
      BY <3>1 DEF LinkBegins
    <3>2. CASE LinkEnds(p)
      BY <3>2 DEF LinkEnds, TypeOK
    <3>3. CASE ~LinkBegins(p) /\ ~LinkEnds(p)
      BY <1>2, <3>3 DEF TypeOK, Kill, Step, Load, LoadFails, LocateAgain,
         LocateRuntime,
                  LocateStub, OpenSource, WriteSource, Compile, CompilerFails, NoCompiler, BuildRaises,
                  Preload
    <3> QED
      BY <3>1, <3>2, <3>3
  <2> QED
    BY <2>1, <2>2, <2>3 DEF TypeOK
<1> QED
  BY <1>1, <1>2 DEF Next

\* A step that leaves the files alone, and in which p neither begins nor
\* ends to build and stays right itself, keeps all the rest.
LEMMA Elsewhere ==
    ASSUME TypeOK, Undisturbed, ~disturbed, NEW p \in Process,
           UNCHANGED <<world, source, stub, builds>>,
           NEW new, proc' = [proc EXCEPT ![p] = new],
           ~Building(p), ~Building(p)',
           Knows(p)'
    PROVE  Undisturbed'
<1>1. \A q \in Process \ {p} : proc'[q] = proc[q]
  BY DEF TypeOK
<1>2. \A q \in Process : Building(q)' <=> Building(q)
  BY <1>1 DEF Building
<1>3. \A q \in Process : Building(q) => q # p
  OBVIOUS
<1>4. BuilderRight'
  BY <1>1, <1>2, <1>3 DEF Undisturbed, BuilderRight, Building
<1>5. StubRight'
  BY <1>2 DEF Undisturbed, StubRight
<1>6. \A q \in Process : Knows(q)'
  BY <1>1, <1>2 DEF Undisturbed, Knows
<1> QED
  BY <1>4, <1>5, <1>6 DEF Undisturbed

\* The steps of one process, as long as they disturb nothing.
LEMMA UndisturbedStep ==
    ASSUME TypeOK, Undisturbed, NEW p \in Process, Step(p) \/ Kill(p)
    PROVE  Undisturbed'
<1> SUFFICES ASSUME ~disturbed' PROVE Undisturbed'
  BY DEF Undisturbed
<1>1. ~disturbed
  BY DEF Step, Kill, Load, LoadFails, LocateAgain, LocateRuntime, LocateStub,
     OpenSource,
         WriteSource, Compile, CompilerFails, NoCompiler, BuildRaises, LinkBegins, LinkEnds, Preload
<1>2. PICK new \in ProcRecord : proc' = [proc EXCEPT ![p] = new]
  BY Moves
<1>3. /\ proc \in [Process -> ProcRecord]
      /\ proc'[p] = new
      /\ \A q \in Process \ {p} : proc'[q] = proc[q]
  BY <1>2 DEF TypeOK
<1>4. BuilderRight /\ StubRight /\ Knows(p) /\ \A q \in Process : Knows(q)
  BY <1>1 DEF Undisturbed
<1>5. world.needs \subseteq Symbol
  BY SancovAssumption DEF TypeOK
<1>6. CASE Load(p)
  <2>1. Knows(p)' /\ ~Building(p) /\ ~Building(p)'
    BY <1>3, <1>4, <1>6 DEF Load, Goto, Knows, Building, ProcRecord
  <2> QED
    BY <1>1, <1>2, <1>6, <2>1, Elsewhere DEF Load
<1>7. CASE LoadFails(p)
  <2>1. PICK missing \in Missing(p) :
           proc' = [proc EXCEPT
               ![p].pc = IF GivesUp(p, missing) THEN "raised" ELSE "setup",
               ![p].attempt = IF GivesUp(p, missing) THEN @ ELSE 2]
    BY <1>7 DEF LoadFails
  <2>2. missing \in world.needs /\ proc[p].symbols # Symbol
    BY <1>5, <2>1 DEF Missing
  <2>3. proc[p].attempt # 2 /\ p \notin world.setupFirst
    BY <1>4, <1>7, <2>2 DEF Knows, LoadFails
  <2>4. /\ proc'[p].path = proc[p].path
        /\ proc'[p].checked = proc[p].checked
        /\ proc'[p].pc = IF GivesUp(p, missing) THEN "raised" ELSE "setup"
        /\ proc'[p].attempt = IF GivesUp(p, missing) THEN proc[p].attempt ELSE 2
    BY <1>3, <2>1 DEF ProcRecord
  <2>5. ~Building(p) /\ ~Building(p)'
    BY <1>7, <2>4 DEF Building, LoadFails
  <2>6. proc'[p].pc = "raised" => missing \notin Recognised /\ proc'[p].attempt # 2
    BY <2>3, <2>4 DEF GivesUp
  <2>7. Knows(p)'
    BY <1>4, <1>7, <2>2, <2>3, <2>4, <2>5, <2>6 DEF Knows, LoadFails
  <2> QED
    BY <1>1, <1>2, <1>7, <2>5, <2>7, Elsewhere DEF LoadFails
<1>8. CASE LocateAgain(p)
  <2>1. Knows(p)' /\ ~Building(p) /\ ~Building(p)'
    BY <1>3, <1>4, <1>8 DEF LocateAgain, Goto, Knows, Building, ProcRecord
  <2> QED
    BY <1>1, <1>2, <1>8, <2>1, Elsewhere DEF LocateAgain
<1>9. CASE LocateRuntime(p)
  <2>1. Knows(p)' /\ ~Building(p) /\ ~Building(p)'
    BY <1>3, <1>4, <1>9 DEF LocateRuntime, Knows, Building, ProcRecord, NoPath
  <2> QED
    BY <1>1, <1>2, <1>9, <2>1, Elsewhere DEF LocateRuntime
<1>10. CASE LocateStub(p)
  <2>1. \A q \in Process : ~Building(q)
    BY <1>10 DEF LocateStub
  <2>2. BuiltAlready <=> builds = 1
    BY <1>4, <2>1 DEF StubRight, BuiltAlready, NoStub
  <2>3. CASE BuiltAlready
    <3>1. Knows(p)' /\ ~Building(p)'
      BY <1>3, <1>4, <1>10, <2>2, <2>3 DEF LocateStub, Knows, Building,
         ProcRecord, NoPath
    <3> QED
      BY <1>1, <1>2, <1>10, <2>1, <3>1, Elsewhere DEF LocateStub
  <2>4. CASE ~BuiltAlready
    <3>1. builds = 0 /\ stub = NoStub
      BY <1>4, <2>1, <2>2, <2>4 DEF StubRight
    <3>2. Building(p)' /\ proc'[p].pc = "open_source" /\ Knows(p)'
      BY <1>3, <1>4, <1>10, <2>4 DEF LocateStub, Knows, Building, ProcRecord,
         NoPath
    <3>3. \A q \in Process \ {p} : ~Building(q)' /\ Knows(q)'
      BY <1>3, <1>4, <1>10, <2>1 DEF Building, Knows, LocateStub
    <3>4. BuilderRight' /\ StubRight'
      BY <1>10, <3>1, <3>2, <3>3 DEF BuilderRight, StubRight, LocateStub
    <3> QED
      BY <3>2, <3>3, <3>4 DEF Undisturbed
  <2> QED
    BY <2>3, <2>4
<1>11. CASE OpenSource(p) \/ WriteSource(p) \/ Compile(p) \/ LinkBegins(p)
  <2>1. Building(p) /\ Building(p)'
    BY <1>3, <1>11 DEF OpenSource, WriteSource, Compile, LinkBegins, Goto,
       Building, ProcRecord
  <2>2. \A q \in Process \ {p} : ~Building(q)
    BY <1>4, <2>1 DEF BuilderRight
  <2>3. builds = 0 /\ builds' = 0 /\ world' = world
    BY <1>4, <1>11, <2>1 DEF BuilderRight, OpenSource, WriteSource, Compile,
       LinkBegins
  <2>4. \A q \in Process \ {p} : ~Building(q)' /\ Knows(q)'
    BY <1>3, <1>4, <2>2, <2>3 DEF Building, Knows
  <2>5. Knows(p)'
    BY <1>3, <1>4, <1>11, <2>1, <2>3
       DEF OpenSource, WriteSource, Compile, LinkBegins, Goto, Knows, Building, ProcRecord
  <2>6. /\ stub' = IF proc'[p].pc = "complete" THEN [by |-> p, content |-> "partial"] ELSE NoStub
        /\ proc'[p].pc \in {"compile", "link", "complete"} => source' = "full"
        /\ proc'[p].pc \in {"link", "complete"} => proc'[p].object = "full"
    BY <1>3, <1>4, <1>11, <2>1
       DEF OpenSource, WriteSource, Compile, LinkBegins, Goto, BuilderRight, ProcRecord
  <2>7. BuilderRight' /\ StubRight'
    BY <2>1, <2>3, <2>4, <2>6 DEF BuilderRight, StubRight
  <2> QED
    BY <2>4, <2>5, <2>7 DEF Undisturbed
<1>12. CASE CompilerFails(p) \/ NoCompiler(p) \/ BuildRaises(p)
  BY <1>12 DEF CompilerFails, NoCompiler, BuildRaises
<1>13. CASE LinkEnds(p)
  <2>1. Building(p)
    BY <1>13 DEF LinkEnds, Building
  <2>2. \A q \in Process \ {p} : ~Building(q)
    BY <1>4, <2>1 DEF BuilderRight
  <2>3. /\ stub = [by |-> p, content |-> "partial"]
        /\ source = "full" /\ proc[p].object = "full" /\ builds = 0
    BY <1>4, <1>13, <2>1 DEF BuilderRight, LinkEnds
  <2>4. stub'.content = "good" /\ source' = "full" /\ builds' = 1 /\ world' = world
    BY <1>13, <2>3 DEF LinkEnds
  <2>5. proc'[p].pc = "preload" /\ proc'[p].path = "stub" /\ proc'[p].checked = proc[p].checked
    BY <1>3, <1>13 DEF LinkEnds, Located, ProcRecord
  <2>6. \A q \in Process : ~Building(q)'
    BY <1>3, <2>2, <2>5 DEF Building
  <2>7. \A q \in Process \ {p} : Knows(q)'
    BY <1>3, <1>4, <2>2, <2>4 DEF Knows, Building
  <2>8. Knows(p)'
    BY <1>4, <2>1, <2>4, <2>5 DEF Knows, NoPath
  <2>9. BuilderRight' /\ StubRight'
    BY <2>4, <2>6 DEF BuilderRight, StubRight
  <2> QED
    BY <2>7, <2>8, <2>9 DEF Undisturbed
<1>14. CASE Preload(p)
  <2>1. ~Building(p) /\ proc[p].checked /\ proc[p].path \in {"stub", "runtime"}
    BY <1>3, <1>4, <1>14 DEF Preload, Building, Knows, ProcRecord, NoPath
  <2>2. proc[p].path = "stub" => stub.content = "good"
    <3>1. proc[p].path = "stub" => builds = 1
      BY <1>4 DEF Knows
    <3> QED
      BY <1>4, <3>1 DEF BuilderRight, StubRight
  <2>3. Provided(p) = Symbol
    BY <2>1, <2>2 DEF Provided
  <2>4. proc'[p].symbols = Symbol
    BY <1>3, <1>14, <2>3 DEF Preload, ProcRecord
  <2>5. /\ proc'[p].pc = "load"
        /\ proc'[p].path = proc[p].path
        /\ proc'[p].checked = proc[p].checked
    BY <1>3, <1>14 DEF Preload, ProcRecord
  <2>6. Knows(p)' /\ ~Building(p)'
    BY <1>4, <1>14, <2>1, <2>4, <2>5 DEF Knows, Building, Preload
  <2> QED
    BY <1>1, <1>2, <1>14, <2>1, <2>6, Elsewhere DEF Preload
<1>15. CASE Kill(p)
  <2>1. ~Building(p)
    BY <1>15 DEF Kill
  <2>2. proc'[p] = Fresh(p)
    BY <1>3, <1>15 DEF Kill
  <2>3. Knows(p)' /\ ~Building(p)'
    BY <1>15, <2>2 DEF Knows, Building, Fresh, Kill, NoPath
  <2> QED
    BY <1>1, <1>2, <1>15, <2>1, <2>3, Elsewhere DEF Kill
<1> QED
  BY <1>6, <1>7, <1>8, <1>9, <1>10, <1>11, <1>12, <1>13, <1>14, <1>15 DEF Step

\* Every step keeps the invariant.
LEMMA NextIInv == ASSUME IInv, [Next]_vars PROVE IInv'
<1>1. TypeOK'
  BY TypeStep DEF IInv
<1>2. CASE UNCHANGED vars
  <2>1. \A p \in Process : Building(p)' <=> Building(p)
    BY <1>2 DEF vars, Building
  <2>2. BuilderRight' <=> BuilderRight
    BY <1>2, <2>1 DEF vars, BuilderRight
  <2>3. StubRight' <=> StubRight
    BY <1>2, <2>1 DEF vars, StubRight
  <2>4. \A p \in Process : Knows(p)' <=> Knows(p)
    BY <1>2, <2>1 DEF vars, Knows
  <2> QED
    BY <1>1, <1>2, <2>2, <2>3, <2>4 DEF vars, IInv, Undisturbed
<1>3. ASSUME NEW p \in Process, Step(p) \/ Kill(p) PROVE Undisturbed'
  BY <1>3, UndisturbedStep DEF IInv
<1> QED
  BY <1>1, <1>2, <1>3 DEF Next, IInv

\* The invariant holds whatever the processes, the compilers and the kills do.
THEOREM Invariance == Spec => []IInv
<1> QED
  BY InitIInv, NextIInv, PTL DEF Spec

\* sanitizer_utils.py:13-366.  The state of the processes is well typed.
THEOREM TypeCorrect == Spec => []TypeOK
<1>1. IInv => TypeOK
  BY DEF IInv
<1> QED
  BY <1>1, Invariance, PTL

\* sanitizer_utils.py:122.  The stub is built at most once, and stays whole,
\* as long as no build was overlapped, interrupted or failed.
THEOREM BuiltOnceHolds == Spec => []BuiltOnce
<1>1. ASSUME IInv PROVE BuiltOnce
  <2> SUFFICES ASSUME ~disturbed
               PROVE  /\ builds <= 1
                      /\ builds = 1 => stub.content = "good" /\ source = "full"
                      /\ Cardinality({p \in Process : Building(p)}) <= 1
    BY DEF BuiltOnce
  <2>1. BuilderRight /\ StubRight
    BY <1>1 DEF IInv, Undisturbed
  <2>2. CASE \E p \in Process : Building(p)
    <3>1. PICK p \in Process : Building(p)
      BY <2>2
    <3>2. {q \in Process : Building(q)} = {p} /\ builds = 0
      BY <2>1, <3>1 DEF BuilderRight
    <3> QED
      BY <3>2, FS_Singleton
  <2>3. CASE ~\E p \in Process : Building(p)
    <3>1. {q \in Process : Building(q)} = {}
      BY <2>3
    <3> QED
      BY <2>1, <2>3, <3>1, FS_EmptySet DEF StubRight
  <2> QED
    BY <2>2, <2>3
<1> QED
  BY <1>1, Invariance, PTL

\* sanitizer_utils.py:307.  Undisturbed, only a library that needs a symbol
\* nobody recognises raises, and only where nothing is set up beforehand.
THEOREM LoadsUndisturbedHolds == Spec => []LoadsUndisturbed
<1>1. IInv => LoadsUndisturbed
  BY DEF IInv, Undisturbed, Knows, LoadsUndisturbed
<1> QED
  BY <1>1, Invariance, PTL

=============================================================================
