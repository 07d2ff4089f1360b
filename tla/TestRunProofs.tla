---------------------------- MODULE TestRunProofs ----------------------------
(***************************************************************************)
(* Proofs about modules TestRun and CreateEnv, for any files, libraries,   *)
(* effects and options.                                                    *)
(*                                                                         *)
(* What a result says follows from the answers of the libraries alone      *)
(* (ResultOf); the inductive invariant carries that through the arrival of *)
(* the answers in any order, the counting and the copying, each of which   *)
(* is a loop whose progress it describes.                                  *)
(***************************************************************************)
EXTENDS CreateEnv, DataLemmas

\* The results are logged and counted.
Ended == phase \in {"saving", "done"}

\* Every result is that of a file of the input which has one.
ResultsRight ==
    \A k \in DOMAIN results :
        LET f == results[k].file
        IN f \in InputFiles /\ ~Raises(f) /\ results[k] = RunTest(f)

\* With --fail-early, result k is that of input k.
InOrder ==
    world.fail_early =>
        \A k \in DOMAIN results : k \in DOMAIN world.input /\ results[k].file = world.input[k]

\* Testing ends when every file is answered, or early at a failure.
Complete ==
    phase = "logging" \/ Ended =>
        InputFiles \subseteq Answered \/ \E k \in DOMAIN results : results[k].status = -1

\* The results log_results has gone through.
Seen == {k \in DOMAIN results : Ended \/ (phase = "logging" /\ k < at)}

\* Those of them with that status.
Verdicts(status) == {k \in Seen : results[k].status = status}

\* A count is positive when such a result was seen, and failed_tests holds
\* the stems of the failures seen.
Counted ==
    /\ count.passed > 0 <=> Verdicts(1) # {}
    /\ count.failed > 0 <=> Verdicts(-1) # {}
    /\ count.skipped > 0 <=> Verdicts(0) # {}
    /\ names.failed = {StemOf(results[k].file) : k \in Verdicts(-1)}

\* The inputs the copy loop has gone through.
Copied == {j \in DOMAIN world.input : phase = "done" \/ (phase = "saving" /\ j < at)}

\* Those of them whose stem is among failed_tests.
Failing == {j \in Copied : StemOf(world.input[j]) \in names.failed}

\* Once the output directory is emptied, failed_protobufs holds exactly the
\* failing files the copy loop has gone through.
SavedRight ==
    /\ phase \in {"testing", "logging"} => saved["failed"] = << >>
    /\ Ended /\ DistinctStems =>
          /\ DOMAIN saved["failed"] = {world.name[world.input[j]] : j \in Failing}
          /\ \A j \in Failing : saved["failed"][world.name[world.input[j]]] = world.input[j]

\* How far each of the two loops can have come.
AtRange ==
    /\ phase \in {"setup", "testing"} => at = 1
    /\ phase = "logging" => at <= Len(results) + 1
    /\ phase = "saving" => at <= Len(world.input) + 1

\* The inductive invariant.
IInv == TypeOK /\ ResultsRight /\ InOrder /\ Complete /\ Counted /\ SavedRight /\ AtRange

-----------------------------------------------------------------------------
\* A file that raises nothing has a well-typed result: passed when the
\* answers conform, skipped when the reference has none.
LEMMA ResultOf ==
    ASSUME world \in Worlds, NEW f \in File, ~Raises(f)
    PROVE  /\ RunTest(f) \in [file : File, status : {-1, 0, 1}]
           /\ RunTest(f).file = f
           /\ RunTest(f).status = 1 <=> Conforms(f)
           /\ RunTest(f).status = 0 <=> ~Accepted(f)
<1>1. /\ world.fate[f] \in Fate
      /\ world.answer[f] \in [Target -> Answer]
      /\ Reference \in Target
  <2>1. 1 \in DOMAIN Targets
    BY TestRunAssumption
  <2> QED
    BY <2>1, TestRunAssumption DEF Reference, Target, Range
<1>2. \A t \in Target : /\ Returned(f)[t] \in Effect \cup {None}
                        /\ Returned(f)[t] \in Effect <=> world.answer[f][t] \in Effect
                        /\ world.answer[f][t] \in Effect => Returned(f)[t] = world.answer[f][t]
  BY <1>1, TestRunAssumption DEF Returned, Answer
<1>3. world.fate[f] \in {"runs", "unparsed"}
  BY <1>1 DEF Raises, Fate
<1> QED
  BY <1>1, <1>2, <1>3, TestRunAssumption DEF RunTest, BuildTestResults,
     Conforms, Accepted

\* The input and the names of its files.
LEMMA InputTyped ==
    ASSUME world \in Worlds
    PROVE  /\ world.input \in Seq(File)
           /\ InputFiles \subseteq File
           /\ \A j \in DOMAIN world.input : world.input[j] \in InputFiles
           /\ \A f \in File : /\ StemOf(f) \in Stem
                              /\ world.name[f] \in Stem \X Extension
<1> QED
  BY TestRunAssumption DEF InputFiles, Range, StemOf

\* An element of a sequence over S is in S.
LEMMA ElementOf ==
    ASSUME NEW S, NEW s \in Seq(S), NEW i \in DOMAIN s
    PROVE  s[i] \in S
OBVIOUS

\* While the input and the results stay what they are, so does what they say.
LEMMA ResultsKept ==
    ASSUME IInv, world' = world, results' = results
    PROVE  /\ Answered' = Answered /\ InputFiles' = InputFiles
           /\ ResultsRight' /\ InOrder'
<1>1. Answered' = Answered /\ InputFiles' = InputFiles
  BY DEF Answered, InputFiles
<1>2. \A f : (Raises(f)' <=> Raises(f)) /\ Returned(f)' = Returned(f)
  BY DEF Raises, Returned
<1>3. \A f, a, b : Diff(f, a, b)' = Diff(f, a, b)
  BY DEF Diff
<1>4. \A f, answer : BuildTestResults(f, answer)' = BuildTestResults(f, answer)
  BY <1>3 DEF BuildTestResults
<1>5. \A f : RunTest(f)' = RunTest(f)
  BY <1>2, <1>4 DEF RunTest
<1>6. ResultsRight'
  BY <1>1, <1>2, <1>5 DEF IInv, ResultsRight
<1>7. InOrder'
  BY DEF IInv, InOrder
<1> QED
  BY <1>1, <1>6, <1>7

\* Nothing is tested, counted or copied when the command starts, whatever
\* an earlier run left in the output directory.
LEMMA InitIInv == Init => IInv
<1> SUFFICES ASSUME Init PROVE IInv
  OBVIOUS
<1>1. PICK f \in File, left \in BOOLEAN :
          /\ log = IF left THEN [s \in Stem |-> <<f>>] ELSE << >>
          /\ saved = [passed |-> << >>,
                      failed |-> IF left THEN [n \in Stem \X Extension |-> f] ELSE << >>]
  BY DEF Init
<1>2. TypeOK
  BY <1>1 DEF Init, TypeOK
<1>3. Seen = {} /\ \A s : Verdicts(s) = {}
  BY DEF Init, Seen, Verdicts, Ended
<1> QED
  BY <1>2, <1>3 DEF IInv, Init, ResultsRight, InOrder, Complete, Ended,
     Counted, SavedRight, AtRange

\* The output directory is emptied.
LEMMA SetupIInv == ASSUME IInv, Setup PROVE IInv'
<1>1. TypeOK'
  BY DEF IInv, Setup, TypeOK
<1>2. Seen' = {} /\ \A s : Verdicts(s)' = {} /\ Seen = {} /\ Verdicts(s) = {}
  BY DEF Setup, Seen, Verdicts, Ended
<1>3. Answered' = Answered /\ InputFiles' = InputFiles /\ ResultsRight' /\ InOrder'
  BY ResultsKept DEF Setup
<1> QED
  BY <1>1, <1>2, <1>3 DEF IInv, Setup, Complete, Ended, Counted, SavedRight,
     AtRange

\* Two modes: the command exits.
LEMMA RefuseIInv == ASSUME IInv, Refuse PROVE IInv'
<1>1. TypeOK'
  BY DEF IInv, Refuse, TypeOK
<1>2. Seen' = {} /\ \A s : Verdicts(s)' = {} /\ Seen = {} /\ Verdicts(s) = {}
  BY DEF Refuse, Seen, Verdicts, Ended
<1>3. Answered' = Answered /\ InputFiles' = InputFiles /\ ResultsRight' /\ InOrder'
  BY ResultsKept DEF Refuse
<1> QED
  BY <1>1, <1>2, <1>3 DEF IInv, Refuse, Complete, Ended, Counted, SavedRight,
     AtRange

\* An exception drops the results.
LEMMA AbortIInv == ASSUME IInv, Abort PROVE IInv'
<1>1. TypeOK'
  BY DEF IInv, Abort, TypeOK
<1>2. Seen' = {} /\ \A s : Verdicts(s)' = {} /\ Seen = {} /\ Verdicts(s) = {}
  BY DEF Abort, Seen, Verdicts, Ended
<1> QED
  BY <1>1, <1>2 DEF IInv, Abort, Complete, Ended, Counted, SavedRight,
     AtRange, ResultsRight, InOrder

\* One more answer, from anywhere in the pool.
LEMMA TestIInv == ASSUME IInv, NEW f \in File, Test(f) PROVE IInv'
<1>1. /\ RunTest(f) \in [file : File, status : {-1, 0, 1}]
      /\ RunTest(f).file = f
      /\ f \in InputFiles
  <2>1. world \in Worlds /\ ~Raises(f)
    BY DEF IInv, TypeOK, Test
  <2>2. f \in InputFiles
    BY <2>1, InputTyped DEF Test, Expected, InputFiles
  <2> QED
    BY <2>1, <2>2, ResultOf
<1>2. /\ Len(results') = Len(results) + 1
      /\ results' \in Seq([file : File, status : {-1, 0, 1}])
      /\ \A k \in DOMAIN results : results'[k] = results[k]
      /\ results'[Len(results) + 1] = RunTest(f)
      /\ DOMAIN results' = DOMAIN results \cup {Len(results) + 1}
  BY <1>1 DEF IInv, TypeOK, Test
<1>3. TypeOK'
  BY <1>2 DEF IInv, Test, TypeOK
<1>4. Seen' = {} /\ \A s : Verdicts(s)' = {} /\ Seen = {} /\ Verdicts(s) = {}
  BY DEF Test, Seen, Verdicts, Ended
<1>5. ResultsRight'
  <2>1. \A g : /\ Raises(g)' <=> Raises(g)
               /\ RunTest(g)' = RunTest(g)
               /\ InputFiles' = InputFiles
    BY DEF Test, Raises, RunTest, BuildTestResults, Returned, Diff, InputFiles
  <2>2. ~Raises(f)
    BY DEF Test
  <2> QED
    BY <1>1, <1>2, <2>1, <2>2 DEF IInv, ResultsRight
<1>6. InOrder'
  <2>1. world.fail_early =>
           Len(results) + 1 \in DOMAIN world.input /\ f = world.input[Len(results) + 1]
    BY DEF Test, Expected
  <2> QED
    BY <1>1, <1>2, <2>1 DEF IInv, InOrder, Test
<1> QED
  BY <1>3, <1>4, <1>5, <1>6 DEF IInv, Test, Complete, Ended, Counted,
     SavedRight, AtRange

\* Nothing more is expected: every file is answered, or one failed.
LEMMA TestedIInv == ASSUME IInv, Tested PROVE IInv'
<1>1. TypeOK'
  BY DEF IInv, Tested, TypeOK
<1>2. Seen' = {} /\ \A s : Verdicts(s)' = {} /\ Seen = {} /\ Verdicts(s) = {}
  BY DEF IInv, AtRange, Tested, Seen, Verdicts, Ended, TypeOK
<1>3. Answered' = Answered /\ InputFiles' = InputFiles /\ ResultsRight' /\ InOrder'
  BY ResultsKept DEF Tested
<1>4. InputFiles \subseteq Answered \/ \E k \in DOMAIN results : results[k].status = -1
  <2> SUFFICES ASSUME \A k \in DOMAIN results : results[k].status # -1,
                      world.fail_early
               PROVE  InputFiles \subseteq Answered
    BY DEF Tested, Expected, InputFiles, IInv, TypeOK
  <2>1. world.input \in Seq(File) /\ results \in Seq([file : File, status : {-1, 0, 1}])
    BY InputTyped DEF IInv, TypeOK
  <2>2. {world.input[k] : k \in {Len(results) + 1} \cap DOMAIN world.input} = {}
    BY DEF Tested, Expected
  <2>3. Len(world.input) <= Len(results)
    <3>1. Len(results) + 1 \notin DOMAIN world.input
      BY <2>2
    <3>2. Len(results) \in Nat /\ Len(world.input) \in Nat
      BY <2>1
    <3>3. DOMAIN world.input = 1..Len(world.input)
      BY <2>1
    <3> QED
      BY <3>1, <3>2, <3>3
  <2>4. \A k \in DOMAIN world.input : world.input[k] \in Answered
    BY <2>1, <2>3 DEF IInv, InOrder, Answered
  <2> QED
    BY <2>4 DEF InputFiles, Range
<1> QED
  BY <1>1, <1>2, <1>3, <1>4 DEF IInv, Tested, Complete, Ended, Counted,
     SavedRight, AtRange, TypeOK

\* The first loop of log_results is over: every result was seen.
LEMMA LoggedIInv == ASSUME IInv, Logged PROVE IInv'
<1>1. TypeOK'
  BY DEF IInv, Logged, TypeOK
<1>2. Seen' = Seen /\ \A s : Verdicts(s)' = Verdicts(s)
  BY DEF IInv, AtRange, Logged, Seen, Verdicts, Ended, TypeOK
<1>3. Answered' = Answered /\ InputFiles' = InputFiles /\ ResultsRight' /\ InOrder'
  BY ResultsKept DEF Logged
<1>4. Copied' = {} /\ Failing' = {}
  BY InputTyped DEF Logged, Copied, Failing, IInv, TypeOK
<1>5. saved'["failed"] = << >>
  BY DEF Logged, IInv, SavedRight
<1>6. Len(world.input) \in Nat
  BY InputTyped DEF IInv, TypeOK
<1>7. Counted'
  BY <1>2 DEF Logged, IInv, Counted, StemOf
<1> QED
  BY <1>1, <1>2, <1>3, <1>4, <1>5, <1>6, <1>7 DEF IInv, Logged, Complete,
     Ended, SavedRight, AtRange

\* The copy loop is over: every input was gone through.
LEMMA SavedIInv == ASSUME IInv, Saved PROVE IInv'
<1>1. TypeOK'
  BY DEF IInv, Saved, TypeOK
<1>2. Seen' = Seen /\ \A s : Verdicts(s)' = Verdicts(s)
  BY DEF IInv, Saved, Seen, Verdicts, Ended
<1>3. Answered' = Answered /\ InputFiles' = InputFiles /\ ResultsRight' /\ InOrder'
  BY ResultsKept DEF Saved
<1>4. Copied' = Copied
  <2>1. world.input \in Seq(File)
    BY InputTyped DEF IInv, TypeOK
  <2> QED
    BY <2>1 DEF Saved, Copied, IInv, TypeOK
<1>5. Failing' = Failing /\ DistinctStems' = DistinctStems
  BY <1>4 DEF Saved, Failing, StemOf, DistinctStems
<1>6. Counted'
  BY <1>2 DEF Saved, IInv, Counted, StemOf
<1> QED
  BY <1>1, <1>2, <1>3, <1>4, <1>5, <1>6 DEF IInv, Saved, Complete, Ended,
     SavedRight, AtRange

\* One turn of the first loop of log_results: one more result is seen, and
\* counted under its status.
LEMMA LogResultIInv == ASSUME IInv, LogResult PROVE IInv'
<1> DEFINE r == results[at]
<1>a. /\ phase = "logging" /\ phase' = "logging" /\ at' = at + 1
      /\ world' = world /\ results' = results /\ saved' = saved
  BY DEF LogResult
<1>b. /\ results \in Seq([file : File, status : {-1, 0, 1}])
      /\ world \in Worlds
      /\ at \in Nat \ {0} /\ at <= Len(results)
  BY DEF IInv, TypeOK, LogResult
<1>c. at \in DOMAIN results
  <2>1. DOMAIN results = 1..Len(results) /\ Len(results) \in Nat
    BY <1>b
  <2> QED
    BY <1>b, <2>1
<1>d. r \in [file : File, status : {-1, 0, 1}]
  BY <1>b, <1>c, ElementOf
<1>e. r.file \in File /\ StemOf(r.file) \in Stem
  BY <1>b, <1>d, InputTyped
<1>f. r.status \in {-1, 0, 1}
  BY <1>d
<1>g. \A g : StemOf(g)' = StemOf(g)
  BY <1>a DEF StemOf
<1>2. TypeOK'
  <2>1. /\ count' \in [passed : Nat, failed : Nat, skipped : Nat]
        /\ names' \in [passed : SUBSET Stem, failed : SUBSET Stem]
        /\ chunk' \in Stem \cup {NoChunk}
    <3> DEFINE stem == StemOf(r.file)
    <3>1. /\ count \in [passed : Nat, failed : Nat, skipped : Nat]
          /\ names \in [passed : SUBSET Stem, failed : SUBSET Stem]
          /\ chunk \in Stem \cup {NoChunk}
      BY DEF IInv, TypeOK
    <3>2. stem \in Stem
      BY <1>e
    <3>3. CASE r.status = 0
      <4>1. /\ count' = [count EXCEPT !.skipped = @ + 1]
            /\ names' = names /\ chunk' = chunk
        BY <3>3 DEF LogResult
      <4> QED
        BY <3>1, <4>1
    <3>4. CASE r.status # 0
      <4>1. chunk' = IF NewChunk THEN stem ELSE chunk
        BY <3>4 DEF LogResult
      <4>2. \/ /\ count' = [count EXCEPT !.passed = @ + 1]
               /\ names' = [names EXCEPT !.passed = @ \cup {stem}]
            \/ /\ count' = [count EXCEPT !.failed = @ + 1]
               /\ names' = [names EXCEPT !.failed = @ \cup {stem}]
        BY <3>4 DEF LogResult
      <4> HIDE DEF stem, r
      <4>3. chunk' \in Stem \cup {NoChunk}
        BY <3>1, <3>2, <4>1
      <4>4. count' \in [passed : Nat, failed : Nat, skipped : Nat]
        BY <3>1, <4>2
      <4>5. names' \in [passed : SUBSET Stem, failed : SUBSET Stem]
        BY <3>1, <3>2, <4>2
      <4> QED
        BY <4>3, <4>4, <4>5
    <3> QED
      BY <3>3, <3>4
  <2>4. DOMAIN log' \subseteq Stem /\ \A s \in DOMAIN log' : log'[s] \in Seq(File)
    <3> DEFINE opened == IF NewChunk THEN Put(log, StemOf(r.file), << >>) ELSE log
    <3>1. DOMAIN log \subseteq Stem /\ \A s \in DOMAIN log : log[s] \in Seq(File)
      BY DEF IInv, TypeOK
    <3>2. DOMAIN opened \subseteq Stem /\ \A s \in DOMAIN opened : opened[s] \in Seq(File)
      BY <1>e, <3>1 DEF Put
    <3>3. \/ log' = log
          \/ log' = opened
          \/ \E c : log' = [opened EXCEPT ![c] = Append(opened[c], r.file)]
      BY DEF LogResult
    <3> HIDE DEF opened, r
    <3>4. ASSUME NEW c, log' = [opened EXCEPT ![c] = Append(opened[c], r.file)]
          PROVE  DOMAIN log' \subseteq Stem /\ \A s \in DOMAIN log' : log'[s] \in Seq(File)
      <4>1. DOMAIN log' = DOMAIN opened
        BY <3>4
      <4>2. ASSUME NEW s \in DOMAIN opened
            PROVE  log'[s] \in Seq(File)
        <5>1. opened[s] \in Seq(File)
          BY <3>2
        <5>2. log'[s] = IF s = c THEN Append(opened[s], r.file) ELSE opened[s]
          BY <3>4
        <5> QED
          BY <5>1, <5>2, <1>e
      <4> QED
        BY <4>1, <4>2, <3>2
    <3> QED
      BY <3>1, <3>2, <3>3, <3>4
  <2> QED
    BY <1>a, <2>1, <2>4 DEF IInv, TypeOK
<1>3. Answered' = Answered /\ InputFiles' = InputFiles /\ ResultsRight' /\ InOrder'
  BY <1>a, ResultsKept
<1>4. \A s : Verdicts(s)' = IF r.status = s THEN Verdicts(s) \cup {at} ELSE Verdicts(s)
  <2>1. Seen' = Seen \cup {at}
    BY <1>a, <1>b, <1>c DEF Seen, Ended
  <2> QED
    BY <1>a, <1>c, <2>1 DEF Verdicts
<1>5. Counted'
  <2>1. Verdicts(1)' = IF r.status = 1 THEN Verdicts(1) \cup {at} ELSE Verdicts(1)
    BY <1>4
  <2>2. Verdicts(-1)' = IF r.status = -1 THEN Verdicts(-1) \cup {at} ELSE Verdicts(-1)
    BY <1>4
  <2>3. Verdicts(0)' = IF r.status = 0 THEN Verdicts(0) \cup {at} ELSE Verdicts(0)
    BY <1>4
  <2>4. names'.failed = IF r.status = -1 THEN names.failed \cup {StemOf(r.file)}
                        ELSE names.failed
    <3>1. r.status = 0 => names' = names
      BY DEF LogResult
    <3>2. r.status = 1 => names' = [names EXCEPT !.passed = @ \cup {StemOf(r.file)}]
      BY DEF LogResult
    <3>3. r.status = -1 => names' = [names EXCEPT !.failed = @ \cup {StemOf(r.file)}]
      BY DEF LogResult
    <3>4. names \in [passed : SUBSET Stem, failed : SUBSET Stem]
      BY DEF IInv, TypeOK
    <3> QED
      BY <1>f, <3>1, <3>2, <3>3, <3>4
  <2>5. count \in [passed : Nat, failed : Nat, skipped : Nat]
    BY DEF IInv, TypeOK
  <2>a. /\ count.passed > 0 <=> Verdicts(1) # {}
        /\ count.failed > 0 <=> Verdicts(-1) # {}
        /\ count.skipped > 0 <=> Verdicts(0) # {}
    BY DEF IInv, Counted
  <2>b. /\ count'.passed = IF r.status = 1 THEN count.passed + 1 ELSE count.passed
        /\ count'.failed = IF r.status = -1 THEN count.failed + 1 ELSE count.failed
        /\ count'.skipped = IF r.status = 0 THEN count.skipped + 1 ELSE count.skipped
    <3>1. r.status = 0 => count' = [count EXCEPT !.skipped = @ + 1]
      BY DEF LogResult
    <3>2. r.status = 1 => count' = [count EXCEPT !.passed = @ + 1]
      BY DEF LogResult
    <3>3. r.status = -1 => count' = [count EXCEPT !.failed = @ + 1]
      BY DEF LogResult
    <3> QED
      BY <1>f, <2>5, <3>1, <3>2, <3>3
  <2>c. count.passed \in Nat /\ count.failed \in Nat /\ count.skipped \in Nat
    BY <2>5
  <2> HIDE DEF r
  <2>6. count'.passed > 0 <=> Verdicts(1)' # {}
    BY <2>1, <2>a, <2>b, <2>c
  <2>7. count'.failed > 0 <=> Verdicts(-1)' # {}
    BY <2>2, <2>a, <2>b, <2>c
  <2>8. count'.skipped > 0 <=> Verdicts(0)' # {}
    BY <2>3, <2>a, <2>b, <2>c
  <2>9. names'.failed = {world.name[results[k].file][1] : k \in Verdicts(-1)'}
    <3>1. names.failed = {world.name[results[k].file][1] : k \in Verdicts(-1)}
      BY DEF IInv, Counted, StemOf
    <3>2. CASE r.status = -1
      <4>1. names'.failed = names.failed \cup {world.name[results[at].file][1]}
        BY <2>4, <3>2 DEF StemOf, r
      <4>2. Verdicts(-1)' = Verdicts(-1) \cup {at}
        BY <2>2, <3>2
      <4> QED
        BY <3>1, <4>1, <4>2
    <3>3. CASE r.status # -1
      BY <2>2, <2>4, <3>1, <3>3
    <3> QED
      BY <3>2, <3>3
  <2>10. (names.failed = {StemOf(results[k].file) : k \in Verdicts(-1)})'
    BY <1>a, <2>9 DEF StemOf
  <2> QED
    BY <2>6, <2>7, <2>8, <2>10 DEF Counted
<1>6. AtRange'
  <2>1. Len(results) \in Nat
    BY <1>b
  <2> QED
    BY <1>a, <1>b, <2>1 DEF AtRange
<1> QED
  BY <1>a, <1>2, <1>3, <1>5, <1>6 DEF IInv, Complete, Ended, SavedRight

\* One turn of the copy loop: with distinct stems it writes over no other
\* file.
LEMMA SaveFileIInv == ASSUME IInv, SaveFile PROVE IInv'
<1> DEFINE f == world.input[at]
<1>a. /\ phase = "saving" /\ phase' = "saving" /\ at' = at + 1
      /\ world' = world /\ results' = results /\ names' = names /\ count' = count
      /\ chunk' = chunk /\ log' = log
  BY DEF SaveFile
<1>b. /\ world \in Worlds
      /\ world.input \in Seq(File)
      /\ at \in Nat \ {0} /\ at <= Len(world.input)
  BY InputTyped DEF IInv, TypeOK, SaveFile
<1>c. at \in DOMAIN world.input
  <2>1. DOMAIN world.input = 1..Len(world.input) /\ Len(world.input) \in Nat
    BY <1>b
  <2> QED
    BY <1>b, <2>1
<1>d. f \in File /\ world.name[f] \in Stem \X Extension
  BY <1>b, <1>c, ElementOf, InputTyped
<1>e. \A v \in {"passed", "failed"} :
          saved'[v] = IF StemOf(f) \in names[v] THEN Put(saved[v],
          world.name[f], f) ELSE saved[v]
  BY DEF SaveFile
<1>2. TypeOK'
  <2>1. ASSUME NEW v \in {"passed", "failed"}
        PROVE  /\ DOMAIN saved'[v] \subseteq Stem \X Extension
               /\ \A n \in DOMAIN saved'[v] : saved'[v][n] \in File
    <3>1. /\ DOMAIN saved[v] \subseteq Stem \X Extension
          /\ \A n \in DOMAIN saved[v] : saved[v][n] \in File
      BY DEF IInv, TypeOK
    <3>2. CASE StemOf(f) \in names[v]
      BY <1>d, <1>e, <3>1, <3>2 DEF Put
    <3>3. CASE StemOf(f) \notin names[v]
      BY <1>e, <3>1, <3>3
    <3> QED
      BY <3>2, <3>3
  <2> QED
    BY <1>a, <1>b, <2>1 DEF IInv, TypeOK
<1>3. Answered' = Answered /\ InputFiles' = InputFiles /\ ResultsRight' /\ InOrder'
  BY <1>a, ResultsKept
<1>4. Counted'
  <2>1. Seen' = Seen /\ \A s : Verdicts(s)' = Verdicts(s)
    BY <1>a DEF Seen, Verdicts, Ended
  <2> QED
    BY <1>a, <2>1 DEF IInv, Counted, StemOf
<1>5. ASSUME DistinctStems
      PROVE  /\ DOMAIN saved'["failed"] = {world.name[world.input[j]] : j \in Failing'}
             /\ \A j \in Failing' : saved'["failed"][world.name[world.input[j]]] = world.input[j]
  <2>1. /\ DOMAIN saved["failed"] = {world.name[world.input[j]] : j \in Failing}
        /\ \A j \in Failing : saved["failed"][world.name[world.input[j]]] = world.input[j]
    BY <1>a, <1>5 DEF IInv, SavedRight, Ended
  <2>2. Copied' = Copied \cup {at}
    <3>1. DOMAIN world.input \subseteq Nat
      BY <1>b
    <3> QED
      BY <1>a, <1>b, <1>c, <3>1 DEF Copied
  <2>3. Failing' = IF StemOf(f) \in names.failed THEN Failing \cup {at} ELSE Failing
    BY <1>a, <2>2 DEF Failing, StemOf
  <2>4. CASE StemOf(f) \in names.failed
    <3>1. saved'["failed"] = Put(saved["failed"], world.name[f], f)
      BY <1>e, <2>4
    <3>2. Failing' = Failing \cup {at}
      BY <2>3, <2>4
    <3>3. DOMAIN saved'["failed"] = DOMAIN saved["failed"] \cup {world.name[f]}
      BY <3>1 DEF Put
    <3>4. ASSUME NEW j \in Failing'
          PROVE  saved'["failed"][world.name[world.input[j]]] = world.input[j]
      <4>1. CASE world.name[world.input[j]] = world.name[f]
        <5>1. j \in DOMAIN world.input
          BY <1>c, <3>2 DEF Failing, Copied
        <5>3. world.input[j] = f
          BY <1>c, <1>5, <4>1, <5>1 DEF DistinctStems, StemOf
        <5> QED
          BY <3>1, <5>3, <3>3 DEF Put
      <4>2. CASE world.name[world.input[j]] # world.name[f]
        <5>1. j \in Failing
          BY <3>2, <4>2
        <5> QED
          BY <2>1, <3>1, <4>2, <5>1 DEF Put
      <4> QED
        BY <4>1, <4>2
    <3> QED
      BY <2>1, <3>2, <3>3, <3>4
  <2>5. CASE StemOf(f) \notin names.failed
    BY <1>e, <2>1, <2>3, <2>5
  <2> QED
    BY <2>4, <2>5
<1>6. AtRange'
  <2>1. Len(world.input) \in Nat
    BY <1>b
  <2> QED
    BY <1>a, <1>b, <2>1 DEF AtRange
<1>7. DistinctStems' = DistinctStems
  BY <1>a DEF DistinctStems, StemOf, InputFiles
<1>8. SavedRight'
  BY <1>a, <1>5, <1>7 DEF SavedRight
<1>9. Complete'
  BY <1>a, <1>3 DEF IInv, Complete, Ended
<1> QED
  BY <1>2, <1>3, <1>4, <1>6, <1>8, <1>9 DEF IInv

\* Every step of the command keeps the invariant.
LEMMA NextIInv == ASSUME IInv, [Next]_vars PROVE IInv'
<1>1. CASE UNCHANGED vars
  <2>1. TypeOK' /\ AtRange'
    BY <1>1 DEF IInv, TypeOK, AtRange, vars
  <2>2. ResultsRight' /\ InOrder' /\ Answered' = Answered /\ InputFiles' = InputFiles
    BY <1>1, ResultsKept DEF vars
  <2>3. Seen' = Seen /\ \A s : Verdicts(s)' = Verdicts(s)
    BY <1>1 DEF vars, Seen, Verdicts, Ended
  <2>4. Complete'
    BY <1>1, <2>2 DEF vars, IInv, Complete, Ended
  <2>5. Counted'
    BY <1>1, <2>3 DEF vars, IInv, Counted, StemOf
  <2>6. Failing' = Failing /\ DistinctStems' = DistinctStems
    BY <1>1 DEF vars, Failing, Copied, StemOf, DistinctStems
  <2>7. SavedRight'
    BY <1>1, <2>6 DEF vars, IInv, SavedRight, Ended
  <2> QED
    BY <2>1, <2>2, <2>4, <2>5, <2>7 DEF IInv
<1> QED
  BY <1>1, RefuseIInv, SetupIInv, TestIInv, AbortIInv, TestedIInv,
     LogResultIInv,
     LoggedIInv, SaveFileIInv, SavedIInv DEF Next

\* The invariant holds in every behaviour of run-tests.
THEOREM Invariance == Spec => []IInv
<1> QED
  BY InitIInv, NextIInv, PTL DEF Spec

\* test_suite.py:446-685.  The state of run-tests is well typed.
THEOREM TypeCorrect == Spec => []TypeOK
<1>1. IInv => TypeOK
  BY DEF IInv
<1> QED
  BY <1>1, Invariance, PTL

\* What a status says of the file.
LEMMA StatusSays ==
    ASSUME IInv, NEW k \in DOMAIN results
    PROVE  /\ results[k].file \in InputFiles
           /\ results[k].status \in {-1, 0, 1}
           /\ results[k].status = 1 <=> Conforms(results[k].file)
           /\ results[k].status = 0 <=> ~Accepted(results[k].file)
<1>1. results[k].file \in File /\ world \in Worlds
  BY InputTyped DEF IInv, TypeOK, ResultsRight
<1>2. ~Raises(results[k].file) /\ results[k] = RunTest(results[k].file)
  BY DEF IInv, ResultsRight
<1>3. results[k] \in [file : File, status : {-1, 0, 1}]
  BY ElementOf DEF IInv, TypeOK
<1> QED
  BY <1>1, <1>2, <1>3, ResultOf DEF IInv, ResultsRight

\* The counts decide, and they say what the answers amount to.
LEMMA RightWhenDone == ASSUME IInv PROVE VerdictIsRight
<1> SUFFICES ASSUME phase = "done"
             PROVE  Verdict <=> InputFiles # {} /\ \A f \in InputFiles : Conforms(f)
  BY DEF VerdictIsRight
<1>1. /\ count.failed = 0 <=> \A k \in DOMAIN results : results[k].status # -1
      /\ count.skipped = 0 <=> \A k \in DOMAIN results : results[k].status # 0
      /\ count.passed > 0 <=> \E k \in DOMAIN results : results[k].status = 1
  BY DEF IInv, TypeOK, Counted, Verdicts, Seen, Ended
<1>2. \A k \in DOMAIN results :
          /\ results[k].file \in InputFiles
          /\ results[k].status \in {-1, 0, 1}
          /\ results[k].status = 1 <=> Conforms(results[k].file)
  BY StatusSays
<1>3. (\A k \in DOMAIN results : results[k].status # -1) => InputFiles \subseteq Answered
  BY DEF IInv, Complete, Ended
<1>4. \A f \in Answered : \E k \in DOMAIN results : results[k].file = f
  BY DEF Answered
<1>5. ASSUME Verdict PROVE InputFiles # {} /\ \A f \in InputFiles : Conforms(f)
  BY <1>1, <1>2, <1>3, <1>4, <1>5 DEF Verdict
<1>6. ASSUME InputFiles # {}, \A f \in InputFiles : Conforms(f) PROVE Verdict
  <2>1. \A k \in DOMAIN results : results[k].status = 1
    BY <1>2, <1>6
  <2>2. DOMAIN results # {}
    BY <1>3, <1>4, <1>6, <2>1
  <2> QED
    BY <1>1, <2>1, <2>2 DEF Verdict
<1> QED
  BY <1>5, <1>6

\* test_suite.py:684.  In every order of answers, with every option, the
\* command succeeds exactly when there is a file and all libraries conform
\* on every file.
THEOREM VerdictIsRightHolds == Spec => []VerdictIsRight
BY Invariance, RightWhenDone, PTL

\* Two effects that match a third match each other: every comparison but
\* that of transactions in consensus mode normalises each side by itself.
LEMMA DiffIsAnEquivalence ==
    ASSUME NEW h, NEW m, ~(h = "TxnHarness" /\ m = {"consensus"})
    PROVE  /\ \A a : DiffEffects(h, m, a, a)
           /\ \A a, b, c : DiffEffects(h, m, a, b) /\ DiffEffects(h, m, a, c)
                                => DiffEffects(h, m, b, c)
<1>1. CASE h = "InstrHarness" /\ "ignore_compute_units" \in m
  BY <1>1 DEF DiffEffects, IgnoreComputeUnitsInstr
<1>2. CASE h = "InstrHarness" /\ "ignore_compute_units" \notin m /\ m = {"core_bpf"}
  BY <1>2 DEF DiffEffects, CoreBpfInstr
<1>3. CASE h = "InstrHarness" /\ "ignore_compute_units" \notin m /\ m = {"consensus"}
  BY <1>3 DEF DiffEffects, ConsensusInstr
<1>4. CASE h = "InstrHarness" => "ignore_compute_units" \notin m /\ m # {"core_bpf"} /\ m # {"consensus"}
  BY <1>4 DEF DiffEffects, GenericDiff
<1> QED
  BY <1>1, <1>2, <1>3, <1>4

\* Equal effects match in every mode, of every harness.
LEMMA SameIsSame == \A h, m, a : DiffEffects(h, m, a, a)
BY DEF DiffEffects, IgnoreComputeUnitsInstr, CoreBpfInstr, ConsensusInstr,
   ConsensusTxn, GenericDiff

\* The comparisons of a result that passed, seen from any two libraries.
LEMMA SoundModes == ASSUME IInv PROVE ModesAreSound
<1> SUFFICES ASSUME NEW k \in DOMAIN results
             PROVE  LET f == results[k].file
                        answers == {world.answer[f][t] : t \in Target}
                    IN /\ world.fate[f] = "runs" /\ Cardinality(answers) = 1 /\ answers \subseteq Effect
                            => results[k].status = 1
                       /\ results[k].status = 1
                             /\ ~(world.harness[f] = "TxnHarness" /\ world.modes = {"consensus"})
                            => \A a, b \in answers : Diff(f, a, b)
  BY DEF ModesAreSound
<1> DEFINE f == results[k].file
           answers == {world.answer[f][t] : t \in Target}
<1>1. f \in File /\ world \in Worlds
  BY InputTyped DEF IInv, TypeOK, ResultsRight
<1>2. results[k].status = 1 <=> Conforms(f)
  BY <1>1, ResultOf DEF IInv, ResultsRight
<1>3. Reference \in Target /\ IsFiniteSet(Target)
  <2>1. 1 \in DOMAIN Targets /\ DOMAIN Targets = 1..Len(Targets) /\ Len(Targets) \in Nat
    BY TestRunAssumption
  <2>2. Targets \in Surjection(1..Len(Targets), Target)
    BY <2>1, TestRunAssumption DEF Target, Range, Surjection
  <2>3. IsFiniteSet(1..Len(Targets))
    BY <2>1, FS_Interval
  <2>4. IsFiniteSet(Target)
    BY <2>2, <2>3, FS_Surjection
  <2> QED
    BY <2>1, <2>4, TestRunAssumption DEF Reference, Target, Range
<1>4. ASSUME world.fate[f] = "runs", Cardinality(answers) = 1, answers \subseteq Effect
      PROVE  Conforms(f)
  <2>1. IsFiniteSet(answers)
    <3>1. world.answer[f] \in Surjection(Target, answers)
      BY <1>1, TestRunAssumption DEF Surjection
    <3> HIDE DEF answers
    <3> QED
      BY <1>3, <3>1, FS_Surjection
  <2>2. PICK x : answers = {x}
    <3> HIDE DEF answers
    <3> QED
      BY <2>1, <1>4, FS_Singleton
  <2>3. \A t \in Target : world.answer[f][t] = x
    BY <2>2
  <2> QED
    BY <1>3, <1>4, <2>3, SameIsSame DEF Conforms, Accepted, Diff
<1>5. ASSUME Conforms(f), ~(world.harness[f] = "TxnHarness" /\ world.modes = {"consensus"}),
             NEW t \in Target, NEW u \in Target
      PROVE  Diff(f, world.answer[f][t], world.answer[f][u])
  <2>1. Diff(f, world.answer[f][Reference], world.answer[f][t])
    BY <1>5, SameIsSame DEF Conforms, Diff
  <2>2. Diff(f, world.answer[f][Reference], world.answer[f][u])
    BY <1>5, SameIsSame DEF Conforms, Diff
  <2> QED
    BY <1>5, <2>1, <2>2, DiffIsAnEquivalence DEF Diff
<1> QED
  BY <1>2, <1>4, <1>5

\* multiprocessing_utils.py:569-579.  A mode only ever relaxes, and a file
\* that passes has no two libraries that disagree, transactions in
\* consensus mode excepted.
THEOREM ModesAreSoundHolds == Spec => []ModesAreSound
BY Invariance, SoundModes, PTL

\* With distinct stems, failed_tests singles out the files that failed.
LEMMA SavedWhenDone == ASSUME IInv PROVE FailuresAreSavedWithDistinctStems
<1> SUFFICES ASSUME DistinctStems, phase = "done"
             PROVE  {saved["failed"][n] : n \in DOMAIN saved["failed"]}
                        = {results[k].file : k \in {j \in DOMAIN results : results[j].status = -1}}
  BY DEF FailuresAreSavedWithDistinctStems, FailuresAreSaved
<1> DEFINE Failed == {k \in DOMAIN results : results[k].status = -1}
<1>1. /\ DOMAIN saved["failed"] = {world.name[world.input[j]] : j \in Failing}
      /\ \A j \in Failing : saved["failed"][world.name[world.input[j]]] = world.input[j]
  BY DEF IInv, SavedRight, Ended
<1>2. names.failed = {StemOf(results[k].file) : k \in Failed}
  BY DEF IInv, Counted, Verdicts, Seen, Ended
<1>3. Failing = {j \in DOMAIN world.input : StemOf(world.input[j]) \in names.failed}
  BY DEF Failing, Copied
<1>4. \A k \in DOMAIN results : \E j \in DOMAIN world.input : world.input[j] = results[k].file
  BY DEF IInv, ResultsRight, InputFiles, Range
<1>5. ASSUME NEW j \in Failing PROVE \E k \in Failed : results[k].file = world.input[j]
  <2>1. PICK k \in Failed : StemOf(results[k].file) = StemOf(world.input[j])
    BY <1>2, <1>3
  <2>2. PICK i \in DOMAIN world.input : world.input[i] = results[k].file
    BY <1>4
  <2>3. i = j
    BY <1>3, <2>1, <2>2 DEF DistinctStems
  <2> QED
    BY <2>2, <2>3
<1>6. ASSUME NEW k \in Failed PROVE \E j \in Failing : world.input[j] = results[k].file
  BY <1>2, <1>3, <1>4
<1> HIDE DEF Failed
<1>7. {saved["failed"][n] : n \in DOMAIN saved["failed"]} = {world.input[j] : j \in Failing}
  BY <1>1
<1>8. {world.input[j] : j \in Failing} = {results[k].file : k \in Failed}
  BY <1>5, <1>6
<1> QED
  BY <1>7, <1>8 DEF Failed

\* log_utils.py:67-75.  failed_protobufs ends up with the files that
\* failed and no others when no two inputs share a stem.
THEOREM FailuresAreSavedHolds == Spec => []FailuresAreSavedWithDistinctStems
BY Invariance, SavedWhenDone, PTL

-----------------------------------------------------------------------------
(***************************************************************************)
(* The counts and the logs.  Both rest on no file being answered twice and *)
(* on the position each result has in the first loop of log_results.       *)
(***************************************************************************)
\* The loops of log_results have begun.
Writing == phase = "logging" \/ Ended

\* The results that name their stem, and how many there are in all.
Named == count.passed + count.failed

\* Every result gone through is counted once, under its status.
Tally ==
    /\ phase # "aborted" =>
          Named + count.skipped = IF Ended THEN Len(results) ELSE at - 1
    /\ count.passed = Cardinality(Verdicts(1))
    /\ count.failed = Cardinality(Verdicts(-1))
    /\ count.skipped = Cardinality(Verdicts(0))

\* No file is answered twice; --fail-early ends at the first failure, and
\* without it every file is answered.
Once ==
    /\ ~world.fail_early =>
          \A k, l \in DOMAIN results : results[k].file = results[l].file => k = l
    /\ world.fail_early =>
          \A k \in DOMAIN results : results[k].status = -1 => k = Len(results)
    /\ Writing /\ ~world.fail_early => InputFiles \subseteq Answered

\* The results gone through that have to be in the logs.
Due == {k \in Seen :
          results[k].status = -1 \/ (results[k].status = 1 /\ ~world.failures_only)}

\* The results logged since the last whole number of chunks.
Filled == Named % world.log_chunk_size

\* A chunk that is not full is open, and has room.
ChunkIsOpen == Filled # 0 => chunk \in DOMAIN log /\ Len(log[chunk]) <= Filled

\* A chunk is named after a result gone through and is never too long.
ChunksAreNamed ==
    \A s \in DOMAIN log :
        /\ \E k \in Seen : results[k].status # 0 /\ s = StemOf(results[k].file)
        /\ Len(log[s]) <= world.log_chunk_size
        /\ Len(log[s]) <= Named

\* The logs hold what is due, and each of it in one place.
NothingElseLogged ==
    \A s \in DOMAIN log : \A i \in DOMAIN log[s] :
        \E k \in Due : log[s][i] = results[k].file

AllLogged ==
    \A k \in Due : \E s \in DOMAIN log : \E i \in DOMAIN log[s] : log[s][i] = results[k].file

LoggedOnce ==
    \A s, t \in DOMAIN log : \A i \in DOMAIN log[s], j \in DOMAIN log[t] :
        log[s][i] = log[t][j] => s = t /\ i = j

Logs ==
    /\ phase = "testing" => log = << >>
    /\ DistinctStems /\ Writing =>
          ChunkIsOpen /\ ChunksAreNamed /\ NothingElseLogged /\ AllLogged /\ LoggedOnce

LogInv == IInv /\ Tally /\ Once /\ Logs

-----------------------------------------------------------------------------
\* Every step but a turn of the first loop leaves what was counted, logged
\* and gone through as it is.
LEMMA OtherSteps ==
    ASSUME IInv, [Next]_vars, ~LogResult
    PROVE  /\ world' = world /\ count' = count /\ chunk' = chunk
           /\ Seen' = Seen /\ \A s : Verdicts(s)' = Verdicts(s)
           /\ \A k \in Seen : results'[k] = results[k]
           /\ Named' = Named /\ Filled' = Filled
<1>1. world' = world /\ count' = count /\ chunk' = chunk
  BY DEF Next, vars, Refuse, Setup, Abort, Tested, Logged, SaveFile, Saved, Test
<1>2. CASE Refuse \/ Setup \/ Abort \/ \E f \in File : Test(f)
  <2>1. Seen = {} /\ Seen' = {}
    BY <1>2 DEF Refuse, Setup, Abort, Test, Seen, Ended
  <2> QED
    BY <1>1, <2>1 DEF Verdicts, Named, Filled
<1>3. CASE Tested
  <2>1. Seen = {} /\ Seen' = {}
    BY <1>3 DEF IInv, AtRange, Tested, Seen, Ended, TypeOK
  <2> QED
    BY <1>1, <2>1 DEF Verdicts, Named, Filled
<1>4. CASE Logged
  <2>1. Seen' = Seen /\ results' = results
    BY <1>4 DEF IInv, AtRange, Logged, Seen, Ended, TypeOK
  <2> QED
    BY <1>1, <2>1 DEF Verdicts, Named, Filled
<1>5. CASE SaveFile \/ Saved \/ UNCHANGED vars
  <2>1. Seen' = Seen /\ results' = results
    BY <1>5 DEF SaveFile, Saved, vars, Seen, Ended
  <2> QED
    BY <1>1, <2>1 DEF Verdicts, Named, Filled
<1> QED
  BY <1>2, <1>3, <1>4, <1>5 DEF Next

\* What a turn of the first loop does to the results gone through.
LEMMA LogStep ==
    ASSUME IInv, LogResult
    PROVE  /\ phase = "logging" /\ phase' = "logging" /\ at' = at + 1
           /\ world' = world /\ results' = results
           /\ at \in DOMAIN results /\ at \notin Seen /\ Seen' = Seen \cup {at}
           /\ results[at].file \in File /\ results[at].status \in {-1, 0, 1}
           /\ \A s : Verdicts(s)' = IF results[at].status = s THEN Verdicts(s) \cup {at}
                                    ELSE Verdicts(s)
           /\ \A g : StemOf(g)' = StemOf(g)
<1>a. /\ phase = "logging" /\ phase' = "logging" /\ at' = at + 1
      /\ world' = world /\ results' = results
  BY DEF LogResult
<1>b. /\ results \in Seq([file : File, status : {-1, 0, 1}])
      /\ at \in Nat \ {0} /\ at <= Len(results)
  BY DEF IInv, TypeOK, LogResult
<1>c. at \in DOMAIN results
  <2>1. DOMAIN results = 1..Len(results) /\ Len(results) \in Nat
    BY <1>b
  <2> QED
    BY <1>b, <2>1
<1>d. results[at] \in [file : File, status : {-1, 0, 1}]
  BY <1>b, <1>c, ElementOf
<1>e. results[at].file \in File /\ results[at].status \in {-1, 0, 1}
  BY <1>d
<1>g. \A g : StemOf(g)' = StemOf(g)
  BY <1>a DEF StemOf
<1>h. Seen' = Seen \cup {at} /\ at \notin Seen
  BY <1>a, <1>b, <1>c DEF Seen, Ended
<1>i. \A s : Verdicts(s)' = IF results[at].status = s THEN Verdicts(s) \cup {at}
                            ELSE Verdicts(s)
  BY <1>a, <1>c, <1>h DEF Verdicts
<1> QED
  BY <1>a, <1>c, <1>e, <1>g, <1>h, <1>i

\* How a turn of the first loop counts.
LEMMA CountStep ==
    ASSUME IInv, LogResult
    PROVE  /\ count.passed \in Nat /\ count.failed \in Nat /\ count.skipped \in Nat
           /\ count'.passed = IF results[at].status = 1 THEN count.passed + 1 ELSE count.passed
           /\ count'.failed = IF results[at].status = -1 THEN count.failed + 1 ELSE count.failed
           /\ count'.skipped = IF results[at].status = 0 THEN count.skipped + 1 ELSE count.skipped
<1> DEFINE r == results[at]
<1>1. r.status = 0 => count' = [count EXCEPT !.skipped = @ + 1]
  BY DEF LogResult
<1>2. r.status = 1 => count' = [count EXCEPT !.passed = @ + 1]
  BY DEF LogResult
<1>3. r.status = -1 => count' = [count EXCEPT !.failed = @ + 1]
  <2>1. r.status = -1 => r.status # 0 /\ r.status # 1
    OBVIOUS
  <2> QED
    BY <2>1 DEF LogResult
<1>4. r.status \in {-1, 0, 1}
  BY LogStep
<1>5. count \in [passed : Nat, failed : Nat, skipped : Nat]
  BY DEF IInv, TypeOK
<1> HIDE DEF r
<1>6. /\ count'.passed = IF r.status = 1 THEN count.passed + 1 ELSE count.passed
      /\ count'.failed = IF r.status = -1 THEN count.failed + 1 ELSE count.failed
      /\ count'.skipped = IF r.status = 0 THEN count.skipped + 1 ELSE count.skipped
  BY <1>1, <1>2, <1>3, <1>4, <1>5
<1> QED
  BY <1>5, <1>6 DEF r

\* The results of a run, and every part of them, are finite.
LEMMA FiniteVerdicts ==
    ASSUME IInv
    PROVE  \A s : IsFiniteSet(Verdicts(s))
<1>1. IsFiniteSet(DOMAIN results)
  <2>1. DOMAIN results = 1..Len(results) /\ Len(results) \in Nat
    BY DEF IInv, TypeOK
  <2> QED
    BY <2>1, FS_Interval
<1>2. \A s : Verdicts(s) \in SUBSET (DOMAIN results)
  BY DEF Verdicts, Seen
<1> QED
  BY <1>1, <1>2, FS_Subset

\* Every step keeps the tally.
LEMMA TallyKept == ASSUME IInv, Tally, [Next]_vars PROVE Tally'
<1>1. CASE LogResult
  <2> DEFINE r == results[at]
  <2>1. \A s : Cardinality(Verdicts(s)') = IF r.status = s THEN Cardinality(Verdicts(s)) + 1
                                          ELSE Cardinality(Verdicts(s))
    <3> TAKE s
    <3>1. IsFiniteSet(Verdicts(s)) /\ at \notin Verdicts(s)
      BY <1>1, FiniteVerdicts, LogStep DEF Verdicts
    <3>2. Verdicts(s)' = IF r.status = s THEN Verdicts(s) \cup {at} ELSE Verdicts(s)
      BY <1>1, LogStep
    <3>3. Cardinality(Verdicts(s) \cup {at}) = Cardinality(Verdicts(s)) + 1
      BY <3>1, FS_AddElement
    <3> QED
      BY <3>2, <3>3
  <2>2. /\ count'.passed = Cardinality(Verdicts(1)')
        /\ count'.failed = Cardinality(Verdicts(-1)')
        /\ count'.skipped = Cardinality(Verdicts(0)')
    BY <1>1, <2>1, CountStep DEF Tally
  <2>3. Named' + count'.skipped = at' - 1 /\ ~Ended'
    <3>1. Named + count.skipped = at - 1 /\ at \in Nat
      BY <1>1, LogStep DEF Tally, Ended, IInv, TypeOK
    <3>2. r.status \in {-1, 0, 1} /\ at' = at + 1 /\ phase' = "logging"
      BY <1>1, LogStep
    <3> QED
      BY <1>1, <3>1, <3>2, CountStep DEF Named, Ended
  <2> QED
    BY <2>2, <2>3 DEF Tally
<1>2. CASE ~LogResult
  <2>1. /\ count' = count /\ Named' = Named
        /\ Verdicts(1)' = Verdicts(1) /\ Verdicts(-1)' = Verdicts(-1)
        /\ Verdicts(0)' = Verdicts(0)
    BY <1>2, OtherSteps
  <2>2. phase' # "aborted" =>
           /\ phase # "aborted"
           /\ (IF Ended THEN Len(results) ELSE at - 1)' = IF Ended THEN Len(results) ELSE at - 1
    <3>1. CASE Logged
      <4>1. at = Len(results) + 1
        <5>1. at \in Nat /\ Len(results) \in Nat
          BY DEF IInv, TypeOK
        <5> QED
          BY <3>1, <5>1 DEF Logged, IInv, AtRange
      <4> QED
        BY <3>1, <4>1 DEF Logged, Ended, IInv, TypeOK
    <3> QED
      BY <1>2, <3>1 DEF Next, vars, Refuse, Setup, Abort, Tested, SaveFile, Saved, Test, Ended
  <2> QED
    BY <2>1, <2>2 DEF Tally
<1> QED
  BY <1>1, <1>2

\* Every step keeps the answers apart.
LEMMA OnceKept == ASSUME IInv, Once, [Next]_vars PROVE Once'
<1>1. ASSUME NEW f \in File, Test(f) PROVE Once'
  <2>1. /\ Len(results') = Len(results) + 1
        /\ \A k \in DOMAIN results : results'[k] = results[k]
        /\ results'[Len(results) + 1].file = f
        /\ DOMAIN results' = DOMAIN results \cup {Len(results) + 1}
        /\ Len(results) + 1 \notin DOMAIN results
    <3>1. RunTest(f) \in [file : File, status : {-1, 0, 1}] /\ RunTest(f).file = f
      BY <1>1, ResultOf DEF IInv, TypeOK, Test
    <3>2. results \in Seq([file : File, status : {-1, 0, 1}]) /\ results' = Append(results, RunTest(f))
      BY <1>1 DEF IInv, TypeOK, Test
    <3> QED
      BY <3>1, <3>2
  <2>2. world' = world /\ ~Writing'
    BY <1>1 DEF Test, Writing, Ended
  <2>3. ASSUME ~world.fail_early,
               NEW k \in DOMAIN results', NEW l \in DOMAIN results',
               results'[k].file = results'[l].file
        PROVE  k = l
    <3>1. f \notin Answered
      BY <1>1, <2>3 DEF Test, Expected
    <3>2. \A m \in DOMAIN results : results[m].file # f
      BY <3>1 DEF Answered
    <3> QED
      BY <2>1, <2>3, <3>2 DEF Once
  <2>4. ASSUME world.fail_early, NEW k \in DOMAIN results', results'[k].status = -1
        PROVE  k = Len(results')
    <3>1. \A m \in DOMAIN results : results[m].status # -1
      BY <1>1, <2>4 DEF Test, Expected
    <3> QED
      BY <2>1, <2>4, <3>1
  <2> QED
    BY <2>2, <2>3, <2>4 DEF Once
<1>2. CASE Abort
  BY <1>2 DEF Abort, Once, Writing, Ended
<1>3. CASE Tested
  <2>1. ~world.fail_early => InputFiles \subseteq Answered
    BY <1>3 DEF Tested, Expected, InputFiles
  <2>2. world' = world /\ results' = results /\ InputFiles' = InputFiles /\ Answered' = Answered
    BY <1>3 DEF Tested, InputFiles, Answered
  <2> QED
    BY <2>1, <2>2 DEF Once
<1>4. CASE \/ Refuse \/ Setup \/ LogResult \/ Logged \/ SaveFile \/ Saved \/ UNCHANGED vars
  <2>1. world' = world /\ results' = results
    BY <1>4 DEF Refuse, Setup, LogResult, Logged, SaveFile, Saved, vars
  <2>2. InputFiles' = InputFiles /\ Answered' = Answered
    BY <2>1 DEF InputFiles, Answered
  <2>3. Writing' => Writing
    BY <1>4 DEF Refuse, Setup, LogResult, Logged, SaveFile, Saved, vars, Writing, Ended
  <2> QED
    BY <2>1, <2>2, <2>3 DEF Once
<1> QED
  BY <1>1, <1>2, <1>3, <1>4 DEF Next

\* With distinct stems, no two results share one.
LEMMA StemsAreDistinct ==
    ASSUME IInv, Once, DistinctStems, NEW k \in DOMAIN results, NEW l \in DOMAIN results,
           StemOf(results[k].file) = StemOf(results[l].file)
    PROVE  k = l
<1>1. CASE world.fail_early
  <2>1. /\ k \in DOMAIN world.input /\ results[k].file = world.input[k]
        /\ l \in DOMAIN world.input /\ results[l].file = world.input[l]
    BY <1>1 DEF IInv, InOrder
  <2> QED
    BY <2>1 DEF DistinctStems
<1>2. CASE ~world.fail_early
  <2>1. PICK i \in DOMAIN world.input : world.input[i] = results[k].file
    BY DEF IInv, ResultsRight, InputFiles, Range
  <2>2. PICK j \in DOMAIN world.input : world.input[j] = results[l].file
    BY DEF IInv, ResultsRight, InputFiles, Range
  <2>3. i = j
    BY <2>1, <2>2 DEF DistinctStems
  <2> QED
    BY <1>2, <2>1, <2>2, <2>3 DEF Once
<1> QED
  BY <1>1, <1>2

\* A turn that logs a result of status 0 logs nothing.
LEMMA SkippedStep ==
    ASSUME IInv, LogResult, results[at].status = 0
    PROVE  Named' = Named /\ Filled' = Filled /\ log' = log /\ chunk' = chunk /\ Due' = Due
<1>1. log' = log /\ chunk' = chunk
  BY DEF LogResult
<1>2. Named' = Named
  BY CountStep DEF Named
<1>3. Filled' = Filled
  BY <1>2, LogStep DEF Filled
<1>4. Due' = Due
  BY LogStep DEF Due
<1> QED
  BY <1>1, <1>2, <1>3, <1>4

\* The chunk a result goes to, and the logs in which it is open.
Current == IF NewChunk THEN StemOf(results[at].file) ELSE chunk
Opened == IF NewChunk THEN Put(log, StemOf(results[at].file), << >>) ELSE log

\* Whether the result is written, and the place it is written to.
Written == ~world.failures_only \/ results[at].status = -1
Slot == Len(Opened[Current]) + 1

\* A turn that names a result: the chunk it goes to is open, has room and
\* has lost nothing.
LEMMA NamedStep ==
    ASSUME IInv, Once, Logs, DistinctStems, LogResult, results[at].status # 0
    PROVE  /\ Named \in Nat /\ Named' = Named + 1 /\ chunk' = Current
           /\ Filled \in Nat /\ Filled < world.log_chunk_size
           /\ Filled' = IF Filled = world.log_chunk_size - 1 THEN 0 ELSE Filled + 1
           /\ world.log_chunk_size \in Nat \ {0}
           /\ Current \in DOMAIN Opened
           /\ Len(Opened[Current]) <= Filled
           /\ DOMAIN Opened = DOMAIN log \cup {Current}
           /\ \A s \in DOMAIN log : Opened[s] = log[s]
           /\ \A s \in DOMAIN Opened : /\ Opened[s] \in Seq(File)
                                       /\ s \notin DOMAIN log => Opened[s] = << >>
                                       /\ s \notin DOMAIN log => s = StemOf(results[at].file)
<1>1. Named \in Nat /\ Named' = Named + 1
  <2>1. results[at].status \in {-1, 1}
    BY LogStep
  <2> QED
    BY <2>1, CountStep DEF Named
<1>2. world.log_chunk_size \in Nat \ {0} /\ world' = world
  BY TestRunAssumption, LogStep DEF IInv, TypeOK
<1>3. /\ Filled \in Nat /\ Filled < world.log_chunk_size
      /\ Filled' = IF Filled = world.log_chunk_size - 1 THEN 0 ELSE Filled + 1
  <2> DEFINE d == world.log_chunk_size
             n == Named
  <2>1. n % d \in 0..(d - 1) /\ (n + 1) % d = IF n % d = d - 1 THEN 0 ELSE (n % d) + 1
    <3> HIDE DEF d, n
    <3>1. d \in Nat \ {0} /\ n \in Nat
      BY <1>1, <1>2 DEF d, n
    <3> QED
      BY <3>1, ModNext
  <2>2. Filled = n % d /\ Filled' = (n + 1) % d
    BY <1>1, <1>2 DEF Filled
  <2> HIDE DEF n
  <2> QED
    BY <1>2, <2>1, <2>2
<1>4. chunk' = Current
  BY DEF LogResult, Current
<1>5. NewChunk <=> Filled = 0
  BY DEF NewChunk, Filled, Named
<1>6. DOMAIN log \subseteq Stem /\ \A s \in DOMAIN log : log[s] \in Seq(File)
  BY DEF IInv, TypeOK
<1>7. ChunkIsOpen /\ ChunksAreNamed
  BY LogStep DEF Logs, Writing
<1>8. CASE NewChunk
  <2> DEFINE stem == StemOf(results[at].file)
  <2>1. stem \notin DOMAIN log
    <3> SUFFICES ASSUME stem \in DOMAIN log PROVE FALSE
      OBVIOUS
    <3>1. PICK k \in Seen : stem = StemOf(results[k].file)
      BY <1>7 DEF ChunksAreNamed
    <3>2. k \in DOMAIN results /\ k # at
      BY <3>1, LogStep DEF Seen
    <3> QED
      BY <3>1, <3>2, LogStep, StemsAreDistinct
  <2>2. Current = stem /\ Opened = Put(log, stem, << >>)
    BY <1>8 DEF Current, Opened
  <2> HIDE DEF stem
  <2>3. /\ DOMAIN Opened = DOMAIN log \cup {stem}
        /\ Opened[stem] = << >>
        /\ \A s \in DOMAIN log : Opened[s] = log[s]
    BY <2>1, <2>2 DEF Put
  <2>4. Len(Opened[stem]) <= Filled
    BY <1>5, <1>8, <2>3
  <2>5. << >> \in Seq(File)
    OBVIOUS
  <2>6. \A s \in DOMAIN Opened : /\ Opened[s] \in Seq(File)
                                 /\ s \notin DOMAIN log => Opened[s] = << >>
                                 /\ s \notin DOMAIN log => s = stem
    BY <1>6, <2>3, <2>5
  <2> QED
    BY <1>1, <1>2, <1>3, <1>4, <2>2, <2>3, <2>4, <2>6 DEF stem
<1>9. CASE ~NewChunk
  <2>1. Current = chunk /\ Opened = log
    BY <1>9 DEF Current, Opened
  <2>2. chunk \in DOMAIN log /\ Len(log[chunk]) <= Filled
    BY <1>5, <1>7, <1>9 DEF ChunkIsOpen
  <2> QED
    BY <1>1, <1>2, <1>3, <1>4, <1>6, <2>1, <2>2
<1> QED
  BY <1>8, <1>9

\* A result is written to the chunk it goes to, or to none; whatever the
\* logs held stays where it was.
LEMMA WrittenStep ==
    ASSUME IInv, Once, Logs, DistinctStems, LogResult, results[at].status # 0
    PROVE  /\ DOMAIN log' = DOMAIN log \cup {Current}
           /\ \A s \in DOMAIN log : \A i \in DOMAIN log[s] :
                 i \in DOMAIN log'[s] /\ log'[s][i] = log[s][i]
           /\ Written => Slot \in DOMAIN log'[Current] /\ log'[Current][Slot] = results[at].file
           /\ \A s \in DOMAIN log' : \A i \in DOMAIN log'[s] :
                 \/ s \in DOMAIN log /\ i \in DOMAIN log[s] /\ log'[s][i] = log[s][i]
                 \/ Written /\ s = Current /\ i = Slot /\ log'[s][i] = results[at].file
           /\ \A s \in DOMAIN log' :
                 \/ s = Current /\ Len(log'[s]) <= Filled + 1
                 \/ s \in DOMAIN log /\ Len(log'[s]) = Len(log[s])
           /\ \A s \in DOMAIN log' : s \notin DOMAIN log => s = StemOf(results[at].file)
           /\ Due' = IF Written THEN Due \cup {at} ELSE Due
<1> DEFINE file == results[at].file
<1>1. /\ Current \in DOMAIN Opened
      /\ Len(Opened[Current]) <= Filled /\ Filled \in Nat
      /\ DOMAIN Opened = DOMAIN log \cup {Current}
      /\ \A s \in DOMAIN log : Opened[s] = log[s]
      /\ \A s \in DOMAIN Opened : /\ Opened[s] \in Seq(File)
                                  /\ s \notin DOMAIN log => Opened[s] = << >>
                                  /\ s \notin DOMAIN log => s = StemOf(results[at].file)
  BY NamedStep
<1>2. file \in File
  BY LogStep
<1>3. log' = IF Written THEN [Opened EXCEPT ![Current] = Append(@, file)] ELSE Opened
  BY DEF LogResult, Opened, Current, Written
<1>4. Due' = IF Written THEN Due \cup {at} ELSE Due
  <2>1. \A k : k \in Due' <=> /\ k \in Seen \cup {at}
                              /\ \/ results[k].status = -1
                                 \/ results[k].status = 1 /\ ~world.failures_only
    BY LogStep DEF Due
  <2>2. \A k : k \in Due <=> /\ k \in Seen
                             /\ \/ results[k].status = -1
                                \/ results[k].status = 1 /\ ~world.failures_only
    BY DEF Due
  <2>3. (\/ results[at].status = -1
         \/ results[at].status = 1 /\ ~world.failures_only) <=> Written
    BY LogStep DEF Written
  <2>4. \A k : k \in Due' <=> k \in Due \/ (k = at /\ Written)
    BY <2>1, <2>2, <2>3
  <2> HIDE DEF Due
  <2> QED
    BY <2>4
<1> HIDE DEF file
<1>5. DOMAIN log' = DOMAIN Opened
  BY <1>3
<1>6. \A s \in DOMAIN log' : log'[s] = IF Written /\ s = Current THEN Append(Opened[s], file)
                                       ELSE Opened[s]
  BY <1>3
<1>7. \A s \in DOMAIN Opened : \A i \in DOMAIN Opened[s] :
         s \in DOMAIN log /\ i \in DOMAIN log[s] /\ Opened[s][i] = log[s][i]
  BY <1>1
<1>8. ASSUME NEW q \in Seq(File)
      PROVE  /\ DOMAIN Append(q, file) = DOMAIN q \cup {Len(q) + 1}
             /\ \A i \in DOMAIN q : Append(q, file)[i] = q[i]
             /\ Append(q, file)[Len(q) + 1] = file
             /\ Len(Append(q, file)) = Len(q) + 1
             /\ Len(q) \in Nat
  BY <1>2
<1>9. ASSUME NEW s \in DOMAIN log, NEW i \in DOMAIN log[s]
      PROVE  i \in DOMAIN log'[s] /\ log'[s][i] = log[s][i]
  <2>1. s \in DOMAIN Opened /\ Opened[s] \in Seq(File) /\ Opened[s] = log[s]
    BY <1>1
  <2>2. /\ i \in DOMAIN Append(Opened[s], file)
        /\ Append(Opened[s], file)[i] = Opened[s][i]
    BY <1>8, <2>1
  <2> QED
    BY <1>5, <1>6, <2>1, <2>2
<1>10. ASSUME Written PROVE Slot \in DOMAIN log'[Current] /\ log'[Current][Slot] = file
  <2>1. log'[Current] = Append(Opened[Current], file) /\ Opened[Current] \in Seq(File)
    BY <1>1, <1>5, <1>6, <1>10
  <2> QED
    BY <1>8, <2>1 DEF Slot
<1>11. ASSUME NEW s \in DOMAIN log', NEW i \in DOMAIN log'[s]
       PROVE  \/ s \in DOMAIN log /\ i \in DOMAIN log[s] /\ log'[s][i] = log[s][i]
              \/ Written /\ s = Current /\ i = Slot /\ log'[s][i] = file
  <2>1. s \in DOMAIN Opened /\ Opened[s] \in Seq(File)
    BY <1>1, <1>5
  <2>2. CASE Written /\ s = Current
    <3>1. log'[s] = Append(Opened[s], file)
      BY <1>6, <2>2
    <3>2. i \in DOMAIN Opened[s] \/ i = Slot
      BY <1>8, <2>1, <2>2, <3>1 DEF Slot
    <3>3. i \in DOMAIN Opened[s] => log'[s][i] = Opened[s][i]
      BY <1>8, <2>1, <3>1
    <3>4. i = Slot => log'[s][i] = file
      BY <1>8, <2>1, <2>2, <3>1 DEF Slot
    <3> QED
      BY <1>7, <2>1, <2>2, <3>2, <3>3, <3>4
  <2>3. CASE ~(Written /\ s = Current)
    BY <1>6, <1>7, <2>1, <2>3
  <2> QED
    BY <2>2, <2>3
<1>12. ASSUME NEW s \in DOMAIN log'
       PROVE  \/ s = Current /\ Len(log'[s]) <= Filled + 1
              \/ s \in DOMAIN log /\ Len(log'[s]) = Len(log[s])
  <2>1. s \in DOMAIN Opened /\ Opened[s] \in Seq(File) /\ Len(Opened[s]) \in Nat
    BY <1>1, <1>5, <1>8
  <2>2. CASE s = Current
    <3>1. Len(log'[s]) = Len(Opened[s]) + 1 \/ Len(log'[s]) = Len(Opened[s])
      BY <1>6, <1>8, <2>1
    <3> QED
      BY <1>1, <2>1, <2>2, <3>1
  <2>3. CASE s # Current
    BY <1>1, <1>5, <1>6, <2>1, <2>3
  <2> QED
    BY <2>2, <2>3
<1> QED
  BY <1>1, <1>4, <1>5, <1>9, <1>10, <1>11, <1>12 DEF file

\* A turn that names a result keeps the logs whole.
LEMMA NamedLogs ==
    ASSUME IInv, Tally, Once, Logs, DistinctStems, LogResult, results[at].status # 0
    PROVE  (ChunkIsOpen /\ ChunksAreNamed /\ NothingElseLogged /\ AllLogged /\ LoggedOnce)'
<1> DEFINE file == results[at].file
<1>1. /\ Named \in Nat /\ Named' = Named + 1 /\ chunk' = Current
      /\ Filled \in Nat /\ Filled < world.log_chunk_size
      /\ Filled' = IF Filled = world.log_chunk_size - 1 THEN 0 ELSE Filled + 1
      /\ world.log_chunk_size \in Nat \ {0}
  BY NamedStep
<1>2. /\ DOMAIN log' = DOMAIN log \cup {Current}
      /\ \A s \in DOMAIN log : \A i \in DOMAIN log[s] :
            i \in DOMAIN log'[s] /\ log'[s][i] = log[s][i]
      /\ Written => Slot \in DOMAIN log'[Current] /\ log'[Current][Slot] = file
      /\ \A s \in DOMAIN log' : \A i \in DOMAIN log'[s] :
            \/ s \in DOMAIN log /\ i \in DOMAIN log[s] /\ log'[s][i] = log[s][i]
            \/ Written /\ s = Current /\ i = Slot /\ log'[s][i] = file
      /\ \A s \in DOMAIN log' :
            \/ s = Current /\ Len(log'[s]) <= Filled + 1
            \/ s \in DOMAIN log /\ Len(log'[s]) = Len(log[s])
      /\ \A s \in DOMAIN log' : s \notin DOMAIN log => s = StemOf(file)
      /\ Due' = IF Written THEN Due \cup {at} ELSE Due
  BY WrittenStep
<1>3. /\ world' = world /\ results' = results /\ Seen' = Seen \cup {at}
      /\ at \notin Seen /\ at \in DOMAIN results
      /\ \A g : StemOf(g)' = StemOf(g)
  BY LogStep
<1>4. /\ ChunkIsOpen /\ ChunksAreNamed /\ NothingElseLogged /\ AllLogged /\ LoggedOnce
  BY LogStep DEF Logs, Writing
<1>5. results[at].status # 0
  OBVIOUS
<1>6. /\ Due \subseteq Seen /\ Seen \subseteq DOMAIN results
      /\ \A s \in DOMAIN log : Len(log[s]) \in Nat
      /\ \A s \in DOMAIN log' : Len(log'[s]) \in Nat
  <2>1. Due \subseteq Seen /\ Seen \subseteq DOMAIN results
    BY DEF Due, Seen
  <2>2. TypeOK /\ TypeOK'
    BY LogResultIInv DEF IInv
  <2> QED
    BY <2>1, <2>2 DEF TypeOK
<1>7. \A k \in Seen : results[k].file # file
  BY <1>3, <1>6, StemsAreDistinct DEF file
<1> HIDE DEF file
<1>8. Filled + 1 <= Named + 1
  <2>1. Named \in Nat /\ world.log_chunk_size \in Nat \ {0}
    BY <1>1
  <2>2. Named % world.log_chunk_size <= Named
    BY <2>1
  <2> QED
    BY <1>1, <2>2 DEF Filled
<1>9. ChunkIsOpen'
  <2>1. ASSUME Filled' # 0
        PROVE  chunk' \in DOMAIN log' /\ Len(log'[chunk']) <= Filled'
    <3>1. Filled' = Filled + 1
      BY <1>1, <2>1
    <3>2. Current \in DOMAIN log'
      BY <1>2
    <3>3. Current \in DOMAIN log => Len(log[Current]) <= Filled + 1
      <4> SUFFICES ASSUME Current \in DOMAIN log PROVE Len(log[Current]) <= Filled + 1
        OBVIOUS
      <4>1. Opened[Current] = log[Current] /\ Len(Opened[Current]) <= Filled
        BY NamedStep
      <4> QED
        BY <1>1, <1>6, <4>1
    <3> QED
      BY <1>1, <1>2, <3>1, <3>2, <3>3
  <2> QED
    BY <2>1 DEF ChunkIsOpen
<1>10. ChunksAreNamed'
  <2>1. ASSUME NEW s \in DOMAIN log'
        PROVE  (\E k \in Seen : results[k].status # 0 /\ s = StemOf(results[k].file))'
    <3>1. CASE s \in DOMAIN log
      <4>1. PICK k \in Seen : results[k].status # 0 /\ s = StemOf(results[k].file)
        BY <1>4, <3>1 DEF ChunksAreNamed
      <4> QED
        BY <1>3, <4>1
    <3>2. CASE s \notin DOMAIN log
      <4>1. s = StemOf(results[at].file)
        BY <1>2, <3>2 DEF file
      <4> QED
        BY <1>3, <1>5, <4>1
    <3> QED
      BY <3>1, <3>2
  <2>2. ASSUME NEW s \in DOMAIN log'
        PROVE  Len(log'[s]) <= world'.log_chunk_size /\ Len(log'[s]) <= Named'
    <3>1. CASE s = Current /\ Len(log'[s]) <= Filled + 1
      BY <1>1, <1>3, <1>6, <1>8, <3>1
    <3>2. CASE s \in DOMAIN log /\ Len(log'[s]) = Len(log[s])
      BY <1>1, <1>3, <1>4, <1>6, <3>2 DEF ChunksAreNamed
    <3> QED
      BY <1>2, <3>1, <3>2
  <2> QED
    BY <2>1, <2>2 DEF ChunksAreNamed
<1>11. NothingElseLogged'
  <2>1. ASSUME NEW s \in DOMAIN log', NEW i \in DOMAIN log'[s]
        PROVE  \E k \in Due' : log'[s][i] = results[k].file
    <3>1. CASE s \in DOMAIN log /\ i \in DOMAIN log[s] /\ log'[s][i] = log[s][i]
      BY <1>2, <1>4, <3>1 DEF NothingElseLogged
    <3>2. CASE Written /\ log'[s][i] = file
      BY <1>2, <3>2 DEF file
    <3> QED
      BY <1>2, <3>1, <3>2
  <2> QED
    BY <1>3, <2>1 DEF NothingElseLogged
<1>12. AllLogged'
  <2>1. ASSUME NEW k \in Due'
        PROVE  \E s \in DOMAIN log' : \E i \in DOMAIN log'[s] : log'[s][i] = results[k].file
    <3>1. CASE k \in Due
      <4>1. PICK s \in DOMAIN log : \E i \in DOMAIN log[s] : log[s][i] = results[k].file
        BY <1>4, <3>1 DEF AllLogged
      <4>2. PICK i \in DOMAIN log[s] : log[s][i] = results[k].file
        BY <4>1
      <4> QED
        BY <1>2, <4>2
    <3>2. CASE Written /\ k = at
      BY <1>2, <3>2 DEF file
    <3> QED
      BY <1>2, <2>1, <3>1, <3>2
  <2> QED
    BY <1>3, <2>1 DEF AllLogged
<1>13. LoggedOnce'
  <2>1. \A s \in DOMAIN log : \A i \in DOMAIN log[s] : log[s][i] # file
    BY <1>4, <1>6, <1>7 DEF NothingElseLogged
  <2>2. ASSUME NEW s \in DOMAIN log', NEW t \in DOMAIN log',
               NEW i \in DOMAIN log'[s], NEW j \in DOMAIN log'[t],
               log'[s][i] = log'[t][j]
        PROVE  s = t /\ i = j
    <3>1. \/ s \in DOMAIN log /\ i \in DOMAIN log[s] /\ log'[s][i] = log[s][i]
          \/ s = Current /\ i = Slot /\ log'[s][i] = file
      BY <1>2
    <3>2. \/ t \in DOMAIN log /\ j \in DOMAIN log[t] /\ log'[t][j] = log[t][j]
          \/ t = Current /\ j = Slot /\ log'[t][j] = file
      BY <1>2
    <3> QED
      BY <1>4, <2>1, <2>2, <3>1, <3>2 DEF LoggedOnce
  <2> QED
    BY <2>2 DEF LoggedOnce
<1> QED
  BY <1>9, <1>10, <1>11, <1>12, <1>13

\* Every step keeps the logs whole.
LEMMA LogsKept == ASSUME IInv, Tally, Once, Logs, [Next]_vars PROVE Logs'
<1>0. DistinctStems' = DistinctStems
  <2>1. world' = world
    BY LogStep, OtherSteps
  <2> QED
    BY <2>1 DEF DistinctStems, StemOf
<1>1. CASE LogResult
  <2>1. phase' = "logging" /\ Writing
    BY <1>1, LogStep DEF Writing
  <2>2. CASE results[at].status = 0
    <3>1. /\ log' = log /\ chunk' = chunk /\ Due' = Due
          /\ Named' = Named /\ Filled' = Filled
      BY <1>1, <2>2, SkippedStep
    <3>2. /\ world' = world /\ results' = results /\ Seen' = Seen \cup {at}
          /\ \A g : StemOf(g)' = StemOf(g)
      BY <1>1, LogStep
    <3>3. ASSUME DistinctStems PROVE ChunksAreNamed'
      BY <2>1, <3>1, <3>2, <3>3 DEF Logs, ChunksAreNamed
    <3>4. ASSUME DistinctStems
          PROVE  (ChunkIsOpen /\ NothingElseLogged /\ AllLogged /\ LoggedOnce)'
      BY <2>1, <3>1, <3>2, <3>4 DEF Logs, ChunkIsOpen, NothingElseLogged, AllLogged, LoggedOnce
    <3> QED
      BY <1>0, <2>1, <3>3, <3>4 DEF Logs
  <2>3. CASE results[at].status # 0
    BY <1>0, <1>1, <2>1, <2>3, NamedLogs DEF Logs
  <2> QED
    BY <2>2, <2>3
<1>2. CASE Tested
  <2>1. log = << >> /\ log' = log
    BY <1>2 DEF Tested, Logs
  <2>2. Seen' = {} /\ Due' = {}
    <3>1. Seen' = {}
      BY <1>2 DEF IInv, AtRange, Tested, Seen, Ended, TypeOK
    <3> QED
      BY <3>1 DEF Due
  <2>3. Filled' = 0
    <3>1. Named = 0
      BY <1>2 DEF Tally, Tested, Ended, IInv, AtRange, Named, TypeOK
    <3>2. Filled' = Filled
      BY <1>2 DEF Tested, Filled, Named
    <3>3. world.log_chunk_size \in Nat \ {0}
      BY TestRunAssumption DEF IInv, TypeOK
    <3> QED
      BY <3>1, <3>2, <3>3 DEF Filled
  <2>4. phase' = "logging"
    BY <1>2 DEF Tested
  <2> QED
    BY <2>1, <2>2, <2>3, <2>4
       DEF Logs, ChunkIsOpen, ChunksAreNamed, NothingElseLogged, AllLogged, LoggedOnce
<1>3. CASE \/ Refuse \/ Setup \/ Abort \/ \E f \in File : Test(f)
  <2>1. ~Writing'
    BY <1>3 DEF Refuse, Setup, Abort, Test, Writing, Ended
  <2>2. phase' = "testing" => log' = << >>
    BY <1>3 DEF Refuse, Setup, Abort, Test, Logs
  <2> QED
    BY <2>1, <2>2 DEF Logs
<1>4. CASE \/ Logged \/ SaveFile \/ Saved \/ UNCHANGED vars
  <2>1. /\ log' = log /\ chunk' = chunk /\ world' = world /\ results' = results
        /\ phase' = "testing" => phase = "testing"
        /\ Writing' => Writing
    BY <1>4 DEF Logged, SaveFile, Saved, vars, Writing, Ended
  <2>2. Seen' = Seen /\ Named' = Named /\ Filled' = Filled
    <3>1. ~LogResult
      BY <1>4 DEF Logged, SaveFile, Saved, LogResult, vars, IInv, TypeOK
    <3> QED
      BY <3>1, OtherSteps
  <2>3. Due' = Due
    BY <2>1, <2>2 DEF Due
  <2>4. \A g : StemOf(g)' = StemOf(g)
    BY <2>1 DEF StemOf
  <2>5. ASSUME DistinctStems, Writing PROVE ChunksAreNamed'
    BY <2>1, <2>2, <2>4, <2>5 DEF Logs, ChunksAreNamed
  <2>6. ASSUME DistinctStems, Writing
        PROVE  (ChunkIsOpen /\ NothingElseLogged /\ AllLogged /\ LoggedOnce)'
    BY <2>1, <2>2, <2>3, <2>6
       DEF Logs, ChunkIsOpen, NothingElseLogged, AllLogged, LoggedOnce
  <2> QED
    BY <1>0, <2>1, <2>5, <2>6 DEF Logs
<1> QED
  BY <1>1, <1>2, <1>3, <1>4 DEF Next

\* Nothing is counted or logged when the command starts.
LEMMA InitLogInv == Init => LogInv
<1> SUFFICES ASSUME Init PROVE LogInv
  OBVIOUS
<1>1. IInv
  BY InitIInv
<1>2. Seen = {} /\ \A s : Verdicts(s) = {}
  BY DEF Init, Seen, Verdicts, Ended
<1>3. Tally
  <2>1. Verdicts(1) = {} /\ Verdicts(-1) = {} /\ Verdicts(0) = {}
    BY <1>2
  <2>2. /\ count.passed = 0 /\ count.failed = 0 /\ count.skipped = 0
        /\ phase = "setup" /\ at = 1
    BY DEF Init
  <2>3. Cardinality({}) = 0
    BY FS_EmptySet
  <2> QED
    BY <2>1, <2>2, <2>3 DEF Tally, Named, Ended
<1>4. Once
  BY DEF Init, Once, Writing, Ended
<1>5. Logs
  BY DEF Init, Logs, Writing, Ended
<1> QED
  BY <1>1, <1>3, <1>4, <1>5 DEF LogInv

\* The invariant of counts and logs holds in every behaviour of run-tests.
THEOREM LogInvariance == Spec => []LogInv
<1>1. LogInv /\ [Next]_vars => LogInv'
  BY NextIInv, TallyKept, OnceKept, LogsKept DEF LogInv
<1> QED
  BY <1>1, InitLogInv, PTL DEF Spec

-----------------------------------------------------------------------------
\* As many results as files of one kind.
LEMMA FilesOf ==
    ASSUME IInv, Once, ~world.fail_early, InputFiles \subseteq Answered,
           NEW S \in SUBSET DOMAIN results, NEW T \in SUBSET InputFiles,
           \A k \in DOMAIN results : k \in S <=> results[k].file \in T
    PROVE  Cardinality(T) = Cardinality(S)
<1> DEFINE m == [k \in S |-> results[k].file]
<1>1. IsFiniteSet(S)
  <2>1. DOMAIN results = 1..Len(results) /\ Len(results) \in Nat
    BY DEF IInv, TypeOK
  <2>2. IsFiniteSet(DOMAIN results)
    BY <2>1, FS_Interval
  <2> QED
    BY <2>2, FS_Subset
<1>2. \A k, l \in S : m[k] = m[l] => k = l
  BY DEF Once
<1>3. m \in [S -> T]
  OBVIOUS
<1>4. \A f \in T : \E k \in S : m[k] = f
  <2> TAKE f \in T
  <2>1. PICK k \in DOMAIN results : results[k].file = f
    BY DEF Answered
  <2> QED
    BY <2>1
<1> HIDE DEF m
<1>5. m \in Injection(S, T) /\ m \in Surjection(S, T)
  BY <1>2, <1>3, <1>4 DEF Injection, IsInjective, Surjection
<1> QED
  BY <1>1, <1>5, FS_Surjection

\* The tally, when every result was gone through.
LEMMA CountedWhenDone == ASSUME IInv, Tally, Once PROVE CountsAreRight
<1> SUFFICES ASSUME phase = "done"
             PROVE  IF world.fail_early
                    THEN /\ count.failed <= 1
                         /\ count.failed = 1 => results[Len(results)].status = -1
                         /\ count.passed + count.failed + count.skipped = Len(results)
                    ELSE /\ count.passed = Cardinality({f \in InputFiles : Conforms(f)})
                         /\ count.skipped = Cardinality({f \in InputFiles : ~Accepted(f)})
                         /\ count.failed =
                              Cardinality({f \in InputFiles : Accepted(f) /\ ~Conforms(f)})
  BY DEF CountsAreRight
<1>1. \A s : Verdicts(s) = {k \in DOMAIN results : results[k].status = s}
  BY DEF Verdicts, Seen, Ended
<1>2. /\ count.passed = Cardinality(Verdicts(1))
      /\ count.failed = Cardinality(Verdicts(-1))
      /\ count.skipped = Cardinality(Verdicts(0))
  BY DEF Tally
<1>3. CASE world.fail_early
  <2> DEFINE last == Len(results)
  <2>1. Verdicts(-1) \in SUBSET {last}
    BY <1>1, <1>3 DEF Once
  <2>2. IsFiniteSet({last}) /\ Cardinality({last}) = 1
    BY FS_Singleton
  <2>3. Cardinality(Verdicts(-1)) <= 1
    <3> HIDE DEF last
    <3> QED
      BY <2>1, <2>2, FS_Subset
  <2>4. Cardinality(Verdicts(-1)) = 1 => last \in Verdicts(-1)
    <3>1. Verdicts(-1) = {} => Cardinality(Verdicts(-1)) = 0
      BY FS_EmptySet
    <3> QED
      BY <2>1, <3>1
  <2>5. count.passed + count.failed + count.skipped = Len(results)
    BY DEF Tally, Named, Ended
  <2> QED
    BY <1>1, <1>2, <1>3, <2>3, <2>4, <2>5
<1>4. CASE ~world.fail_early
  <2>1. InputFiles \subseteq Answered
    BY <1>4 DEF Once, Writing, Ended
  <2>2. \A s : Verdicts(s) \in SUBSET DOMAIN results
    BY <1>1
  <2>3. Cardinality({f \in InputFiles : Conforms(f)}) = Cardinality(Verdicts(1))
    <3> DEFINE T == {f \in InputFiles : Conforms(f)}
    <3>1. T \in SUBSET InputFiles
      OBVIOUS
    <3>2. \A k \in DOMAIN results : k \in Verdicts(1) <=> results[k].file \in T
      BY <1>1, StatusSays
    <3> HIDE DEF T
    <3>3. Cardinality(T) = Cardinality(Verdicts(1))
      BY <1>4, <2>1, <2>2, <3>1, <3>2, FilesOf
    <3> QED
      BY <3>3 DEF T
  <2>4. Cardinality({f \in InputFiles : ~Accepted(f)}) = Cardinality(Verdicts(0))
    <3> DEFINE T == {f \in InputFiles : ~Accepted(f)}
    <3>1. T \in SUBSET InputFiles
      OBVIOUS
    <3>2. \A k \in DOMAIN results : k \in Verdicts(0) <=> results[k].file \in T
      BY <1>1, StatusSays
    <3> HIDE DEF T
    <3>3. Cardinality(T) = Cardinality(Verdicts(0))
      BY <1>4, <2>1, <2>2, <3>1, <3>2, FilesOf
    <3> QED
      BY <3>3 DEF T
  <2>5. Cardinality({f \in InputFiles : Accepted(f) /\ ~Conforms(f)}) = Cardinality(Verdicts(-1))
    <3> DEFINE T == {f \in InputFiles : Accepted(f) /\ ~Conforms(f)}
    <3>1. T \in SUBSET InputFiles
      OBVIOUS
    <3>2. \A k \in DOMAIN results : k \in Verdicts(-1) <=> results[k].file \in T
      BY <1>1, StatusSays
    <3> HIDE DEF T
    <3>3. Cardinality(T) = Cardinality(Verdicts(-1))
      BY <1>4, <2>1, <2>2, <3>1, <3>2, FilesOf
    <3> QED
      BY <3>3 DEF T
  <2> QED
    BY <1>2, <1>4, <2>3, <2>4, <2>5
<1> QED
  BY <1>3, <1>4

\* log_utils.py:77.  The counts are those of the conforming, diverging and
\* skipped files; with --fail-early at most one failure is counted, last.
THEOREM CountsAreRightHolds == Spec => []CountsAreRight
<1>1. LogInv => CountsAreRight
  BY CountedWhenDone DEF LogInv
<1> QED
  BY <1>1, LogInvariance, PTL

\* With distinct stems there are no more results than inputs.
LEMMA NoMoreResults ==
    ASSUME IInv, Once, DistinctStems
    PROVE  Len(results) <= Len(world.input) /\ Len(results) \in Nat /\ Len(world.input) \in Nat
<1> DEFINE place == [k \in DOMAIN results |->
                        CHOOSE j \in DOMAIN world.input : world.input[j] = results[k].file]
<1>1. /\ DOMAIN results = 1..Len(results) /\ Len(results) \in Nat
      /\ DOMAIN world.input = 1..Len(world.input) /\ Len(world.input) \in Nat
  <2>1. results \in Seq([file : File, status : {-1, 0, 1}]) /\ world.input \in Seq(File)
    BY InputTyped DEF IInv, TypeOK
  <2> QED
    BY <2>1
<1>2. \A k \in DOMAIN results : \E j \in DOMAIN world.input : world.input[j] = results[k].file
  BY DEF IInv, ResultsRight, InputFiles, Range
<1>3. \A k \in DOMAIN results : /\ place[k] \in DOMAIN world.input
                                /\ world.input[place[k]] = results[k].file
  BY <1>2
<1>4. place \in [DOMAIN results -> DOMAIN world.input]
  BY <1>3
<1> HIDE DEF place
<1>5. \A k, l \in DOMAIN results : place[k] = place[l] => k = l
  BY <1>3, StemsAreDistinct
<1>6. place \in Injection(DOMAIN results, DOMAIN world.input)
  BY <1>4, <1>5 DEF Injection, IsInjective
<1>7. /\ IsFiniteSet(DOMAIN world.input)
      /\ Cardinality(DOMAIN results) = Len(results)
      /\ Cardinality(DOMAIN world.input) = Len(world.input)
  <2>1. \A n \in Nat : IsFiniteSet(1..n) /\ Cardinality(1..n) = n
    BY FS_Interval
  <2> QED
    BY <1>1, <2>1
<1>8. Cardinality(DOMAIN results) <= Cardinality(DOMAIN world.input)
  BY <1>6, <1>7, FS_Injection
<1> QED
  BY <1>1, <1>7, <1>8

\* The logs, when every result was gone through.
LEMMA LoggedWhenDone == ASSUME LogInv PROVE LogIsCompleteWithDistinctStems
<1> SUFFICES ASSUME DistinctStems, phase = "done"
             PROVE  /\ \A f \in ToBeLogged :
                          Cardinality({p \in (DOMAIN log) \X (1..Len(world.input)) :
                              p[2] \in DOMAIN log[p[1]] /\ log[p[1]][p[2]] = f}) = 1
                    /\ \A s \in DOMAIN log : Len(log[s]) <= world.log_chunk_size
                    /\ \A s \in DOMAIN log : Range(log[s]) \subseteq ToBeLogged
  BY DEF LogIsCompleteWithDistinctStems, LogIsComplete
<1>1. /\ ChunksAreNamed /\ NothingElseLogged /\ AllLogged /\ LoggedOnce
      /\ IInv /\ Tally /\ Once
  BY DEF LogInv, Logs, Writing, Ended
<1>2. ToBeLogged = {results[k].file : k \in Due}
  BY DEF ToBeLogged, Due, Seen, Ended
<1>3. \A s \in DOMAIN log : log[s] \in Seq(File) /\ Len(log[s]) <= Len(world.input)
  <2>1. Named <= Len(results)
    <3>1. Named + count.skipped = Len(results)
      BY <1>1 DEF Tally, Ended
    <3>2. Named \in Nat /\ count.skipped \in Nat
      BY <1>1 DEF IInv, TypeOK, Named
    <3> QED
      BY <3>1, <3>2
  <2>2. Len(results) <= Len(world.input) /\ Len(results) \in Nat /\ Len(world.input) \in Nat
    BY <1>1, NoMoreResults
  <2>3. \A s \in DOMAIN log : log[s] \in Seq(File) /\ Len(log[s]) <= Named /\ Len(log[s]) \in Nat
    BY <1>1 DEF ChunksAreNamed, IInv, TypeOK
  <2>4. Named \in Nat
    BY <1>1 DEF IInv, TypeOK, Named
  <2> QED
    BY <2>1, <2>2, <2>3, <2>4
<1>4. ASSUME NEW f \in ToBeLogged
      PROVE  Cardinality({p \in (DOMAIN log) \X (1..Len(world.input)) :
                              p[2] \in DOMAIN log[p[1]] /\ log[p[1]][p[2]] = f}) = 1
  <2> DEFINE places == {p \in (DOMAIN log) \X (1..Len(world.input)) :
                              p[2] \in DOMAIN log[p[1]] /\ log[p[1]][p[2]] = f}
  <2>1. PICK k \in Due : f = results[k].file
    BY <1>2
  <2>2. PICK s \in DOMAIN log : \E i \in DOMAIN log[s] : log[s][i] = f
    BY <1>1, <2>1 DEF AllLogged
  <2>3. PICK i \in DOMAIN log[s] : log[s][i] = f
    BY <2>2
  <2>4. i \in 1..Len(world.input)
    <3>1. i \in 1..Len(log[s]) /\ Len(log[s]) <= Len(world.input) /\ Len(log[s]) \in Nat
      BY <1>3
    <3>2. Len(world.input) \in Nat
      BY <1>1, NoMoreResults
    <3> QED
      BY <3>1, <3>2
  <2> DEFINE q == <<s, i>>
  <2>5. q \in places
    BY <2>3, <2>4
  <2>6. \A p \in places : p = q
    <3> TAKE p \in places
    <3>1. /\ p = <<p[1], p[2]>> /\ p[1] \in DOMAIN log /\ p[2] \in DOMAIN log[p[1]]
          /\ log[p[1]][p[2]] = log[s][i]
      BY <2>3
    <3>2. p[1] = s /\ p[2] = i
      BY <1>1, <3>1 DEF LoggedOnce
    <3> QED
      BY <3>1, <3>2
  <2> HIDE DEF places, q
  <2>7. places = {q}
    BY <2>5, <2>6
  <2>8. Cardinality(places) = 1
    BY <2>7, FS_Singleton
  <2> QED
    BY <2>8 DEF places
<1>5. ASSUME NEW s \in DOMAIN log
      PROVE  Len(log[s]) <= world.log_chunk_size /\ Range(log[s]) \subseteq ToBeLogged
  BY <1>1, <1>2 DEF ChunksAreNamed, NothingElseLogged, Range
<1> QED
  BY <1>4, <1>5

\* log_utils.py:38-54.  With distinct stems no result falls between two
\* chunks: each is in exactly one place, and no chunk is too long.
THEOREM LogIsCompleteHolds == Spec => []LogIsCompleteWithDistinctStems
BY LogInvariance, LoggedWhenDone, PTL

-----------------------------------------------------------------------------
\* test_suite.py:2266-2313.  The steps create-env adds leave the run of the
\* tests alone, so whatever holds of run-tests holds within create-env.
THEOREM EnvImplementsRun == EnvSpec => Spec
<1>1. EnvInit => Init
  BY DEF EnvInit
<1>2. [EnvNext]_<<vars, envVars>> => [Next]_vars
  BY DEF EnvNext, BeginAdding, NothingToAdd, ListIsEmpty, AllAdded,
     AddFailure, vars, envVars
<1> QED
  BY <1>1, <1>2, PTL DEF EnvSpec, Spec

-----------------------------------------------------------------------------
(***************************************************************************)
(* create-env.  Its own steps begin when the run of the tests is over, so  *)
(* what it reads of that run no longer changes; what it appends is told    *)
(* from what the list held by position.                                    *)
(***************************************************************************)
EnvTyped ==
    /\ envPhase \in {"waiting", "adding", "done", "aborted"}
    /\ \A l \in {list, before} : l.lines \in Seq(ListEntry) /\ l.terminated \in BOOLEAN
    /\ failures \subseteq Stem \X Extension

\* How far the command is, and what that says of the run of the tests.
Stage ==
    /\ envPhase = "waiting" => list = before /\ copies = << >> /\ stray = << >>
    /\ envPhase = "adding" => phase = "done" /\ ~Verdict
    /\ envPhase = "done" => phase = "done" /\ (Verdict \/ failures = {})
    /\ envPhase = "aborted" => phase \in {"done", "aborted"}

\* The lines of this command.
NewLines == {i \in DOMAIN list.lines : i > Len(before.lines)}

\* The directory of every entry of this command.
Destination == EntryDir(Last(before.lines).dir)

\* Before the first entry the last line may have none; after it, it is there.
Extended ==
    /\ list.terminated
    /\ Len(before.lines) <= Len(list.lines)
    /\ \A i \in 1..Len(before.lines) : list.lines[i] = before.lines[i]
    /\ list.lines # << >> => EntryDir(Last(list.lines).dir) = Destination
    /\ \A i \in NewLines : list.lines[i].dir = Destination

\* What is copied, where to, and from which of the saved failures.
CopiesRight ==
    /\ DOMAIN copies \subseteq {e \in Added : e.dir \in Vectors}
    /\ \A e \in DOMAIN copies : copies[e] = saved["failed"][e.name]
    /\ DOMAIN stray \subseteq Creatable
    /\ \A dir \in DOMAIN stray : CopiedOver(dir)

\* Every entry got its turn, save the one at which the command aborts.
Arrived(e) == CopiedInto(e) \/ CopiedOver(e.dir)
AllArrived ==
    /\ envPhase # "aborted" => \A e \in Added : Arrived(e)
    /\ \E last : \A e \in Added : Arrived(e) \/ e = last

\* The failures added so far have an entry each.
NamesRight ==
    envPhase \in {"adding", "done"} /\ ~Verdict =>
        /\ failures \subseteq DOMAIN saved["failed"]
        /\ {e.name : e \in Added} = DOMAIN saved["failed"] \ failures

EnvInv ==
    /\ EnvTyped
    /\ Stage
    /\ before.terminated => Extended /\ CopiesRight /\ AllArrived /\ NamesRight

\* The entries of this command, by position.
LEMMA AddedIs ==
    ASSUME EnvTyped
    PROVE  Added = {list.lines[i] : i \in NewLines}
<1>1. list.lines \in Seq(ListEntry) /\ before.lines \in Seq(ListEntry)
  BY DEF EnvTyped
<1>2. Len(before.lines) \in Nat
  BY <1>1
<1> QED
  BY <1>1, <1>2, RangeAfter DEF Added, NewLines

\* The same of the state after a step.
LEMMA AddedWillBe ==
    ASSUME EnvTyped'
    PROVE  Added' = {list'.lines[i] : i \in NewLines'}
<1>1. list'.lines \in Seq(ListEntry) /\ before'.lines \in Seq(ListEntry)
  BY DEF EnvTyped
<1>2. Len(before'.lines) \in Nat
  BY <1>1
<1> QED
  BY <1>1, <1>2, RangeAfter DEF Added, NewLines

\* The command starts with nothing selected and nothing copied.
LEMMA InitEnvInv == EnvInit => EnvInv
<1> SUFFICES ASSUME EnvInit PROVE EnvInv
  OBVIOUS
<1>1. /\ list = [lines |-> << >>, terminated |-> TRUE] /\ before = list
      /\ failures = {} /\ copies = << >> /\ stray = << >> /\ envPhase = "waiting"
  BY DEF EnvInit
<1>2. EnvTyped
  <2>1. << >> \in Seq(ListEntry)
    OBVIOUS
  <2> QED
    BY <1>1, <2>1 DEF EnvTyped
<1>3. Stage
  BY <1>1 DEF Stage
<1>4. NewLines = {} /\ Added = {}
  <2>1. NewLines = {}
    BY <1>1 DEF NewLines
  <2> QED
    BY <1>2, <2>1, AddedIs
<1>5. Extended
  BY <1>1, <1>4 DEF Extended
<1>6. CopiesRight /\ AllArrived /\ NamesRight
  BY <1>1, <1>4 DEF CopiesRight, AllArrived, NamesRight
<1> QED
  BY <1>2, <1>3, <1>5, <1>6 DEF EnvInv

\* A step of the run of the tests: create-env is still waiting.
LEMMA RunStep == ASSUME IInv, EnvInv, Next, UNCHANGED envVars PROVE EnvInv'
<1>1. envPhase = "waiting"
  <2>1. phase \notin {"done", "aborted"}
    BY DEF Next, Refuse, Setup, Abort, Tested, LogResult, Logged, SaveFile, Saved, Test
  <2> QED
    BY <2>1 DEF EnvInv, EnvTyped, Stage
<1>2. /\ envPhase' = "waiting" /\ list' = list /\ before' = before
      /\ failures' = failures /\ copies' = copies /\ stray' = stray
      /\ Added' = Added /\ NewLines' = NewLines
  BY <1>1 DEF envVars, Added, NewLines
<1>3. /\ list = before /\ copies = << >> /\ stray = << >>
      /\ NewLines = {} /\ Added = {}
  <2>1. list = before /\ copies = << >> /\ stray = << >>
    BY <1>1 DEF EnvInv, Stage
  <2>2. EnvTyped /\ before.lines \in Seq(ListEntry)
    BY DEF EnvInv, EnvTyped
  <2>3. Len(before.lines) \in Nat /\ DOMAIN before.lines = 1..Len(before.lines)
    <3> HIDE DEF ListEntry
    <3> QED
      BY <2>2
  <2>4. NewLines = {}
    BY <2>1, <2>3 DEF NewLines
  <2> QED
    BY <2>1, <2>2, <2>4, AddedIs
<1>4. EnvTyped' /\ Stage'
  BY <1>1, <1>2 DEF EnvInv, EnvTyped, Stage
<1>5. CopiesRight' /\ AllArrived'
  BY <1>2, <1>3 DEF CopiesRight, AllArrived
<1>6. ASSUME before.terminated PROVE Extended'
  BY <1>2, <1>6 DEF EnvInv, Extended, Destination
<1>7. NamesRight'
  BY <1>1, <1>2 DEF NamesRight
<1> QED
  BY <1>2, <1>4, <1>5, <1>6, <1>7 DEF EnvInv

\* A list is selected: whatever it holds, nothing was added to it.
LEMMA BeginStep == ASSUME IInv, EnvInv, BeginAdding PROVE EnvInv'
<1>1. /\ envPhase' = "adding" /\ phase = "done" /\ ~Verdict
      /\ list' \in Lists /\ before' = list' /\ failures' = DOMAIN saved["failed"]
      /\ copies' = << >> /\ stray' = << >> /\ UNCHANGED vars
  BY DEF BeginAdding, EnvInv, Stage
<1>2. EnvTyped'
  <2>1. /\ list'.terminated \in BOOLEAN /\ list'.lines \in Seq(ListEntry)
    BY <1>1, CreateEnvAssumption
  <2>2. failures' \subseteq Stem \X Extension
    BY <1>1 DEF IInv, TypeOK
  <2> HIDE DEF ListEntry
  <2>3. \A l \in {list', before'} : l.lines \in Seq(ListEntry) /\ l.terminated \in BOOLEAN
    BY <1>1, <2>1
  <2> QED
    BY <1>1, <2>2, <2>3 DEF EnvTyped
<1>3. Verdict' = Verdict /\ phase' = phase /\ saved' = saved
  BY <1>1 DEF vars, Verdict
<1>4. Stage'
  BY <1>1, <1>3 DEF Stage
<1>5. NewLines' = {} /\ Added' = {} /\ Len(list'.lines) \in Nat
  <2>1. Len(list'.lines) \in Nat /\ DOMAIN list'.lines = 1..Len(list'.lines)
    <3>1. list'.lines \in Seq(ListEntry)
      BY <1>2 DEF EnvTyped
    <3> HIDE DEF ListEntry
    <3> QED
      BY <3>1
  <2>2. NewLines' = {}
    BY <1>1, <2>1 DEF NewLines
  <2>3. Added' = {list'.lines[i] : i \in NewLines'}
    BY <1>2, AddedWillBe
  <2> QED
    BY <2>1, <2>2, <2>3
<1>6. ASSUME before'.terminated PROVE Extended'
  BY <1>1, <1>5, <1>6 DEF Extended, Destination
<1>7. CopiesRight' /\ AllArrived' /\ NamesRight'
  BY <1>1, <1>3, <1>5 DEF CopiesRight, AllArrived, NamesRight
<1> QED
  BY <1>2, <1>4, <1>6, <1>7 DEF EnvInv

\* The steps that only go from one stage to the next.
LEMMA StageStep ==
    ASSUME EnvInv, NothingToAdd \/ ListIsEmpty \/ AllAdded \/ UNCHANGED <<vars, envVars>>
    PROVE  EnvInv'
<1>1. /\ list' = list /\ before' = before /\ failures' = failures
      /\ copies' = copies /\ stray' = stray /\ UNCHANGED vars
      /\ envPhase' = envPhase \/ envPhase' \in {"done", "aborted"}
  BY DEF NothingToAdd, ListIsEmpty, AllAdded, envVars
<1>2. /\ Verdict' = Verdict /\ phase' = phase /\ saved' = saved
      /\ Added' = Added /\ NewLines' = NewLines
  BY <1>1 DEF vars, Verdict, Added, NewLines
<1>3. EnvTyped'
  BY <1>1 DEF EnvInv, EnvTyped
<1>4. Stage'
  BY <1>1, <1>2 DEF NothingToAdd, ListIsEmpty, AllAdded, EnvInv, EnvTyped, Stage, envVars
<1>5. ASSUME before.terminated PROVE Extended'
  BY <1>1, <1>2, <1>5 DEF EnvInv, Extended, Destination
<1>6. envPhase' # "aborted" => envPhase # "aborted"
  BY DEF NothingToAdd, ListIsEmpty, AllAdded, envVars
<1>7. envPhase' \in {"adding", "done"} /\ ~Verdict => envPhase \in {"adding", "done"}
  BY DEF NothingToAdd, ListIsEmpty, AllAdded, envVars
<1>8. ASSUME before.terminated PROVE CopiesRight' /\ AllArrived' /\ NamesRight'
  <2>1. /\ \A e : CopiedInto(e)' <=> CopiedInto(e)
        /\ \A dir : CopiedOver(dir)' <=> CopiedOver(dir)
        /\ \A e : Arrived(e)' <=> Arrived(e)
    BY <1>1, <1>2 DEF CopiedInto, CopiedOver, Arrived
  <2>2. CopiesRight'
    BY <1>1, <1>2, <1>8, <2>1 DEF EnvInv, CopiesRight
  <2>3. AllArrived'
    BY <1>2, <1>6, <1>8, <2>1 DEF EnvInv, AllArrived
  <2> QED
    BY <1>1, <1>2, <1>7, <1>8, <2>2, <2>3 DEF EnvInv, NamesRight
<1> QED
  BY <1>1, <1>3, <1>4, <1>5, <1>8 DEF EnvInv

\* One failure is appended, and copied or not.
LEMMA AddStep ==
    ASSUME IInv, EnvInv, NEW n \in Stem \X Extension, AddFailure(n)
    PROVE  EnvInv'
<1> DEFINE entry == [dir |-> EntryDir(Last(list.lines).dir), name |-> n]
           d == saved["failed"]
<1>1. /\ envPhase = "adding" /\ n \in failures /\ list.lines # << >>
      /\ failures' = failures \ {n} /\ before' = before /\ UNCHANGED vars
      /\ \/ /\ entry.dir \in Vectors /\ copies' = Put(copies, entry, d[n])
            /\ envPhase' = "adding" /\ stray' = stray
         \/ /\ entry.dir \in Creatable /\ stray' = Put(stray, entry.dir, d[n])
            /\ envPhase' = "adding" /\ copies' = copies
         \/ /\ envPhase' = "aborted" /\ copies' = copies /\ stray' = stray
  BY DEF AddFailure
<1>0. PICK shared \in Directory : list' = Appended(entry, shared)
  BY DEF AddFailure
<1>2. Verdict' = Verdict /\ phase' = phase /\ saved' = saved
  BY <1>1 DEF vars, Verdict
<1>3. /\ list.lines \in Seq(ListEntry) /\ before.lines \in Seq(ListEntry)
      /\ list.terminated \in BOOLEAN /\ before.terminated \in BOOLEAN
  BY DEF EnvInv, EnvTyped
<1>4. /\ Len(list.lines) \in Nat /\ Len(list.lines) > 0
      /\ DOMAIN list.lines = 1..Len(list.lines)
      /\ Len(before.lines) \in Nat
  <2> HIDE DEF ListEntry
  <2> QED
    BY <1>1, <1>3
<1>5. entry \in ListEntry
  <2>1. Len(list.lines) \in DOMAIN list.lines
    BY <1>4
  <2>2. list.lines[Len(list.lines)] \in ListEntry
    <3> HIDE DEF ListEntry
    <3> QED
      BY <1>3, <2>1, ElementOf
  <2> QED
    BY <2>2, CreateEnvAssumption DEF ListEntry, Last, EntryDir
<1>6. /\ list'.terminated = TRUE
      /\ \/ list'.lines = Append(list.lines, entry)
         \/ /\ ~list.terminated
            /\ list'.lines = [list.lines EXCEPT ![Len(list.lines)] = [dir |-> shared, name |-> n]]
  BY <1>0, <1>1 DEF Appended
<1>7. list'.lines \in Seq(ListEntry)
  <2>1. [dir |-> shared, name |-> n] \in ListEntry
    BY <1>0 DEF ListEntry
  <2> DEFINE g == [dir |-> shared, name |-> n]
  <2> HIDE DEF ListEntry, g, entry
  <2>2. Append(list.lines, entry) \in Seq(ListEntry)
    BY <1>3, <1>5
  <2>3. [list.lines EXCEPT ![Len(list.lines)] = g] \in Seq(ListEntry)
    <3>1. g \in ListEntry
      BY <2>1 DEF g
    <3>2. list.lines \in [1..Len(list.lines) -> ListEntry]
      BY <1>3, LenProperties
    <3>3. [list.lines EXCEPT ![Len(list.lines)] = g] \in [1..Len(list.lines) -> ListEntry]
      BY <3>1, <3>2
    <3> DEFINE k == Len(list.lines)
               f == [list.lines EXCEPT ![k] = g]
    <3>4. k \in Nat /\ f \in [1..k -> ListEntry]
      BY <1>4, <3>3
    <3> HIDE DEF k, f
    <3>5. f \in Seq(ListEntry)
      BY <3>4
    <3> QED
      BY <3>5 DEF f, k
  <2> QED
    BY <1>6, <2>2, <2>3 DEF g
<1>8. EnvTyped'
  <2>1. \A l \in {list', before'} : l.lines \in Seq(ListEntry) /\ l.terminated \in BOOLEAN
    <3> HIDE DEF ListEntry
    <3> QED
      BY <1>1, <1>3, <1>6, <1>7
  <2>2. failures' \subseteq Stem \X Extension
    BY <1>1 DEF EnvInv, EnvTyped
  <2> QED
    BY <1>1, <2>1, <2>2 DEF EnvTyped
<1>9. Stage'
  BY <1>1, <1>2 DEF EnvInv, Stage
<1>10. ASSUME before.terminated PROVE Extended' /\ CopiesRight' /\ AllArrived' /\ NamesRight'
  <2>1. Extended /\ CopiesRight /\ AllArrived /\ NamesRight
    BY <1>10 DEF EnvInv
  <2>2. list'.lines = Append(list.lines, entry)
    BY <1>6, <2>1 DEF Extended
  <2>3. /\ Len(list'.lines) = Len(list.lines) + 1
        /\ DOMAIN list'.lines = DOMAIN list.lines \cup {Len(list.lines) + 1}
        /\ \A i \in DOMAIN list.lines : list'.lines[i] = list.lines[i]
        /\ list'.lines[Len(list.lines) + 1] = entry
    <3> HIDE DEF ListEntry, entry
    <3> QED
      BY <1>3, <1>4, <1>5, <2>2
  <2>4. entry.dir = Destination /\ Destination' = Destination
    BY <1>1, <2>1 DEF Extended, Destination
  <2>5. NewLines' = NewLines \cup {Len(list.lines) + 1}
    <3>1. Len(before.lines) <= Len(list.lines)
      BY <2>1 DEF Extended
    <3> QED
      BY <1>1, <1>4, <2>3, <3>1 DEF NewLines
  <2>6. Added' = Added \cup {entry}
    <3>1. Added = {list.lines[i] : i \in NewLines} /\ Added' = {list'.lines[i] : i \in NewLines'}
      BY <1>8, AddedIs, AddedWillBe DEF EnvInv
    <3>2. NewLines \subseteq DOMAIN list.lines
      BY DEF NewLines
    <3> HIDE DEF entry
    <3> QED
      BY <2>3, <2>5, <3>1, <3>2
  <2>7. Extended'
    <3>1. EntryDir(Last(list'.lines).dir) = Destination'
      <4>1. Last(list'.lines) = entry
        BY <2>3 DEF Last
      <4>2. EntryDir(Destination) = Destination
        BY DEF Destination, EntryDir
      <4> QED
        BY <2>4, <4>1, <4>2
    <3>2. \A i \in NewLines' : list'.lines[i].dir = Destination'
      <4>1. NewLines \subseteq DOMAIN list.lines
        BY DEF NewLines
      <4> HIDE DEF entry
      <4> QED
        BY <1>1, <2>1, <2>3, <2>4, <2>5, <4>1 DEF Extended
    <3>3. Len(before'.lines) <= Len(list'.lines)
      BY <1>1, <1>4, <2>1, <2>3 DEF Extended
    <3>4. \A i \in 1..Len(before'.lines) : list'.lines[i] = before'.lines[i]
      <4>1. \A i \in 1..Len(before.lines) : /\ list.lines[i] = before.lines[i]
                                            /\ i \in DOMAIN list.lines
        BY <1>4, <2>1 DEF Extended
      <4> HIDE DEF entry
      <4> QED
        BY <1>1, <2>3, <4>1
    <3> QED
      BY <1>6, <3>1, <3>2, <3>3, <3>4 DEF Extended
  <2> HIDE DEF entry
  <2>8. PICK fresh : fresh = entry
    OBVIOUS
  <2>9. /\ fresh.name = n /\ Added' = Added \cup {fresh}
        /\ \/ /\ fresh.dir \in Vectors /\ copies' = Put(copies, fresh, d[n])
              /\ envPhase' = "adding" /\ stray' = stray
           \/ /\ fresh.dir \in Creatable /\ stray' = Put(stray, fresh.dir, d[n])
              /\ envPhase' = "adding" /\ copies' = copies
           \/ /\ envPhase' = "aborted" /\ copies' = copies /\ stray' = stray
    <3>1. fresh.name = n
      BY <2>8 DEF entry
    <3> QED
      BY <1>1, <2>6, <2>8, <3>1
  <2>10. \A e \in Added : CopiedInto(e) => CopiedInto(e)'
    <3> SUFFICES ASSUME NEW e \in Added, CopiedInto(e) PROVE CopiedInto(e)'
      OBVIOUS
    <3>1. e \in DOMAIN copies' /\ copies'[e] = d[e.name]
      BY <2>9 DEF CopiedInto, Put
    <3> QED
      BY <1>2, <3>1 DEF CopiedInto
  <2>11. \A dir : CopiedOver(dir) => CopiedOver(dir)'
    <3> SUFFICES ASSUME NEW dir, CopiedOver(dir) PROVE CopiedOver(dir)'
      OBVIOUS
    <3>1. PICK e \in Added : e.dir = dir /\ stray[dir] = d[e.name]
      BY DEF CopiedOver
    <3>2. CASE stray' = stray
      BY <1>2, <2>9, <3>1, <3>2 DEF CopiedOver
    <3>3. CASE stray' = Put(stray, fresh.dir, d[n]) /\ dir = fresh.dir
      <4>1. dir \in DOMAIN stray' /\ stray'[dir] = d[fresh.name] /\ fresh.name = n
        BY <2>9, <3>3 DEF Put
      <4> QED
        BY <1>2, <2>9, <3>3, <4>1 DEF CopiedOver
    <3>4. CASE stray' = Put(stray, fresh.dir, d[n]) /\ dir # fresh.dir
      <4>1. dir \in DOMAIN stray' /\ stray'[dir] = stray[dir]
        BY <3>4 DEF Put, CopiedOver
      <4> QED
        BY <1>2, <2>9, <3>1, <4>1 DEF CopiedOver
    <3> QED
      BY <2>9, <3>2, <3>3, <3>4
  <2>12. envPhase' # "aborted" => (CopiedInto(fresh) \/ CopiedOver(fresh.dir))'
    <3>1. CASE copies' = Put(copies, fresh, d[n])
      <4>1. fresh \in DOMAIN copies' /\ copies'[fresh] = d[fresh.name]
        BY <2>9, <3>1 DEF Put
      <4>2. fresh \in DOMAIN copies' /\ copies'[fresh] = saved'["failed"][fresh.name]
        BY <1>2, <4>1
      <4> QED
        BY <4>2 DEF CopiedInto
    <3>2. CASE stray' = Put(stray, fresh.dir, d[n])
      <4>1. fresh.dir \in DOMAIN stray' /\ stray'[fresh.dir] = d[fresh.name]
        BY <2>9, <3>2 DEF Put
      <4> QED
        BY <1>2, <2>9, <4>1 DEF CopiedOver
    <3> QED
      BY <2>9, <3>1, <3>2
  <2>13. CopiesRight'
    <3>1. DOMAIN copies' \subseteq {e \in Added' : e.dir \in Vectors}
      BY <2>1, <2>9 DEF CopiesRight, Put
    <3>2. \A e \in DOMAIN copies' : copies'[e] = saved'["failed"][e.name]
      BY <1>2, <2>1, <2>9 DEF CopiesRight, Put
    <3>3. DOMAIN stray' \subseteq Creatable
      BY <2>1, <2>9 DEF CopiesRight, Put
    <3>4. \A dir \in DOMAIN stray' : CopiedOver(dir)'
      <4>1. \A dir \in DOMAIN stray : CopiedOver(dir)'
        BY <2>1, <2>11 DEF CopiesRight
      <4>2. CASE stray' = stray
        BY <4>1, <4>2
      <4>3. CASE fresh.dir \in Creatable /\ stray' = Put(stray, fresh.dir, d[n])
                 /\ envPhase' = "adding" /\ copies' = copies
        <5>1. ~(CopiedInto(fresh)') \/ fresh.dir \in Vectors
          BY <4>3, <2>1 DEF CopiedInto, CopiesRight
        <5>2. CopiedOver(fresh.dir)'
          BY <2>12, <4>3, <5>1, CreateEnvAssumption
        <5>3. DOMAIN stray' = DOMAIN stray \cup {fresh.dir}
          BY <4>3 DEF Put
        <5> QED
          BY <4>1, <5>2, <5>3
      <4> QED
        BY <2>9, <4>1, <4>2, <4>3
    <3> QED
      BY <3>1, <3>2, <3>3, <3>4 DEF CopiesRight
  <2>14. AllArrived'
    <3>1. \A e \in Added : Arrived(e)
      BY <1>1, <2>1 DEF AllArrived
    <3>2. \A e \in Added : Arrived(e)'
      BY <2>10, <2>11, <3>1 DEF Arrived
    <3>3. envPhase' # "aborted" => Arrived(fresh)'
      BY <2>12 DEF Arrived
    <3> QED
      BY <2>9, <3>2, <3>3 DEF AllArrived
  <2>15. NamesRight'
    <3>1. ~Verdict
      BY <1>1 DEF EnvInv, Stage
    <3>2. failures \subseteq DOMAIN d /\ {e.name : e \in Added} = DOMAIN d \ failures
      BY <1>1, <2>1, <3>1 DEF NamesRight
    <3>3. entry.name = n
      BY DEF entry
    <3>4. {e.name : e \in Added'} = {e.name : e \in Added} \cup {n}
      BY <2>6, <3>3
    <3>5. {e.name : e \in Added'} = DOMAIN d \ failures'
      <4> DEFINE old == {e.name : e \in Added}
                 new == {e.name : e \in Added'}
      <4> HIDE DEF old, new
      <4>1. new = old \cup {n} /\ old = DOMAIN d \ failures
        BY <3>2, <3>4 DEF old, new
      <4>2. new = DOMAIN d \ failures'
        BY <1>1, <3>2, <4>1
      <4> QED
        BY <4>2 DEF new
    <3> QED
      BY <1>1, <1>2, <3>2, <3>5 DEF NamesRight
  <2> QED
    BY <2>7, <2>13, <2>14, <2>15
<1> QED
  BY <1>1, <1>8, <1>9, <1>10 DEF EnvInv

\* Every step of create-env keeps its invariant.
LEMMA EnvNextInv ==
    ASSUME IInv, EnvInv, [EnvNext]_<<vars, envVars>>
    PROVE  EnvInv'
<1>1. CASE Next /\ UNCHANGED envVars
  BY <1>1, RunStep
<1>2. CASE BeginAdding
  BY <1>2, BeginStep
<1>3. CASE NothingToAdd \/ ListIsEmpty \/ AllAdded \/ UNCHANGED <<vars, envVars>>
  BY <1>3, StageStep
<1>4. ASSUME NEW n \in Stem \X Extension, AddFailure(n) PROVE EnvInv'
  BY <1>4, AddStep
<1> QED
  BY <1>1, <1>2, <1>3, <1>4 DEF EnvNext

\* What the invariant says of the list as it stands.
LEMMA ListedWhenInv == ASSUME EnvInv PROVE ListedIsCopied
<1> SUFFICES ASSUME before.terminated
             PROVE  /\ IsPrefix(before.lines, list.lines)
                    /\ \A e \in Added : e.dir = Destination
                    /\ DOMAIN copies \subseteq {e \in Added : e.dir \in Vectors}
                    /\ DOMAIN stray \subseteq {e.dir : e \in Added} \cap Creatable
                    /\ Cardinality({e \in Added : ~CopiedInto(e) /\ ~CopiedOver(e.dir)}) <= 1
                    /\ envPhase = "done" /\ ~Verdict =>
                          /\ \A e \in Added : CopiedInto(e) \/ CopiedOver(e.dir)
                          /\ {e.name : e \in Added} = DOMAIN saved["failed"]
  BY DEF ListedIsCopied, Destination
<1>1. EnvTyped /\ Stage /\ Extended /\ CopiesRight /\ AllArrived /\ NamesRight
  BY DEF EnvInv
<1>2. IsPrefix(before.lines, list.lines)
  <2> DEFINE m == Len(before.lines)
             p == SubSeq(before.lines, 1, m)
             q == SubSeq(list.lines, 1, m)
  <2>1. /\ m \in Nat /\ m <= Len(list.lines) /\ Len(list.lines) \in Nat
        /\ \A i \in 1..m : /\ before.lines[i] \in ListEntry
                           /\ list.lines[i] \in ListEntry
                           /\ list.lines[i] = before.lines[i]
    <3>1. before.lines \in Seq(ListEntry) /\ list.lines \in Seq(ListEntry)
      BY <1>1 DEF EnvTyped
    <3>2. m <= Len(list.lines) /\ \A i \in 1..m : list.lines[i] = before.lines[i]
      BY <1>1 DEF Extended
    <3> HIDE DEF ListEntry
    <3> QED
      BY <3>1, <3>2
  <2> HIDE DEF ListEntry, m
  <2>2. /\ p \in Seq(ListEntry) /\ q \in Seq(ListEntry)
        /\ Len(p) = m /\ Len(q) = m
        /\ \A i \in 1..m : p[i] = before.lines[i] /\ q[i] = list.lines[i]
    <3>1. /\ p \in Seq(ListEntry) /\ Len(p) = IF 1 <= m THEN m - 1 + 1 ELSE 0
          /\ \A i \in 1..(m - 1 + 1) : p[i] = before.lines[1 + i - 1]
      BY <2>1, SubSeqProperties
    <3>2. /\ q \in Seq(ListEntry) /\ Len(q) = IF 1 <= m THEN m - 1 + 1 ELSE 0
          /\ \A i \in 1..(m - 1 + 1) : q[i] = list.lines[1 + i - 1]
      BY <2>1, SubSeqProperties
    <3>3. \A i \in 1..m : i \in 1..(m - 1 + 1) /\ 1 + i - 1 = i
      BY <2>1
    <3> QED
      BY <2>1, <3>1, <3>2, <3>3
  <2> HIDE DEF p, q
  <2>3. p = q
    BY <2>1, <2>2, SeqEqual
  <2> QED
    BY <2>1, <2>3 DEF IsPrefix, m, p, q
<1>3. \A e \in Added : e.dir = Destination
  BY <1>1, AddedIs DEF Extended
<1>4. DOMAIN stray \subseteq {e.dir : e \in Added} \cap Creatable
  BY <1>1 DEF CopiesRight, CopiedOver
<1>5. Cardinality({e \in Added : ~CopiedInto(e) /\ ~CopiedOver(e.dir)}) <= 1
  <2>1. PICK last : \A e \in Added : Arrived(e) \/ e = last
    BY <1>1 DEF AllArrived
  <2>2. IsFiniteSet({last}) /\ Cardinality({last}) = 1
    BY FS_Singleton
  <2> DEFINE rest == {e \in Added : ~CopiedInto(e) /\ ~CopiedOver(e.dir)}
  <2>3. rest \in SUBSET {last}
    BY <2>1 DEF Arrived
  <2> HIDE DEF rest
  <2>4. Cardinality(rest) <= 1
    BY <2>2, <2>3, FS_Subset
  <2> QED
    BY <2>4 DEF rest
<1>6. ASSUME envPhase = "done", ~Verdict
      PROVE  /\ \A e \in Added : CopiedInto(e) \/ CopiedOver(e.dir)
             /\ {e.name : e \in Added} = DOMAIN saved["failed"]
  <2>1. failures = {}
    BY <1>1, <1>6 DEF Stage
  <2>2. {e.name : e \in Added} = DOMAIN saved["failed"] \ failures
    BY <1>1, <1>6 DEF NamesRight
  <2>3. DOMAIN saved["failed"] \ failures = DOMAIN saved["failed"]
    BY <2>1
  <2>4. \A e \in Added : Arrived(e)
    BY <1>1, <1>6 DEF AllArrived
  <2> QED
    BY <2>2, <2>3, <2>4 DEF Arrived
<1> QED
  BY <1>1, <1>2, <1>3, <1>4, <1>5, <1>6 DEF CopiesRight

\* test_suite.py:2290-2309.  A list that ends in a newline keeps its
\* entries, and when the command ends well the new ones are exactly the
\* failures of the run.  They are copied to the directory of the last entry
\* where there is one; where it is missing and its parent is not, all there
\* is of them is one file in its place.
THEOREM ListedIsCopiedHolds == EnvSpec => []ListedIsCopied
<1>1. EnvInit => EnvInv
  BY InitEnvInv
<1>2. IInv /\ EnvInv /\ [EnvNext]_<<vars, envVars>> => EnvInv'
  BY EnvNextInv
<1>3. EnvSpec => []IInv
  BY EnvImplementsRun, Invariance, PTL
<1>4. EnvInv => ListedIsCopied
  BY ListedWhenInv
<1> QED
  BY <1>1, <1>2, <1>3, <1>4, PTL DEF EnvSpec
=============================================================================
