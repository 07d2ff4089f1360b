------------------------------ MODULE TestRun -------------------------------
(***************************************************************************)
(* The run-tests command (test_suite.py run_tests): every file of the      *)
(* input is run through all shared libraries (multiprocessing_utils.py     *)
(* run_test), the effects are compared with those of the reference, and    *)
(* the answers, which arrive in any order, are counted, logged in chunks   *)
(* and copied to the results directory (log_utils.py log_results).         *)
(*                                                                         *)
(* process_items is taken at its word (module BatchMap): it answers every  *)
(* file once, in any order, or raises.                                     *)
(***************************************************************************)
EXTENDS Integers, Sequences, FiniteSets, SequencesExt, Effects

CONSTANTS
    File,       \* test files
    Stem,       \* file names without directory and extension
    Extension,  \* ".fix" and the context extensions
    Effect,     \* effects a library can return
    Targets,    \* the shared libraries, in command-line order
    Worlds      \* what the command is called with

Reference == Targets[1]
Target == Range(Targets)

(***************************************************************************)
(* What a library does with a file: its effects, None (it rejects the      *)
(* input) or Missing (it does not have the entrypoint of the harness).     *)
(***************************************************************************)
None == [returns |-> "none"]
Missing == [returns |-> "missing"]
Answer == Effect \cup {None, Missing}

NoChunk == "none"

(***************************************************************************)
(* What becomes of a file: "runs", "unparsed" (a FlatBuffers fixture that  *)
(* does not verify), "unreadable" or "crashes" (the library aborts).       *)
(***************************************************************************)
Fate == {"runs", "unparsed", "unreadable", "crashes"}

ASSUME TestRunAssumption ==
    /\ {None, Missing} \cap Effect = {}
    /\ NoChunk \notin Stem
    /\ Targets \in Seq(STRING) /\ Len(Targets) > 0
    /\ IsInjective(Targets)
    /\ \A w \in Worlds :
          /\ w.input \in Seq(File)                      \* test_cases
          /\ w.name \in [File -> Stem \X Extension]
          /\ w.fate \in [File -> Fate]
          /\ w.answer \in [File -> [Target -> Answer]]
          /\ w.harness \in [File -> Harness]           \* of the entrypoint
          /\ w.modes \subseteq Mode
          /\ w.fail_early \in BOOLEAN
          /\ w.failures_only \in BOOLEAN
          /\ w.log_chunk_size \in Nat \ {0}

VARIABLES
    world,
    phase,      \* "setup", "testing", "logging", "saving", "done", "aborted"
    results,    \* test_case_results: [file, status] in the order of arrival
    at,         \* index into results while logging, into the input while saving
    count,      \* passed, failed and skipped so far
    names,      \* successful_tests and failed_tests: sets of stems
    chunk,      \* the stem that names the open log chunk
    log,        \* log chunk files: stem -> the files whose results it holds
    saved       \* failed_protobufs and successful_protobufs: name -> file

vars == <<world, phase, results, at, count, names, chunk, log, saved>>

StemOf(f) == world.name[f][1]

\* A directory in which a file of that name is new, or written over.
Put(directory, name, content) ==
    [n \in DOMAIN directory \cup {name} |-> IF n = name THEN content ELSE directory[n]]

Diff(f, a, b) == DiffEffects(world.harness[f], world.modes, a, b)

Init ==
    /\ world \in Worlds
    /\ phase = "setup"
    /\ results = << >>
    /\ at = 1
    /\ count = [passed |-> 0, failed |-> 0, skipped |-> 0]
    /\ names = [passed |-> {}, failed |-> {}]
    /\ chunk = NoChunk
    \* whatever an earlier run left in the output directory
    /\ \E f \in File, left \in BOOLEAN :
          /\ log = IF left THEN [s \in Stem |-> <<f>>] ELSE << >>
          /\ saved = [passed |-> << >>,
                      failed |-> IF left THEN [n \in Stem \X Extension |-> f]
                                 ELSE << >>]

-----------------------------------------------------------------------------
(***************************************************************************)
(* Faulty variants, exchanged for the definition they are named after to   *)
(* show that a property is able to fail; nothing else uses them.           *)
(***************************************************************************)
\* counts the libraries that agree
FaultyBuildSum(f, answer) ==
    Cardinality({t \in Target : GenericDiff(answer[Reference], answer[t])})

\* the reference's transaction is normalised in place by each comparison
FaultyBuildInPlace(f, answer) ==
    IF answer[Reference] = None THEN 0
    ELSE LET end ==
               FoldLeft(LAMBDA acc, t :
                          IF t = Reference THEN acc
                          ELSE IF answer[t] = None THEN [acc EXCEPT !.ok = FALSE]
                          ELSE [ok |-> acc.ok /\ Diff(f, acc.ref, answer[t]),
                                ref |-> IF world.harness[f] = "TxnHarness"
                                        THEN [acc.ref EXCEPT !.status = 0]
                                        ELSE acc.ref],
                        [ok |-> TRUE, ref |-> answer[Reference]], Targets)
         IN IF end.ok THEN 1 ELSE -1

\* a fixture that does not verify counts as a failure
FaultyRunTest(f) == [file |-> f, status |-> IF world.fate[f] = "unparsed" THEN -1 ELSE 1]

\* an earlier run's output is kept
FaultySetup ==
    /\ phase = "setup"
    /\ Cardinality(world.modes) <= 1
    /\ phase' = "testing"
    /\ UNCHANGED <<world, results, at, count, names, chunk, log, saved>>

\* waits for every answer, also after an early stop
FaultyTested ==
    /\ phase = "testing"
    /\ Len(results) = Len(world.input)
    /\ phase' = "logging"
    /\ UNCHANGED <<world, results, at, count, names, chunk, log, saved>>

\* the chunk size is measured in passed tests
FaultyNewChunk == count.passed % world.log_chunk_size = 0

-----------------------------------------------------------------------------
(***************************************************************************)
(* build_test_results and build_test_results_fb: 1 passed, -1 failed, 0    *)
(* skipped.                                                                *)
(***************************************************************************)
BuildTestResults(f, answer) ==
    LET all_passed ==
            \A t \in Target \ {Reference} :
                answer[t] # None /\ Diff(f, answer[Reference], answer[t])
    IN IF answer[Reference] = None THEN 0 ELSE IF all_passed THEN 1 ELSE -1

\* Of every library; run_test_fb takes one without the entrypoint for one that
\* returns None.
Returned(f) ==
    [t \in Target |-> IF world.answer[f][t] = Missing THEN None ELSE world.answer[f][t]]

RunTest(f) ==
    [file |-> f,
     status |-> IF world.fate[f] = "unparsed" THEN 0
                ELSE BuildTestResults(f, Returned(f))]

(***************************************************************************)
(* read_fixture(...) is None and the caller asks it for its input, or a    *)
(* library of a Protobuf harness does not have the entrypoint.             *)
(***************************************************************************)
Raises(f) ==
    \/ world.fate[f] \in {"unreadable", "crashes"}
    \/ /\ world.harness[f] # "FlatBuffers"
       /\ \E t \in Target : world.answer[f][t] = Missing

Answered == {results[k].file : k \in DOMAIN results}

\* More than one mode: the command exits before it touches anything.
Refuse ==
    /\ phase = "setup"
    /\ Cardinality(world.modes) > 1
    /\ phase' = "aborted"
    /\ UNCHANGED <<world, results, at, count, names, chunk, log, saved>>

(***************************************************************************)
(* The output directory is emptied before anything runs.                   *)
(***************************************************************************)
Setup ==
    /\ phase = "setup"
    /\ Cardinality(world.modes) <= 1
    /\ phase' = "testing"
    /\ log' = << >>
    /\ saved' = [passed |-> << >>, failed |-> << >>]
    /\ UNCHANGED <<world, results, at, count, names, chunk>>

(***************************************************************************)
(* The pool answers in any order; --fail-early has no pool and tests the   *)
(* files in order until one fails.                                         *)
(***************************************************************************)
Expected ==
    IF world.fail_early
    THEN IF \E k \in DOMAIN results : results[k].status = -1 THEN {}
         ELSE {world.input[k] : k \in {Len(results) + 1} \cap DOMAIN world.input}
    ELSE Range(world.input) \ Answered

Test(f) ==
    /\ phase = "testing"
    /\ f \in Expected
    /\ ~Raises(f)
    /\ results' = Append(results, RunTest(f))
    /\ UNCHANGED <<world, phase, at, count, names, chunk, log, saved>>

\* The exception, or BrokenProcessPool, ends the command; no answer is kept.
Abort ==
    /\ phase = "testing"
    /\ \E f \in Expected : Raises(f)
    /\ phase' = "aborted"
    /\ results' = << >>
    /\ UNCHANGED <<world, at, count, names, chunk, log, saved>>

Tested ==
    /\ phase = "testing"
    /\ Expected = {}
    /\ phase' = "logging"
    /\ UNCHANGED <<world, results, at, count, names, chunk, log, saved>>

-----------------------------------------------------------------------------
\* A result that names its stem starts a chunk when a whole number were logged.
NewChunk == (count.passed + count.failed) % world.log_chunk_size = 0

(***************************************************************************)
(* The first loop of log_results.  open(..., "w") truncates the chunk when *)
(* a file of that name is there already.  All libraries open and write     *)
(* their logs alike, so one stands for all of them.                        *)
(***************************************************************************)
LogResult ==
    /\ phase = "logging"
    /\ at <= Len(results)
    /\ at' = at + 1
    /\ LET r == results[at]
           stem == StemOf(r.file)
           current == IF NewChunk THEN stem ELSE chunk
           opened == IF NewChunk THEN Put(log, stem, << >>) ELSE log
           written == ~world.failures_only \/ r.status = -1
       IN IF r.status = 0
          THEN /\ count' = [count EXCEPT !.skipped = @ + 1]
               /\ UNCHANGED <<names, chunk, log>>
          ELSE /\ chunk' = current
               /\ log' = IF written
                         THEN [opened EXCEPT ![current] = Append(@, r.file)]
                         ELSE opened
               /\ IF r.status = 1
                  THEN /\ count' = [count EXCEPT !.passed = @ + 1]
                       /\ names' = [names EXCEPT !.passed = @ \cup {stem}]
                  ELSE /\ count' = [count EXCEPT !.failed = @ + 1]
                       /\ names' = [names EXCEPT !.failed = @ \cup {stem}]
    /\ UNCHANGED <<world, phase, results, saved>>

Logged ==
    /\ phase = "logging"
    /\ at > Len(results)
    /\ phase' = "saving"
    /\ at' = 1
    /\ UNCHANGED <<world, results, count, names, chunk, log, saved>>

(***************************************************************************)
(* The copy loop of log_results, with --save-failures and                  *)
(* --save-successes: a file goes where its stem went, under its own name.  *)
(***************************************************************************)
SaveFile ==
    /\ phase = "saving"
    /\ at <= Len(world.input)
    /\ at' = at + 1
    /\ LET f == world.input[at]
           Copy(verdict) ==
               IF StemOf(f) \in names[verdict]
               THEN Put(saved[verdict], world.name[f], f)
               ELSE saved[verdict]
       IN saved' = [passed |-> Copy("passed"), failed |-> Copy("failed")]
    /\ UNCHANGED <<world, phase, results, count, names, chunk, log>>

Saved ==
    /\ phase = "saving"
    /\ at > Len(world.input)
    /\ phase' = "done"
    /\ UNCHANGED <<world, results, at, count, names, chunk, log, saved>>

\* What run_tests returns.
Verdict == count.failed = 0 /\ count.skipped = 0 /\ count.passed > 0

Next ==
    \/ Refuse \/ Setup \/ Abort \/ Tested \/ LogResult \/ Logged \/ SaveFile \/ Saved
    \/ \E f \in File : Test(f)

Spec == Init /\ [][Next]_vars

FairSpec == Spec /\ WF_vars(Next)

-----------------------------------------------------------------------------
TypeOK ==
    /\ world \in Worlds
    /\ phase \in {"setup", "testing", "logging", "saving", "done", "aborted"}
    /\ results \in Seq([file : File, status : {-1, 0, 1}])
    /\ at \in Nat \ {0}
    /\ count \in [passed : Nat, failed : Nat, skipped : Nat]
    /\ names \in [passed : SUBSET Stem, failed : SUBSET Stem]
    /\ chunk \in Stem \cup {NoChunk}
    /\ DOMAIN log \subseteq Stem
    /\ \A s \in DOMAIN log : log[s] \in Seq(File)
    /\ \A v \in {"passed", "failed"} :
          /\ DOMAIN saved[v] \subseteq Stem \X Extension
          /\ \A n \in DOMAIN saved[v] : saved[v][n] \in File

\* What the answers of the libraries to a file amount to.
Accepted(f) == world.fate[f] = "runs" /\ world.answer[f][Reference] \in Effect

Conforms(f) ==
    /\ Accepted(f)
    /\ \A t \in Target \ {Reference} :
          /\ world.answer[f][t] \in Effect
          /\ Diff(f, world.answer[f][Reference], world.answer[f][t])

InputFiles == Range(world.input)

(***************************************************************************)
(* test_suite.py:684.  The command succeeds exactly when there is a file,  *)
(* the reference accepts every file and every library agrees with it on    *)
(* every file: no order of answers, no early stop and no option makes a    *)
(* divergence pass or a conforming input fail.                             *)
(***************************************************************************)
VerdictIsRight ==
    phase = "done" =>
        (Verdict <=> InputFiles # {} /\ \A f \in InputFiles : Conforms(f))

(***************************************************************************)
(* log_utils.py:77.  Without --fail-early the three counts are those of    *)
(* the conforming, diverging and skipped files of the input; with it, at   *)
(* most one failure is counted and it is the last answer.                  *)
(***************************************************************************)
CountsAreRight ==
    phase = "done" =>
        IF world.fail_early
        THEN /\ count.failed <= 1
             /\ count.failed = 1 => results[Len(results)].status = -1
             /\ count.passed + count.failed + count.skipped = Len(results)
        ELSE /\ count.passed = Cardinality({f \in InputFiles : Conforms(f)})
             /\ count.skipped = Cardinality({f \in InputFiles : ~Accepted(f)})
             /\ count.failed =
                  Cardinality({f \in InputFiles : Accepted(f) /\ ~Conforms(f)})

DistinctStems ==
    \A k, l \in DOMAIN world.input :
        StemOf(world.input[k]) = StemOf(world.input[l]) => k = l

\* The results that have to be in the logs.
ToBeLogged ==
    {results[k].file : k \in {j \in DOMAIN results :
        results[j].status = -1 \/ (results[j].status = 1 /\ ~world.failures_only)}}

(***************************************************************************)
(* log_utils.py:38-54.  No result falls between two chunks: each one that  *)
(* has to be logged is in exactly one place of exactly one chunk, and no   *)
(* chunk holds more than log_chunk_size.                                   *)
(***************************************************************************)
LogIsComplete ==
    phase = "done" =>
        /\ \A f \in ToBeLogged :
              Cardinality({p \in (DOMAIN log) \X (1..Len(world.input)) :
                              p[2] \in DOMAIN log[p[1]] /\ log[p[1]][p[2]] = f}) = 1
        /\ \A s \in DOMAIN log : Len(log[s]) <= world.log_chunk_size
        /\ \A s \in DOMAIN log : Range(log[s]) \subseteq ToBeLogged

LogIsCompleteWithDistinctStems == DistinctStems => LogIsComplete

(***************************************************************************)
(* test_suite.py:527 "Saves failed test cases to results directory":       *)
(* failed_protobufs holds the files that failed and no others, whatever an *)
(* earlier run left there.                                                 *)
(***************************************************************************)
FailuresAreSaved ==
    phase = "done" =>
        {saved["failed"][n] : n \in DOMAIN saved["failed"]}
            = {results[k].file : k \in {j \in DOMAIN results : results[j].status = -1}}

FailuresAreSavedWithDistinctStems == DistinctStems => FailuresAreSaved

(***************************************************************************)
(* multiprocessing_utils.py:569-579.  A mode only ever relaxes: a file on  *)
(* which all libraries return the same effects passes in every mode.  And  *)
(* a file that passes passes whichever library is the reference, so no two *)
(* libraries that disagree are both accepted; transactions in consensus    *)
(* mode are the exception (see the README).                                *)
(***************************************************************************)
ModesAreSound ==
    \A k \in DOMAIN results :
        LET f == results[k].file
            answers == {world.answer[f][t] : t \in Target}
        IN /\ world.fate[f] = "runs" /\ Cardinality(answers) = 1 /\ answers \subseteq Effect
                => results[k].status = 1
           /\ results[k].status = 1
                 /\ ~(world.harness[f] = "TxnHarness" /\ world.modes = {"consensus"})
                => \A a, b \in answers : Diff(f, a, b)

\* test_suite.py:446-685.  However the tests go, the command ends.
CommandEnds == <>(phase \in {"done", "aborted"})
=============================================================================
