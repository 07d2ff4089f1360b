# A verification model of solana-conformance

solana-conformance (`src/src/test_suite`) is a Python command-line tool that runs
the same test inputs through several Solana runtime implementations, each a shared
library with the `sol_compat_*` interface, and compares what they return. Around that
core it downloads inputs from a fuzzing service, turns them into fixtures, regenerates
fixtures, and saves logs of every run.

This directory holds TLA+ models of its concurrent and stateful parts, TLC
configurations that check them on small instances, and proofs for every value of the
constants, checked by TLAPS. In this document `util.py:148` means line 148 of
`src/src/test_suite/util.py`.

## 1. Inventory of the system

| Component | State it keeps | Operations | Meets others through |
|---|---|---|---|
| **process_items** (`util.py:116-198`) | the executor, its futures, the list of results | run a function over a list: serially, on threads, on processes | called by nearly every command; `initialize_process_output_buffers` runs in the caller or in every worker |
| **Artifact download** (`multiprocessing_utils.py:85-137, 918-1077`, `test_suite.py:998-1171`) | `.artifact_cache/*.bin` and `inputs/*.fix` on disk, `_extracted_fixtures` and its lock, the repro metadata cache | `download_fixtures`, `download_and_process`, `save_raw_artifact` | a thread pool of process_items; the Octane client; its output is the input of the pipeline |
| **Crash download** (`test_suite.py:1173-1350`, `multiprocessing_utils.py:1080-1163`) | `crashes/<lineage>/<hash>.crash` on disk, the metadata cache of the listing | `download_crashes`, `download_crash`, `download_single_crash` | the same pool and client, no lock |
| **Request retries** (`octane_utils.py:100-190`) | attempt number, back-off | `octane_api_call` | HTTP client; used by the listings |
| **Octane client** (`octane_api_client.py`) | HTTP session, base URL | parse replies, list lineages, look up bugs, download with URL fallbacks | downloads |
| **Differential test run** (`test_suite.py:446-685`, `multiprocessing_utils.py:394-706, 860-916`, `log_utils.py`) | results, counters, verdicts by stem, log chunks, `failed_protobufs`, `successful_protobufs` | `run_tests`, `run_test`, `run_test_fb`, `build_test_results`, `log_results` | a process pool of process_items; the libraries through `ctypes`; the pipeline's last stage |
| **create-env** (`test_suite.py:2159-2313`) | a list of fixtures in another checkout, a directory of test vectors | append an entry, copy the file | debug-mismatches before it |
| **debug-mismatches** (`test_suite.py:1360-1587`) | `inputs`, the created-fixtures directory, `globals.output_dir` | download, deduplicate, create, replace inputs, test | calls download, creation and test run in a row |
| **Commands on files** (`test_suite.py:104-436, 688-846, 1756-2151`, `fixture_utils.py`) | an output folder; files named by the stem of their input | create-fixtures, fix-to-ctx, decode-protobufs, regenerate-fixtures, mass-regenerate-fixtures, exec-fixtures, execute, validate-fixtures | process pools that write into one directory; the readers, the codecs, the libraries |
| **Harness contexts and comparison** (`fuzz_context.py`, `fuzz_interface.py`, `instr/`, `txn/` ...) | the module-level contexts, whose `diff_effect_fn` is replaced by a diff mode | normalise, compare | read by the test run |
| **Codecs and formats** (`*/codec_utils.py`, `flatbuffers_utils.py`, `fuzz_context.py`) | none | make a context readable and back, detect a format, load a fixture | every command on files, the test run |
| **Sanitizer environment** (`sanitizer_utils.py`) | a stub library in the shared temporary directory, the answer cached in each process, the symbols loaded | locate, build, preload, load | every process that loads a library |
| **Process globals** (`globals.py`, `constants.py`) | target libraries, output directory, caches, flags | set by a command, read by workers | inherited by worker processes |
| Generated bindings, generators, migrations, scripts, unused helpers | none | - | - |

### What makes it hard, and what correct means

* *process_items.* A worker process runs foreign native code, which may abort: the pool
  breaks while the caller is still submitting or collecting. An exception in one item
  reaches the caller while others are queued or running. Correct means: a returned list
  has every item once; nothing is in flight when the call is over; the call is over at
  some point; an outcome never changes.
* *Downloads.* Up to dozens of threads share a cache and an output directory without a
  lock around the files; the check for an artifact, its claim and its write are three
  steps; a killed process leaves truncated files; the next run trusts what exists.
  Records are cached by hash, although a hash may occur in two lineages. Correct means:
  one writer per fixture, the right bytes under every name, nothing rewritten, a success
  that means the file is there and whole, and nothing given up before every attempt and
  every URL was tried.
* *Test run.* Answers arrive in any order and are counted, chunked and saved by file
  stem; a mode replaces the comparison. Correct means: the exit status is the
  conformance of the inputs, whatever the order and the options; a mode only relaxes;
  the counts add up; each result is logged in one place; what is saved as a failure
  failed.
* *debug-mismatches and create-env.* Directories are removed and replaced between
  stages; a kill between two of them must not lose inputs or mix raw and created ones.
  The list of another checkout is extended line by line and may end anywhere.
* *Commands on files.* What an earlier run left; two inputs that write one file from two
  processes; one handler that raises after others have written; folders emptied in the
  order of a set; chains of feature rekeyings. Correct means: what is left is whole, of
  this run, and its effects are those of the context and the features it holds.
* *Formats.* A file is guessed from its first bytes; its readable form must read back.
* *Sanitizer stub.* Processes of different commands find or build one file in one
  directory without a lock. Correct means: built once, whole from then on, and a load
  that ends.

The hazards, each at the line where it bites and with the properties that would catch
it, are the `hazards` of `PROJECT.json`; one without a property says why in its `note`.

## 2. Modules

| Module | Models | Role |
|---|---|---|
| `BatchMap` | - | the abstract specification of process_items: what its callers rely on |
| `WorkerPool` | `util.py:116-198` | process_items, and the executor as it uses it |
| `Download` | `multiprocessing_utils.py:85-137, 918-1077`, `test_suite.py:998-1171` | threads over the shared cache and inputs directory |
| `Octane` | `octane_api_client.py`, `octane_utils.py:100-195` | operators: what the client makes of a reply, which requests are repeated, which URLs are tried |
| `Client` | `octane_api_client.py:189-1265`, `octane_utils.py` | operators: every call of the client, from the server it asks to the bytes it returns; extends `Octane` |
| `CrashDownload` | `test_suite.py:1173-1350`, `multiprocessing_utils.py:1080-1163` | crash downloads, command after command on one directory; extends `Client` |
| `Effects` | `instr/diff_utils.py`, `txn/diff_utils.py`, the table of `fuzz_context.py` | operators: how two effects are compared, and which mode chooses what |
| `TestRun` | `test_suite.py:446-685`, `multiprocessing_utils.py:394-706, 860-916`, `log_utils.py` | the run-tests command; extends `Effects` |
| `CreateEnv` | `test_suite.py:2159-2313` | what create-env adds to a run of the tests; extends `TestRun` |
| `Pipeline` | `test_suite.py:298-436, 1360-1587`, `util.py:201-222`, `fixture_utils.py:41-186` | the debug-mismatches command, killed and run again |
| `Codecs` | the `codec_utils.py` of every harness | operators: the readable form of a context and its inverse |
| `Formats` | `flatbuffers_utils.py:215-382, 916-1064`, `multiprocessing_utils.py:258-416`, `fuzz_context.py` | operators: what a file is taken for; extends `Codecs` |
| `FlatElf` | `flatbuffers_utils.py:20-206, 503-1136`, `fixture_utils.py:263-349` | operators: building and reading the ELF loader's FlatBuffers fixtures, converting, check-deps; extends `Formats` |
| `Features` | `features_utils.py` | operators: the features a library has, and the sets it can be given |
| `FileCommands` | `test_suite.py:104-436, 688-846, 1756-2151`, `fixture_utils.py` and what they call | the commands that turn files into files, and those that only answer; extends `FlatElf` and `Features` |
| `SancovStub` | `sanitizer_utils.py` | processes that find, build, preload one stub and load their library |
| `WorkerPoolProofs`, `DownloadProofs`, `CrashDownloadProofs`, `TestRunProofs` (with `CreateEnv`), `PipelineProofs`, `FileCommandsProofs` (with `Formats` and `Codecs`), `SancovStubProofs` | - | inductive invariants and theorems of the module they are named after |
| `DataLemmas` | - | facts about numbers, sequences, folds and recursive functions that several proofs share |
| `MCWorkerPool`, `MCDownload`, `MCCrashDownload`, `MCTestRun`, `MCPipeline`, `MCFileCommands`, `MCSancovStub` | - | small instances for TLC (`MCTestRun` is one of `CreateEnv`) |

Operators whose name begins with `Faulty` are plausible mistakes in the definition they
are named after (a dropped guard, a missing reset, an off-by-one). No specification uses
them. Exchanging a definition for its faulty variant makes TLC report a violation of the
property it is listed for under `mutants` in `PROJECT.json`: this is how the project
knows that each of its properties can fail.

### WorkerPool

`call` is one argument list of process_items. `Requested`, `Width` and `Mode` are the
first lines of the function (`debug_mode` forces the serial branch; one item on threads
is serial too; one item on processes is not). `phase` is the place of the calling
thread: entry, the serial loop, submission, collection by `as_completed`, the end of the
`with` block. `fut` holds the status of each future, `worker` and `job` the executor's
workers, `results` the list under construction.

| Code | Action |
|---|---|
| `util.py:135-149` choosing a branch, initializing | `Enter`, `RefuseWidth` (ProcessPoolExecutor rejects a width of 0), `InitializerRaises` |
| `186-198` serial loop | `SerialCall`, `SerialEnd`, `SerialAppend`, `SerialRaise`, `SerialReturn` |
| `149-151` `executor.submit` | `Submit`, `SubmitRaises` on a pool that broke meanwhile |
| `157-160` `as_completed`, `future.result()` | `BeginCollect`, `Collect`, `CollectRaises`, `EndCollect` |
| leaving `with executor` | `LeaveExecutor`: `shutdown(wait=True)` waits and cancels nothing |
| `concurrent.futures` (external) | `PoolSpawn`, `PoolTake`, `PoolEnd`, `PoolCrash`, `PoolBreaks` |

A call of the function either returns or raises; in a worker process it may also take
the process with it (`PoolCrash`). A worker whose initializer raises is dead, which
breaks the pool. The progress bar is left out.

`BatchMap` says what is promised whichever branch runs: an item is begun at most once,
answered at most once and only after its call ended, returning needs an answer for every
item, and neither returning nor raising leaves a call in flight. `IsABatchMap` states
that `WorkerPool` implements it under the mapping at the end of the module. The other
components take process_items at this word instead of repeating its steps: `TestRun`
uses "any order, or an exception", `Download` "every item once, on some thread".

### Download

`cache` and `inputs` are the two directories; they survive a crash and a rerun.
`extracted` is `_extracted_fixtures`, which does not. The content of a file is
`"absent"`, `"partial"` or the repro whose payload it is: that is all the properties
tell apart. The client downloads one payload per repro whatever artifact it is asked
for, so a payload is named by its repro. `thread[w]` is the place of a worker inside
`download_and_process`:

| Code | Action |
|---|---|
| `multiprocessing_utils.py:934-984` start of an item; a repro without artifacts fails | `Take` |
| `998-1002` a cache file that exists is read | `ReadCache` |
| `1003-1046` otherwise download | `Fetch` |
| `1048-1050` `open("wb")`, then write | `OpenCache`, `WriteCache` |
| `112-127` under the lock: on disk or claimed, skip | `Skip` |
| `128` under the lock: claim | `Claim` |
| `130-133` after the lock: open, write | `OpenFix`, `WriteFix` |
| `1056-1071` next artifact, or the success result | `Advance` |
| `1072-1077` any exception | `Fail`: a failure result, nothing undone |
| `test_suite.py:1110-1171` end of the command | `Finish` |
| the process is killed; the command is run again | `Crash`, `Rerun` |

`open("wb")` and the write are two steps because the file is visible, and empty, in
between. Two threads may hold the same cache file open; the second write may leave a
mixture, which is a nondeterministic choice. `world.faults` says which kinds of fault
may happen in a behaviour: a failing request, a failing write, a kill. `MaxSessions`
bounds how often the command is run on one output directory.

### CrashDownload, Octane and Client

`Octane` translates the client's parsing: `BugRecord` (the hash under three names, the
first validation status, URLs in the source before those beside it), `ReproIndex`,
`DownloadList` and `MetadataCache`; a bug without a hash is a `KeyError` of the whole
reply (`Malformed`, `Unparseable`). A URL is a record of its scheme, whether it names an
object, and the blob it yields; `Downloadable` says when `_download_from_url` is able to
succeed at all, and even then it may fail. `Transient` and `GivesUp` are the retry loop
of `octane_api_call`; how long it waits is left out.

`file` is the output directory, which survives kills and later commands. `thread[w]` is
the place of a worker inside `download_single_crash`:

| Code | Action |
|---|---|
| `octane_utils.py:132-190` one failed attempt | `CallFails` |
| `test_suite.py:1264-1314` the listing is there | `ListingArrives` |
| `1173-1230` download-crash looks its bug up, without retries | `BugArrives` |
| `multiprocessing_utils.py:1080-1102` record and path of an item | `Take` |
| `1104-1112` the file exists | `AlreadyThere`, `NotThere` |
| `octane_api_client.py:1079-1116` one URL after the other | `UrlWorks`, `UrlFails`, `FetchFails` |
| `1148-1157` open, write | `OpenFile`, `WriteFile`, `WriteFails` |
| `test_suite.py:1316-1350` | `AllAnswered` |
| the process is killed; another command is run | `Kill`, `Rerun` |

`disturbed` remembers that a write failed or was interrupted; no action depends on it.

`Client` has the rest of the client as operators on what its surroundings answer: a
`reply` of the server, the `answers` of the storage URL by URL, the `machine` with its
variables, credentials and installed libraries. A call gives `Value(v)` or
`Raised(error)`, and `Then` is what Python's exceptions do between two calls. The drivers
the commands of `CrashDownload` may have are those of its instance's machines
(`DriversOf`), and the instance compares the operators with references on small replies.

### TestRun and CreateEnv

`world` is the command line and what the libraries answer: the files with their names
and harnesses, what becomes of each file, each library's effects, none or a missing
entrypoint, the modes, the flags and the chunk size. The initial states include logs and
saved files an earlier run left. Effects are records of the fields the comparisons tell
apart; `DiffEffects` chooses the comparison by harness and mode, as the harness table
does.

| Code | Definition |
|---|---|
| `test_suite.py:562-568` more than one mode | `Refuse` |
| `test_suite.py:569-600` the output directory is emptied | `Setup` |
| `multiprocessing_utils.py:860-916` one file; `665-706` a FlatBuffers one | `RunTest`, `Returned`, `Raises` |
| `multiprocessing_utils.py:525-590, 621-662` comparison with the reference | `BuildTestResults`, `Diff` |
| an answer of the pool, in any order; with `--fail-early` in file order up to the first failure | `Expected`, `Test`, `Tested` |
| an exception or a broken pool | `Abort` |
| `log_utils.py:25-61` counters, chunks | `LogResult`, `NewChunk`, `Logged` |
| `log_utils.py:67-77` copies by stem | `SaveFile`, `Saved` |
| `test_suite.py:684` the return value | `Verdict` |

A library without the entrypoint of a harness raises in a Protobuf test (the call looks
it up) and is one that returned nothing in a FlatBuffers test.

The comparison of transactions in consensus mode is no equivalence: compute units count
unless both sides failed (`txn/diff_utils.py:16`), so two libraries may both agree with a
reference that failed while one succeeded and they disagree with each other.
`ModesAreSound` therefore leaves that case out, and it alone.

`CreateEnv` adds what `create_env` does when the tests are over: `BeginAdding`,
`AddFailure` (entry, then copy), `ListIsEmpty`, `NothingToAdd`, `AllAdded`. The list is
read again for every entry; one whose last line has no newline has that line glued to the
first new entry (`Appended`), which may then be in any directory (`shared`). Nothing
checks that the directory of the last line is there, so a list may name any `Directory`,
and a line without one (`Blank`) makes entries in the root (`EntryDir`). Where
`shutil.copy2` finds a directory (`Vectors`) it adds the file to `copies`; where there is
none but its parent is (`Creatable`) it makes a file of that name, or overwrites it
(`stray`); elsewhere it raises. It may always raise; what a copy that raises leaves of its
file is left out. `Directory` holds places: spellings of one directory are one element.

### Pipeline

`inputs` and `created` are the two directories, a file being called by its artifact
hash. A file is absent, torn, downloaded, or created from a payload; `Bytes` says when
two files are equal byte for byte (creation may reproduce a downloaded fixture exactly,
`world.canonical`). `phase` is the stage and `todo` the names it has not come to, so that
every removal, download, creation and copy of a file is a step of its own and a kill may
come between any two. `files` and `tested` remember what the download left and what
`run_tests` was given; no action depends on them.

| Code | Action |
|---|---|
| `test_suite.py:1442` the index of repros cannot be had | `IndexFails` |
| `1498-1523` the downloads, as `Download` leaves them | `Download` |
| `1525-1535` nothing there: exit 1 | `DownloadDone` |
| `1537-1540`, `util.py:201-222` | `Dedupe`, `DedupeDone` |
| `1542-1545` `rmtree`; `1566` the same after the copy | `RemoveCreated`, `Cleared` |
| `fixture_utils.py:41-186` one file, in any order | `Create` |
| `test_suite.py:412-424` an exception or a broken pool; `1565` a failed copy | `Abort` |
| `426-436` | `CreationDone`: that no fixture was written is returned and not looked at |
| `1564` | `RemoveInput`, `Removed` |
| `1565` `copytree`: a file is there before it is whole | `OpenCopy`, `WriteCopy`, `Copied` |
| `1566-1587` | `Discarded`, `RunTests` |
| the process is killed; the command is run again | `Kill`, `Rerun` |

`world.kind` says what becomes of a payload in `create_fixture`: the reference library
accepts or rejects it, it is a raw crash input and no fixture, or the library aborts on
it. Executing the context of a created fixture again gives that fixture, as the library
is deterministic. A torn file is one `read_fixture` cannot parse; one cut so that it
still parses is another payload. Fixtures are created on a pool that `WorkerPool` models,
and `Create`, `Abort` and `CreationDone` take it at its word. The output of `run_tests`
is `TestRun`'s matter.

### FileCommands, Formats and Codecs

`world` is a command, its options, its input files and what the libraries make of them;
every world gives an option the command does not have its default
(`WorldsAssumption`). `output` is the output directory by path, `task` what each
worker is doing. The eight commands have one shape, and each its handler:

| Code | Definition |
|---|---|
| `test_suite.py:361-369` an unknown `--output-format` | `Refuse` |
| `test_suite.py:361-411, 1963-1983` clearing; mass: copying what is not regenerated | `Begin`, `Cleared`, `Copied` |
| `test_suite.py:1825-1862` the next folder, in the order of a set | `NextFolder` |
| a worker reads a file and calls the libraries | `Take` with `Handler` |
| `fixture_utils.py:41-186` | `CreateFixture`, `CreateFixtureFromContext`, `WriteFixtureToDisk` |
| `fixture_utils.py:189-211` | `ExtractContextFromFixture` |
| `multiprocessing_utils.py:419-461` | `DecodeSingleTestCase` |
| `fixture_utils.py:244-407` | `RegenerateFixture`, `RegenerateFbFixture`, `ComputeNewFeatureSet`, `Rekey` |
| `multiprocessing_utils.py:709-754, 899-931` | `ExecuteFixture`, `ExecuteFbFixture` |
| `test_suite.py:177-219, 818-836` | `ExecuteFile`, `ValidateFile` |
| the file is opened, then written, by processes that may share its name | `Open`, `Write` |
| a library takes its process with it | `Die` |
| the answers are added up; one that cannot be raises | `FolderDone`, `Fail`, `Return` |

A handler's answer is an exception, `None`, or what is counted; what it reads and
computes is one step, as nothing it reads changes meanwhile. `Formats` says what a file
is taken for: `IsFlatbuffersFormat` and `IsProtobufFormat` are translated byte for byte
on the head of the file, the rest of it is a `body`. `Codecs` gives each field of each
harness the rule by which it is written and the rule by which it is read, from the two
functions of its codec separately; the compact hex form, the one conversion that counts,
is modelled in full, on rows of `Gap` bytes. `FlatElf` builds and reads the ELF loader's
fixtures part by part, where a part may be missing; the contents of `FileCommands` are coarser,
and its `BuildFbFixture` and `ExtractFb...` stand for the same functions. `Features` is what a library says of its features, and
`FeatureBytesToUlong` the ids that `world.add`, `world.remove` and `world.rekey` are made
of. All are checked on small values by the assumptions of `MCFileCommands`.

### SancovStub

`source` and `stub` are the two files in the temporary directory, `proc[p]` is what each
process is doing and knows. The compiler is external: it reads the source, then creates
its output in place of an earlier one, then completes it.

| Code | Action |
|---|---|
| `sanitizer_utils.py:300-351` | `Load`, `LoadFails` with `GivesUp` |
| `86-89` the cached answer | `LocateAgain` |
| `91-112` a runtime `ldconfig` knows | `LocateRuntime` |
| `114-125` the stub exists | `LocateStub` with `BuiltAlready` |
| `128-130` the source is truncated, then written | `OpenSource`, `WriteSource` |
| `132-148` one compiler after the other | `Compile`, `CompilerFails`, `NoCompiler`, `LinkBegins`, `LinkEnds` |
| `204-297` preload | `Preload` |
| `128-153` the directory, the source or starting a compiler raises | `BuildRaises` |
| the process is killed and started again | `Kill` |

`disturbed` remembers that a build was overlapped, interrupted, or failed; no action
depends on it. A runtime that `ldconfig` knows is taken to load and to have every symbol.

## 3. Runs

| Run | Expect | Properties | What it shows |
|---|---|---|---|
| `worker_pool` | pass, 14 162 states | `TypeOK`, `ReturnsEverything`, `Quiescent`, `AfterAnException`, `SettledForGood`, `Termination`, `IsABatchMap` | process_items is the batch it promises to be, in every mode, with raising items and dying workers |
| `download` | pass, 33 660 states | `TypeOK`, `OneWriter`, `Provenance`, `FixtureCount`, `ReportedIsThereUnlessWriteFails`, `ReportedIsWholeUndisturbed`, `EveryItemAnswered`, `NeverRewritten`, `SessionEnds` | downloads with shared, repeated and missing artifacts, failing requests and writes, kills and a second session |
| `download_race` | violation | `ReportedIsWhole` | finding 1 |
| `download_claim` | violation | `ReportedIsThere` | finding 2 |
| `crashes` | pass, 155 849 states | `NoEarlyFailure`, `CrashContent`, `ReportedCrashIsThere`, `CommandEnds` | crash downloads: retries and URLs are used up before anything is given up, every file holds the crash its name says, what is reported is there, every command ends |
| `test_run` | pass, 128 460 states | `TypeOK`, `VerdictIsRight`, `CountsAreRight`, `LogIsCompleteWithDistinctStems`, `FailuresAreSavedWithDistinctStems`, `ModesAreSound`, `ListedIsCopied`, `CommandEnds` | verdict, counts, logs and saved files for every order of answers; what the modes may relax; then what create-env lists and copies |
| `test_run_stems` | violation | `FailuresAreSaved` | finding 3 |
| `pipeline` | pass, 128 234 states | `TypeOK`, `TestedIsCreated`, `TestedIsWhatWasFound`, `TestedOnce`, `NoInputIsLost` | what debug-mismatches tests, and what it may not lose, with kills, failing writes and a second session |
| `pipeline_raw` | violation | `RawIsConverted` | finding 4 |
| `commands` | pass, 2 658 states | `OutputIsRight`, `NothingIsLost`, `EffectsBelong`, `DecodedReadsBack` | each command on files leaves whole files of this run, counts them, records the effects of what they contain, and writes text that reads back |
| `sancov` | pass, 120 721 states | `LoadsUndisturbed`, `BuiltOnce`, `EveryLoadEnds` | processes that build and preload one stub, at once or one after the other, killed and started again |
| `sancov_race` | violation | `StubProvides` | finding 5 |

### Bounds, and why they are enough

* `worker_pool`: 0 to 3 items, 0 to 3 requested workers, all flags. Three items on two
  workers is the smallest batch with one item queued while one runs and one is done; a
  width of 0, 1 and more than the items are the cases of `Width`. The safety results do
  not depend on the bound: they are proved.
* `download`: two threads (the races are between two), two repros, two artifacts; the
  tables make the repros share nothing, share an artifact, repeat one, or list none.
  Two sessions: a crash in the first, its leftovers in the second. All its safety
  properties are proved for any number of each.
* `crashes`: two threads, two commands on one directory, `MaxRetries = 3`, which is the
  code's default; the errors are one of each class (network, retried status, other
  status, other exception). One hash is in two lineages; one bug has two URLs of which
  the first cannot work; one listing has a malformed bug; one command has a limit, names
  a lineage twice and one without bugs. Its three safety properties are proved for any
  threads, commands, listings, errors and retries.
* `test_run`: no file, one, or three; three libraries, so that one may agree while
  another differs or is silent; eight effects, of which each mode tells some apart and
  others not, for instructions and transactions; chunks of one and two results, so that
  a third opens a new chunk; lists that are empty, end in a newline, or do not, whose
  last line is blank or names a directory that is there, one that is missing, or one that
  is missing with its parent; two failures, so that the second meets what the first left.
  Files with one stem are covered by `test_run_stems`; the passing run has distinct
  stems, as its two properties say in their names. All its invariants are proved for any
  files, libraries, effects, options, chunk sizes and lists.
* `pipeline`: three artifacts, two with the same payload, so that one is a duplicate and
  one is not; every kind for the second payload; two sessions that ask for the same,
  other or no artifacts, so that the second meets what the first created, copied in part
  or left torn. Its four safety properties are proved for any number.
* `commands`: two or three files for each command, on two processes: with one stem, in
  folders within each other, of every body, harness and format; every option at both of
  its values. Rows and addresses have two bytes instead of 16 and 32; all data of up to
  five bytes, each zero or not, are decoded, so that a run of zeros begins, ends and
  crosses rows in every way. Its four invariants are proved for any files, options,
  libraries, numbers of processes, and row and address lengths.
* `sancov`: two processes (the races are between two), at most two kills, no compiler or
  two, libraries that need recognised symbols, others, both or none. The two safety
  properties are proved for any number.
* Symmetry is not used: most of these runs check liveness, and the artifacts, files and
  libraries of the others are not alike.

`CHECK_DEADLOCK FALSE` is stated because each of these systems stops for good: a call
returns, the last session or run ends, a command ends, every process has loaded or
raised. That they do not stop earlier is what `Termination`, `SessionEnds`,
`CommandEnds` and `EveryLoadEnds` check. `Pipeline` and `FileCommands` have no liveness
property: their loops are over lists that only get shorter.

### Fairness

* `WorkerPool!FairSpec`: the calling thread and the executor each take a step when they
  can, which is what an operating system's scheduler gives them. It includes that a call
  of the function ends: process_items has no timeout, and a library that loops for ever
  does hang the command.
* `Download!FairSpec`: each thread makes progress; the HTTP client has a timeout, so a
  request returns or fails. Faults and reruns are never forced.
* `CrashDownload!Fairness`: the same for its call, its threads and the end of the batch;
  neither a kill nor another command is forced, and which error an attempt has, or
  whether it has one, is not either.
* `EnvSpec`: the command goes on while it can; the pool's part is `WorkerPool`'s
  `Termination`.
* `SancovStub!Spec`: each process goes on by itself; kills are bounded by `MaxKills`.

## 4. Findings

Each is a place where a comment, a help text or the repository's README says one thing
and the code does another.

1. **A truncated cache file is taken for the artifact** (`multiprocessing_utils.py:998,
   1048`; run `download_race`). Two repros share an artifact. One thread has opened the
   cache file for writing, the other finds that it exists, reads nothing, saves an empty
   fixture and reports success. No fault is needed. The comments speak of "Thread-safe
   deduplication variables" (`:46`) and of a "cached file" (`:998`).
2. **A claim outlives its failed write** (`multiprocessing_utils.py:128`; run
   `download_claim`). The name is put in `_extracted_fixtures` before the file is opened.
   When the write fails, a second thread skips the fixture and reports success, although
   it is nowhere, against the comment at `:1062-1063`.
3. **Verdicts are kept by stem** (`log_utils.py:72`; run `test_run_stems`). Of two files
   with one stem, a passing one is saved among the failures, and with the same name it
   overwrites the one that failed; `test_suite.py:527-528` promises the failed test cases.
4. **A raw crash input ends debug-mismatches** (`fixture_utils.py:67`; run
   `pipeline_raw`). A repro that has only a raw crash file is saved as `<hash>.fix`;
   `read_fixture` returns `None` for it, `create_fixture` asks the `None` for its
   metadata, and the command ends before any test, against
   `multiprocessing_utils.py:1017-1020`, which says that "callers like debug-mismatches
   will convert them to fixtures via create-fixtures".
5. **A stub that is being linked is taken for the stub** (`sanitizer_utils.py:123`; run
   `sancov_race`). `stub_so.exists()` is true from the moment another command's linker
   has created the file. The second command preloads nothing, since a failed preload is
   only warned of, and its load of the target fails; `:78` promises a library "that
   provides dummy sanitizer coverage symbols".
6. **FlatBuffers fixtures are not transparent** (`multiprocessing_utils.py:384`; read off
   `FileCommands`, no run). `read_fixture` returns `None` for each of them:
   create-fixtures, decode-protobufs and execute raise, fix-to-ctx writes nothing and
   counts 0. `README.md:133` of the repository says "FlatBuffers fixtures work
   transparently with all commands".
7. **`--output-format` is not read** (`fixture_utils.py:131`; read off
   `WriteFixtureToDisk`, no run). Protobuf is written whatever is asked for; the help at
   `test_suite.py:340` offers `auto`, `protobuf` and `flatbuffers`.
8. **`OCTANE_API_URL` is not asked** (`octane_utils.py:33`; theorem
   `UrlVariableIsIgnored`, no run). Every command builds its client with the origin of
   `get_octane_api_origin`, which is the default server when nothing is set, so the
   client's own look at `OCTANE_API_URL` (`octane_api_client.py:455-460`) comes too late.
   `README.md:312` of the repository lists the variable as the one that overrides the
   default endpoint.
9. **No FlatBuffers fixture is converted** (`flatbuffers_utils.py:1082`; read off
   `ConvertFileToProtobuf`, no run). `save_as_protobuf` returns `False` without a
   Protobuf message, which such a fixture never has; `:1112` says "Convert a fixture file
   (FlatBuffers or Protobuf) to Protobuf format" and `:1092` "converting if needed".

10. **A missing directory becomes a file** (`test_suite.py:2304`; theorem
    `ListedIsCopiedHolds`, no run). create-env copies to the directory of the list's last
    line. If that is missing from a directory that is there, `copy2` makes a plain file of
    its name, and every further failure overwrites it. All failures are in the list, one
    file is left of them, and the command ends well: `:2305` prints "Copied to", `:2307`
    "Successfully processed", `:2309` "Copied fixtures to".

Behaviours no text of the repository denies, which the models have and a reader may not
expect:

* *What a kill leaves in created fixtures.* `NoInputIsLost` speaks of one session. After
  a kill between `rmtree` and the end of `copytree` (`test_suite.py:1564-1565`) an input
  may be left in the created-fixtures directory alone, and the next session empties that
  directory first (`:1544`) and downloads what it asks for again.
* *What stays torn.* A file torn by a kill during the download stays in `inputs`, counts
  as downloaded in every later session, and makes each of them end in `create_fixtures`.
  The same holds for a crash file.
* *One bad file among many.* An unreadable file ends run-tests without logs: `run_test`
  uses the `None` that `read_context` gives it. One bug without a hash fails the whole
  listing. One regenerated fixture of a scalar harness answers `None`, over which the
  sum raises when all are done; one gossip fixture is an `AssertionError`.
* *Scalar harnesses.* create-fixtures raises on them; fix-to-ctx leaves an empty `.bin`
  and counts 0; exec-fixtures raises. A file without the `.fix` extension given to
  exec-fixtures returns a pair where three values are unpacked.
* *Readable output.* `write_fixture_to_disk` decodes every fixture as an `InstrFixture`, so
  only that harness can have readable fixtures or be filed by program, and a readable
  fixture (`.fix.txt`) cannot be read back by any command.
* *Formats.* Garbage of at least eight bytes may pass `validate-fixtures` as FlatBuffers,
  which looks at the head of a file.
* *check-deps.* FlatBuffers support is called ready when one of the five generated modules
  is there that importing it needs (`flatbuffers_utils.py:59, 182-192`).
* *Hashes.* Of a hash in an ELF loader's effects eight bytes are kept; a shorter one is
  dropped without a word (`flatbuffers_utils.py:846-860`). A library's own hashes have
  eight.
* *Credentials.* A credentials file that is found but cannot be loaded ends a download
  from Google's storage; the default credentials, which might work, are not tried
  (`octane_api_client.py:870-884`).
* *Names.* Files of the commands on files are written by stem alone, whatever folder they
  came from. Of one crash hash in two lineages only the record cached last is saved, under
  its lineage, for both items.
* *Sanitizer.* `__sancov_lowest_stack` is in the stub but not among the patterns that
  make the loader fetch it (`sanitizer_utils.py:327-332`).
* *Options.* debug-mismatch calls `run_tests` as a function without `failures_only`
  (`test_suite.py:1713`), so that its value is typer's option object, which is true.

## 5. Proofs

All proofs are for every value of the constants under their named assumptions:

| Assumption | What it says |
|---|---|
| `CallsAssumption` (`WorkerPool`) | types the calls |
| `WorkerAssumption`, `ReproAssumption`, `WorldsAssumption`, `SessionsAssumption` (`Download`) | the pool is finite; a payload is not one of the two markers of a file without one; types of the tables |
| `CrashAssumption`, `CommandAssumption`, `ReplyAssumption` (`CrashDownload`) | there is a thread; errors are status codes or other exceptions; what a command line is (a section of its list has a name); a reply is what the client's parser takes, and no crash input is the marker of a torn file |
| `PipelineAssumption` | types the worlds |
| `TestRunAssumption`, `CreateEnvAssumption` | types; no library is given twice; an answer that is none, and a chunk that is none, is marked by nothing that occurs; the root is a place; a place that is a directory is not one where a file can be made. Which directories a list names is left open |
| `CodecsAssumption`, `FormatsAssumption` | rows and addresses have at least one byte; FlatBuffers are installed or not |
| `FileCommandsAssumption`, `WorldsAssumption`, `FilesAssumption` (`FileCommands`) | at least one process; an option a command does not have is at its default; the input is finitely many files, whose bodies are contexts or readable ones; what an earlier run left is marked `old`; printable text does not look like FlatBuffers, as its first four bytes are an offset beyond the 1024 that `is_flatbuffers_format` accepts |
| `SancovAssumption` | types the worlds |

TLC evaluates each of them in the runs.

**WorkerPoolProofs.** `IInv` is inductive: besides `TypeOK` it says that a collected
item has an `ok` future (`CollectedOk`) and is collected once (`Injective`), that a
worker's job is an item that is running, on no other worker (`JobsRun`, `JobsDiffer`),
that nothing is begun before the entry is left
(`NothingBegun`), that the serial loop is in order (`InOrder`), that exactly the
submitted items have left `unsent` (`Submitted`), and what holds at the ends of the
phases (`AllSettled`, `ReturnedAll`, `OnlyABrokenPoolLoses`). `ReturnsEverything` or
`Quiescent` alone say nothing about the states on the way, so neither is inductive.
There is one lemma per action or group of like actions; `NextIInv` combines them.
From it: `TypeCorrect`, `ReturnsEverythingHolds`, `QuiescentHolds`,
`AfterAnExceptionHolds`, `SettledForGoodHolds`, and `BatchMapHolds`, the refinement
`Spec => IsABatchMap`: each action is shown to begin, end, answer, return, raise or
stutter in `BatchMap`.

**DownloadProofs.** `IInv` adds to `TypeOK`, `OneWriter` and `Provenance` that a working
thread is at an artifact of its repro's list, that a thread on its way to write a
fixture has its claim, that no such fixture is complete yet, and that what a thread
carries, and what the cache holds, is `partial` or the payload of a repro that lists the
artifact. The argument for one writer is the critical section of `Claim`: test and
claim are one step, and the claim is only forgotten when all threads are gone. The
argument for provenance goes through the cache, which is why the invariant must speak of
it. Theorems: `TypeCorrect`, `OneWriterHolds`, `ProvenanceHolds`,
`NeverRewrittenHolds`.

The four properties of what a command reports need invariants of their own, on top of
`IInv`, because they speak of answers, which `IInv` does not:

* `Counted`: every item handed out is in some thread's hand or answered. It gives
  `EveryItemAnsweredHolds`.
* `Fetched` and `Delivered`: while no write fails, what is claimed, what a thread has
  passed in its list of artifacts, and what a successful repro lists is on disk or
  about to be created by its claimer. The last clause is why a *skipped* artifact may be
  reported, and it is the one a failing write breaks (finding 2). They give
  `ReportedIsThereHolds`.
* `Undisturbed`: in a calm world (no artifact listed twice, no fault but a failing
  request) no two threads meet on a repro and a truncated file is one a thread has open
  for writing. A shared artifact breaks it (finding 1). It gives `ReportedIsWholeHolds`.
* `Owned`: there is an attribution of every claimed file to the thread that claimed it,
  and to the result of its item later, under which every count is that of the files
  attributed. The attribution is existentially quantified, as the code keeps none; with
  it `FixtureCountHolds` is a sum of the sizes of disjoint sets (`SumOfParts`).

**CrashDownloadProofs.** `IInv` is, besides types: no thread outlives its command
(`AllIdle`); a call goes on while its errors were transient and few (`Retrying`); the
list is empty before the reply and its records are cached after it (`Listed`); a busy
thread has a bug of the list, that bug's path, and of its URLs each is tried or left
(`Threads`); an item handed out is in hand or answered (`Counted`); a result says what
is so (`Truthful`); a torn file is one a thread is about to write (`TornIsOpen`); and
`CrashContent`. `CrashContent` is not inductive alone: a thread's next write is right
only because the payload it carries is offered by the bug of its path, and that this
bug is the one *cached* for the item's hash, not the item's own, is what `OwnPath` says.
`DownloadListed` and `VerifiedListed` are about the client's parser: what is listed is
what the reply holds. Theorems: `NoEarlyFailureHolds`, `CrashContentHolds`,
`ReportedCrashIsThereHolds`.

Of `Client` three facts are proved. `ReproIsFixtureElseCrash`: a download over the URLs
of two storages one after the other is a download over the first and, if none of them
works, exactly one over the second (`OneAfterTheOther`), errors included.
`CallsAreBounded`: the loop of `octane_api_call` ends by attempt `max_retries + 1`, with
a result if there was one and with an error otherwise only when that may not be repeated
or the attempts are used up. `UrlVariableIsIgnored` is finding 8 for any environment.

**PipelineProofs.** `IInv` says what each stage has done to the names it has come to
(`Deduping`, `Clearing`, `Creating`, `Removing`, `Copying`) and what the finished stages
promise the next one (`Deduped`, `Replaced`, `Testing`). The notion that carries it is
`Replacement(dir)`: fixtures created from files that were found, one for every accepted
payload, and one for all files with the same bytes. `CreationDone` is where
`created` becomes a replacement: a duplicate that deduplication dropped has a twin that
was kept, and the invariant has to say that each content it has seen is still there.
While the inputs are removed and copied `created` stays a replacement, which is
`NoInputIsLost`; when every file is copied, so are the inputs, and then the tested
files. Theorems: `TypeCorrect`, `TestedIsCreatedHolds`, `TestedIsWhatWasFoundHolds`,
`TestedOnceHolds`, `NoInputIsLostHolds`, from `PipelineAssumption` alone, which types
the worlds.

**TestRunProofs.** `ResultOf` settles one file: a result is 1, 0 or -1, 1 exactly when
the file conforms and 0 exactly when the reference gives nothing. `IInv` carries that
through the command: every result is that of a file of the input (`ResultsRight`), in
order with `--fail-early` (`InOrder`); testing ends with every file answered or at a
failure (`Complete`); the counts and the failed stems are those of the results the
logging loop has gone through, `Seen` (`Counted`); `failed_protobufs` holds the failing
files among those the copy loop has gone through, `Copied` (`SavedRight`, which needs
distinct stems); and where each loop is (`AtRange`). `VerdictIsRight` or
`FailuresAreSaved` speak of the end alone, so the invariant has to say how far each loop
is. Two more invariants rest on it. `Tally` and `Once` (each result gone
through is counted under its status, no file is answered twice) give `CountsAreRight`,
by a bijection between results and files. `Logs` gives
`LogIsCompleteWithDistinctStems`: a chunk that is not full is open (`ChunkIsOpen`), a
chunk is named by a result gone through (`ChunksAreNamed`, without which opening one
might overwrite another), and the chunks hold what is due, nothing else, in one place
(`AllLogged`, `NothingElseLogged`, `LoggedOnce`). For create-env `EnvInv` says how far
the command is (`Stage`), that the list keeps what it held and goes on in the directory
of its last line (`Extended`), that what is copied, or lies in place of a directory, is a
failure with an entry (`CopiesRight`), that each new entry but perhaps the last got its
copy, later overwritten or not (`AllArrived`), and that the names are those of the
failures gone through (`NamesRight`); entries are told apart by position, because an old
one may equal a new one. `DiffIsAnEquivalence` is the heart of `ModesAreSound`: but for transactions in
consensus mode the comparison is reflexive, symmetric and transitive in every mode, so
what agrees with the reference agrees with each other. Theorems: `TypeCorrect`,
`VerdictIsRightHolds`, `ModesAreSoundHolds`, `FailuresAreSavedHolds`,
`CountsAreRightHolds`, `LogIsCompleteHolds`, `ListedIsCopiedHolds`, and
`EnvImplementsRun`: `EnvSpec => Spec`, create-env changes nothing of the run it begins
with, so each of these holds within create-env.

**SancovStubProofs.** `IInv` is `TypeOK` and, while no build was overlapped, interrupted
or failed (`Undisturbed`), that one process at most is building and what the source and
the stub hold at each of its steps (`BuilderRight`), that the stub is whole once no one
builds (`StubRight`), and that a process that knows a stub knows a whole one (`Knows`).
Without the last two the step of a second process, which reads the file's existence and
then loads, could not be judged. Theorems: `TypeCorrect`, `BuiltOnceHolds`,
`LoadsUndisturbedHolds`, for any number of processes, kills, compilers and libraries.

**FileCommandsProofs.** The data first, then the command.

* *Codecs.* `HexReadsBack`: `decode_hex_compact` undoes `encode_hex_compact`, for bytes
  and rows of any length. The encoder skips rows of zeros and counts them, so the
  invariant of its loop over rows is that the text so far decodes to the bytes so far
  less the zeros skipped (`Reads`, `RowReads`). `FieldReadsBack` and `ContextReadsBack`
  extend it to every field rule and every harness.
* *Features.* `RekeyedIsFate`: rekeying a set pair by pair takes every id where it goes
  alone, for any chain of pairs. The code renames in the set, which merges ids that
  meet, so this is not immediate.
* *One handler.* `HandlerRight`: whatever file a handler is given, what it answers has
  the effects of its own context and features, and reads back if it is readable. It has
  a lemma per command.
* *The command.* Four invariants, each on top of the one before. `Progress`: how far the
  folder's tasks are; a task's answer is its handler's. `Whole`: what a path may hold (a
  copy, a handler's content, a mixture of two processes' if two handlers have the path),
  unless a task has it open. `Totals`: the files of done folders are there and the sum
  is the number of their answers. `Lasting`: no later folder has removed or overwritten
  the fixture of a done one, unless it wrote it again; this is where the folders' order,
  a set's, must not matter. `SameHandler` and its like say that all this depends on the
  world alone, which never changes.

* *FlatBuffers.* `RegeneratedElfReadsBack`: extracting what `_regenerate_fb_fixture`
  builds gives the old entrypoint and input with the new features, and the library's
  effects, whatever parts the old fixture lacked. It needs that a hash out of a table has
  eight bytes or none (`TableHash`); for others it is false.
* *Sets of features.* `ProposedFeaturesAreNearest`: `min_compatible_featureset` gives a
  compatible set that changes no more than any other compatible one.

Theorems: `OutputIsRightHolds`, `EffectsBelongHolds`, `DecodedReadsBackHolds` (from
`Whole` and `HandlerRight`, the first with `Totals`), `NothingIsLostHolds` (from
`Lasting`), `HexReadsBack`, `RekeyedIsFate`, `RegeneratedElfReadsBack`,
`ProposedFeaturesAreNearest`.

**DataLemmas.** An induction theorem of the library has an operator as a parameter,
which these provers cannot instantiate. Its use is replaced by a least counterexample:
the numbers at which a statement fails are a set, and `LeastNatural` gives its least
element (`UpTo` is the form most proofs cite). `RecursionExists` shows that a recursive
function over `0..n` exists, which `CHOOSE` alone does not; from it `FlattenRange` and
`FlattenAppend` about concatenating many sequences. The rest is on maxima, ranges of
sequences, and division.

**Only model-checked.** The liveness properties: `Termination`, `SessionEnds`,
`CommandEnds` (of `CrashDownload` and of create-env) and `EveryLoadEnds`. They rest on
fairness, whose `ENABLED` is out of the prover's reach. Every safety property the
passing runs check is a theorem.

## 6. What is not modelled, and why

* `ctypes` calls and what a library computes: external code; a library is a function
  from a file to effects, no effects, or a crash.
* The wording of logs, progress bars, summaries and effect dumps; back-off times.
* The shared output buffer of the libraries (`multiprocessing_utils.py:202`): what it
  holds between calls is the libraries' matter.
* debug-mismatch: one download, one creation and one test in a directory it empties
  first, which are modelled each; it has no state of its own. list-repros,
  list-harness-types and check-deps only print; what check-deps finds is `DependencyStatus`.
* Requests no command makes: statistics and bundle manifests, which are returned as they
  arrive, and those of `_request_with_retries` in `util.py`. (Other client code that no
  command reaches is part of the client's interface and is in `Client`.)
* The detectors' second opinion (`validate=True`), which nobody asks for.
* Other code without a caller, or without an effect: `validation_utils.py`, `find_closest_elf_corpus`, the
  prune functions of instructions and transactions (commented out in the harness table),
  and the fixture transformations, which are empty.
* The lookup of the sanitizer runtime (libasan): a file that is there or not, nothing is
  built.
* The generators of test inputs (7 297 lines), migrations, protobuf definitions and
  shell scripts: programs that run once, from a table to files. They are almost half of
  the repository's lines and have no state and no order.

## 7. Plan

What would come next:

1. *An abstract specification of `Pipeline`* in which the inputs are replaced at once,
   and its refinement; the invariant of `PipelineProofs` has what it needs.
2. *The specialised prune functions*, once the harness table names them again, and the
   lookup of libasan beside that of the stub.
