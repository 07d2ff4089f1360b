------------------------------ MODULE Download ------------------------------
(***************************************************************************)
(* download_fixtures (test_suite.py): a thread pool runs                   *)
(* download_and_process (multiprocessing_utils.py) over the list of repros *)
(* the caller asked for.  The threads share the artifact cache and the     *)
(* inputs directory on disk, which outlive the process, and the set of     *)
(* fixtures extracted in this session, which does not.                     *)
(*                                                                         *)
(* A file's content is "absent", "partial" (truncated by open("wb"), or    *)
(* bytes that are nobody's payload) or the repro whose payload it is.      *)
(***************************************************************************)
EXTENDS Naturals, Sequences, FiniteSets, Functions

CONSTANTS
    Repro,          \* repro (bug) hashes
    Hash,           \* artifact hashes
    Worker,         \* the threads of the pool
    Worlds,         \* what may be asked for, and what may go wrong meanwhile
    MaxSessions     \* bound: how often the command is run on one output directory

Fault == {"download", "write", "crash"}

ASSUME WorkerAssumption == IsFiniteSet(Worker)

ASSUME ReproAssumption == Repro \cap {"absent", "partial"} = {}

ASSUME WorldsAssumption ==
    Worlds \subseteq [list   : Seq(Repro),             \* download_list
                      hashes : [Repro -> Seq(Hash)],   \* artifact_hashes
                      faults : SUBSET Fault]

ASSUME SessionsAssumption == MaxSessions \in Nat

VARIABLES
    world,
    session,    \* which run of the command this is
    phase,      \* "running", "finished" or "crashed"
    next,       \* how many items of the list the pool has handed out, plus one
    thread,     \* what each worker is doing
    cache,      \* <output_dir>/.artifact_cache/<hash>.bin
    inputs,     \* <output_dir>/inputs/<hash>.fix
    extracted,  \* _extracted_fixtures
    results     \* what the finished items returned

disk == <<cache, inputs>>
vars == <<world, session, phase, next, thread, cache, inputs, extracted, results>>

Content == Repro \cup {"absent", "partial"}

Idle == [pc |-> "idle"]

Step == {"lookup", "open_cache", "write_cache", "claim", "open_fix", "write_fix"}

\* A thread about to look for the k-th artifact of repro r.
Lookup(r, k, saved) ==
    [pc |-> "lookup", repro |-> r, k |-> k, data |-> "absent", saved |-> saved]

\* The artifact worker w is at.
At(w) == world.hashes[thread[w].repro][thread[w].k]

Success(r, n) == [repro |-> r, success |-> TRUE, fixtures |-> n]
Failure(r) == [repro |-> r, success |-> FALSE, fixtures |-> 0]

Init ==
    /\ world \in Worlds
    /\ session = 1
    /\ phase = "running"
    /\ next = 1
    /\ thread = [w \in Worker |-> Idle]
    /\ cache = [h \in Hash |-> "absent"]
    /\ inputs = [h \in Hash |-> "absent"]
    /\ extracted = {}
    /\ results = << >>

-----------------------------------------------------------------------------
(***************************************************************************)
(* Faulty variants, exchanged for the definition they are named after to   *)
(* show that a property is able to fail; nothing else uses them.           *)
(***************************************************************************)
FaultyGoto(w, pc, data) ==
    thread' = [thread EXCEPT ![w] = [@ EXCEPT !.pc = pc, !.data = data]]

\* the record is looked up when the download starts, in a shared variable
FaultyFetch(w) ==
    /\ thread[w].pc = "lookup"
    /\ cache[At(w)] = "absent"
    /\ FaultyGoto(w, "open_cache", world.list[next - 1])
    /\ UNCHANGED <<world, session, phase, next, disk, extracted, results>>

\* only the first artifact of a repro is processed
FaultyAdvance(w, saved) ==
    /\ thread' = [thread EXCEPT ![w] = Idle]
    /\ results' = Append(results, Success(thread[w].repro, saved))

\* only this session's fixtures count as present
FaultyClaimed(h) == h \in extracted

\* a skipped fixture is counted as a new one
FaultySkip(w) ==
    /\ thread[w].pc = "claim"
    /\ inputs[At(w)] # "absent" \/ At(w) \in extracted
    /\ FaultyAdvance(w, thread[w].saved + 1)
    /\ UNCHANGED <<world, session, phase, next, disk, extracted>>

\* the name is looked up in the set and never added to it
FaultyClaim(w) ==
    /\ thread[w].pc = "claim"
    /\ inputs[At(w)] = "absent" /\ At(w) \notin extracted
    /\ FaultyGoto(w, "open_fix", thread[w].data)
    /\ UNCHANGED <<world, session, phase, next, disk, extracted, results>>

\* the file is created and left empty
FaultyWriteFix(w) ==
    /\ thread[w].pc = "write_fix"
    /\ FaultyAdvance(w, thread[w].saved + 1)
    /\ UNCHANGED <<world, session, phase, next, disk, extracted>>

\* an exception ends the item without a result
FaultyFailSilently(w) ==
    /\ "download" \in world.faults
    /\ thread[w].pc = "lookup"
    /\ thread' = [thread EXCEPT ![w] = Idle]
    /\ UNCHANGED <<world, session, phase, next, disk, extracted, results>>

\* an artifact that cannot be cached is downloaded again, for ever
FaultyFailRetries(w) ==
    /\ "write" \in world.faults
    /\ thread[w].pc = "open_cache"
    /\ FaultyGoto(w, "lookup", "absent")
    /\ UNCHANGED <<world, session, phase, next, disk, extracted, results>>

\* list positions are counted from zero
FaultyRerun ==
    /\ phase # "running"
    /\ session < MaxSessions
    /\ session' = session + 1
    /\ phase' = "running"
    /\ next' = 0
    /\ extracted' = {}
    /\ results' = << >>
    /\ UNCHANGED <<world, thread, disk>>

-----------------------------------------------------------------------------
(***************************************************************************)
(* The pool hands the items out in list order.  A repro without artifacts  *)
(* is answered at once.                                                    *)
(***************************************************************************)
Take(w) ==
    /\ phase = "running"
    /\ thread[w] = Idle
    /\ next <= Len(world.list)
    /\ next' = next + 1
    /\ LET r == world.list[next] IN
         IF world.hashes[r] = << >>
         THEN /\ results' = Append(results, Failure(r))
              /\ UNCHANGED thread
         ELSE /\ thread' = [thread EXCEPT ![w] = Lookup(r, 1, 0)]
              /\ UNCHANGED results
    /\ UNCHANGED <<world, session, phase, disk, extracted>>

Goto(w, pc, data) ==
    thread' = [thread EXCEPT ![w] = [@ EXCEPT !.pc = pc, !.data = data]]

\* artifact_cache_path.exists(): whatever the file holds is the artifact.
ReadCache(w) ==
    /\ thread[w].pc = "lookup"
    /\ cache[At(w)] # "absent"
    /\ Goto(w, "claim", cache[At(w)])
    /\ UNCHANGED <<world, session, phase, next, disk, extracted, results>>

\* client.download_bug_repro(bug_record): one payload for all its artifacts.
Fetch(w) ==
    /\ thread[w].pc = "lookup"
    /\ cache[At(w)] = "absent"
    /\ Goto(w, "open_cache", thread[w].repro)
    /\ UNCHANGED <<world, session, phase, next, disk, extracted, results>>

OpenCache(w) ==
    /\ thread[w].pc = "open_cache"
    /\ cache' = [cache EXCEPT ![At(w)] = "partial"]
    /\ Goto(w, "write_cache", thread[w].data)
    /\ UNCHANGED <<world, session, phase, next, inputs, extracted, results>>

(***************************************************************************)
(* Two threads may have the file open: the bytes of the second one to      *)
(* write replace those of the first, which may be longer.                  *)
(***************************************************************************)
WriteCache(w) ==
    /\ thread[w].pc = "write_cache"
    /\ \E c \in {thread[w].data} \cup
                (IF cache[At(w)] \in {"partial", thread[w].data} THEN {} ELSE {"partial"}) :
          cache' = [cache EXCEPT ![At(w)] = c]
    /\ Goto(w, "claim", thread[w].data)
    /\ UNCHANGED <<world, session, phase, next, inputs, extracted, results>>

-----------------------------------------------------------------------------
\* On to the next artifact of the repro, or the result when it was the last.
Advance(w, saved) ==
    IF thread[w].k < Len(world.hashes[thread[w].repro])
    THEN /\ thread' = [thread EXCEPT ![w] =
                         Lookup(thread[w].repro, thread[w].k + 1, saved)]
         /\ UNCHANGED results
    ELSE /\ thread' = [thread EXCEPT ![w] = Idle]
         /\ results' = Append(results, Success(thread[w].repro, saved))

Claimed(h) == inputs[h] # "absent" \/ h \in extracted

(***************************************************************************)
(* save_raw_artifact: the test and the claim are one critical section, the *)
(* file is opened and written after the lock has been released.            *)
(***************************************************************************)
Skip(w) ==
    /\ thread[w].pc = "claim"
    /\ Claimed(At(w))
    /\ Advance(w, thread[w].saved)
    /\ UNCHANGED <<world, session, phase, next, disk, extracted>>

Claim(w) ==
    /\ thread[w].pc = "claim"
    /\ ~Claimed(At(w))
    /\ extracted' = extracted \cup {At(w)}
    /\ Goto(w, "open_fix", thread[w].data)
    /\ UNCHANGED <<world, session, phase, next, disk, results>>

OpenFix(w) ==
    /\ thread[w].pc = "open_fix"
    /\ inputs' = [inputs EXCEPT ![At(w)] = "partial"]
    /\ Goto(w, "write_fix", thread[w].data)
    /\ UNCHANGED <<world, session, phase, next, cache, extracted, results>>

WriteFix(w) ==
    /\ thread[w].pc = "write_fix"
    /\ inputs' = [inputs EXCEPT ![At(w)] = thread[w].data]
    /\ Advance(w, thread[w].saved + 1)
    /\ UNCHANGED <<world, session, phase, next, cache, extracted>>

(***************************************************************************)
(* Every exception ends the item with a failure result: nothing it did is  *)
(* undone, neither a truncated file nor its claim.  Before the first write *)
(* it is the metadata request, mkdir, the cache or the download.           *)
(***************************************************************************)
Fail(w) ==
    /\ \/ /\ "download" \in world.faults
          /\ thread[w].pc = "lookup"
       \/ /\ "write" \in world.faults
          /\ thread[w].pc \in {"open_cache", "write_cache", "open_fix", "write_fix"}
    /\ thread' = [thread EXCEPT ![w] = Idle]
    /\ results' = Append(results, Failure(thread[w].repro))
    /\ UNCHANGED <<world, session, phase, next, disk, extracted>>

-----------------------------------------------------------------------------
\* process_items returns; the command prints its summary and ends.
Finish ==
    /\ phase = "running"
    /\ next > Len(world.list)
    /\ \A w \in Worker : thread[w] = Idle
    /\ phase' = "finished"
    /\ UNCHANGED <<world, session, next, thread, disk, extracted, results>>

\* The process is killed: only the disk is left.
Crash ==
    /\ "crash" \in world.faults
    /\ phase = "running"
    /\ phase' = "crashed"
    /\ thread' = [w \in Worker |-> Idle]
    /\ extracted' = {}
    /\ UNCHANGED <<world, session, next, disk, results>>

\* The command is run again on the same output directory.
Rerun ==
    /\ phase # "running"
    /\ session < MaxSessions
    /\ session' = session + 1
    /\ phase' = "running"
    /\ next' = 1
    /\ extracted' = {}
    /\ results' = << >>
    /\ UNCHANGED <<world, thread, disk>>

Work(w) ==
    \/ Take(w) \/ ReadCache(w) \/ Fetch(w) \/ OpenCache(w) \/ WriteCache(w)
    \/ Skip(w) \/ Claim(w) \/ OpenFix(w) \/ WriteFix(w) \/ Fail(w)

Next == Finish \/ Crash \/ Rerun \/ \E w \in Worker : Work(w)

Spec == Init /\ [][Next]_vars

(***************************************************************************)
(* The operating system schedules every thread, and every request ends:    *)
(* the HTTP client has a timeout.                                          *)
(***************************************************************************)
FairSpec == Spec /\ WF_vars(Finish) /\ \A w \in Worker : WF_vars(Work(w))
-----------------------------------------------------------------------------
Busy == [pc : Step, repro : Repro, k : Nat \ {0}, data : Content, saved : Nat]

TypeOK ==
    /\ world \in Worlds
    /\ session \in Nat
    /\ phase \in {"running", "finished", "crashed"}
    /\ next \in Nat \ {0}
    /\ thread \in [Worker -> {Idle} \cup Busy]
    /\ cache \in [Hash -> Content]
    /\ inputs \in [Hash -> Content]
    /\ extracted \in SUBSET Hash
    /\ results \in Seq([repro : Repro, success : BOOLEAN, fixtures : Nat])

\* Artifact h is one of those listed for repro r.
Lists(r, h) == \E k \in DOMAIN world.hashes[r] : world.hashes[r][k] = h

Successes == {results[k].repro : k \in {j \in DOMAIN results : results[j].success}}

Writing(w) == thread[w].pc \in {"open_fix", "write_fix"}

(***************************************************************************)
(* multiprocessing_utils.py:46 calls the set and its lock "Thread-safe     *)
(* deduplication variables": no two threads are ever on their way to open  *)
(* or write the same file of the inputs directory.                         *)
(***************************************************************************)
OneWriter ==
    \A v, w \in Worker : v # w /\ Writing(v) /\ Writing(w) => At(v) # At(w)

(***************************************************************************)
(* A complete fixture in the inputs directory is never touched again, by   *)
(* any thread of this session or of a later one (save_raw_artifact:115).   *)
(***************************************************************************)
NeverRewritten ==
    [][\A h \in Hash : inputs[h] \in Repro => inputs'[h] = inputs[h]]_vars

(***************************************************************************)
(* The bytes of a fixture come from a repro that lists it, however often   *)
(* they went through the cache on the way.                                 *)
(***************************************************************************)
Provenance ==
    \A h \in Hash : inputs[h] \in Repro => Lists(inputs[h], h)

(***************************************************************************)
(* The "new fixture(s)" the results report (:1070) are never more than the *)
(* files claimed in the session, whoever lists the same artifact, and are  *)
(* exactly those files when every item succeeded.                          *)
(***************************************************************************)
FixtureCount ==
    LET reported == FoldFunction(LAMBDA r, n : r.fixtures + n, 0, results) IN
    phase # "crashed" =>
        /\ reported <= Cardinality(extracted)
        /\ phase = "finished" /\ (\A k \in DOMAIN results : results[k].success) =>
               reported = Cardinality(extracted)

(***************************************************************************)
(* multiprocessing_utils.py:1062: "Not extracting new fixtures just means  *)
(* they already exist".  When an item is reported successful, each of its  *)
(* artifacts is in the inputs directory by the end of the session.         *)
(***************************************************************************)
ReportedIsThere ==
    phase = "finished" =>
        \A r \in Successes, h \in Hash : Lists(r, h) => inputs[h] # "absent"

\* ReportedIsThere of a disk that takes every write.
ReportedIsThereUnlessWriteFails ==
    "write" \notin world.faults => ReportedIsThere

(***************************************************************************)
(* A fixture that was reported is a whole one: no file that a successful   *)
(* item counts on is left truncated, or filled from a truncated cache file *)
(* (:998 "Use cached file").                                               *)
(***************************************************************************)
ReportedIsWhole ==
    phase = "finished" =>
        \A r \in Successes, h \in Hash : Lists(r, h) => inputs[h] # "partial"

\* No artifact is listed twice, by one repro of the list or by two.
NothingShared ==
    \A i, j \in DOMAIN world.list :
        \A k \in DOMAIN world.hashes[world.list[i]] :
            \A l \in DOMAIN world.hashes[world.list[j]] :
                world.hashes[world.list[i]][k] = world.hashes[world.list[j]][l]
                    => i = j /\ k = l

(***************************************************************************)
(* ReportedIsWhole where nothing is interrupted and no two threads meet on *)
(* a cache file.                                                           *)
(***************************************************************************)
ReportedIsWholeUndisturbed ==
    NothingShared /\ world.faults \subseteq {"download"} => ReportedIsWhole

(***************************************************************************)
(* Whatever fails, the batch answers every item of the list once and the   *)
(* command ends: no exception of an item reaches the pool (:1072).         *)
(***************************************************************************)
EveryItemAnswered ==
    phase = "finished" => Len(results) = Len(world.list)

SessionEnds == (phase = "running") ~> (phase # "running")
=============================================================================
