------------------------------ MODULE Pipeline ------------------------------
(***************************************************************************)
(* The debug-mismatches command (test_suite.py): download what the repros  *)
(* list into inputs/, deduplicate it, create fixtures from it in           *)
(* create_fixtures/, put those in the place of the inputs, and run the     *)
(* tests.  The command may be killed between any two operations on files   *)
(* and run again on the same output directory.                             *)
(*                                                                         *)
(* The first stage is module Download, seen from outside: a name ends up   *)
(* present, missing or torn.  The last one is module TestRun.  A file is   *)
(* called by its artifact hash: save_raw_artifact names it <hash>.fix, and *)
(* create_fixture keeps the stem.                                          *)
(***************************************************************************)
EXTENDS Naturals, Sequences

CONSTANTS
    Hash,           \* artifact hashes
    Payload,        \* what the fuzzing service stores under them
    Worlds          \* what is asked for, and what may go wrong meanwhile

Fault == {"download", "write", "kill"}

(***************************************************************************)
(* What becomes of a payload in create_fixture: the reference accepts it,  *)
(* rejects it, it is a raw crash input and no fixture, or the library      *)
(* aborts on it.                                                           *)
(***************************************************************************)
Kind == {"accepted", "rejected", "raw", "crashes"}

ASSUME PipelineAssumption ==
    Worlds \subseteq
        [asked     : Seq(SUBSET Hash) \ {<< >>},    \* the artifacts, per session
         payload   : [Hash -> Payload],
         kind      : [Payload -> Kind],
         canonical : SUBSET Payload,        \* creation reproduces the same bytes
         faults    : SUBSET Fault]

VARIABLES
    world,
    session,    \* which run of the command this is
    phase,      \* the stage, or how the session ended
    todo,       \* the names the stage has not come to
    inputs,     \* <output_dir>/inputs
    created,    \* <output_dir>/create_fixtures
    files,      \* what the download left in inputs
    seen,       \* seen_hashes of deduplicate_fixtures_by_hash
    raised,     \* an item, or a copy, raised an exception
    tested      \* the files run_tests was given

vars == <<world, session, phase, todo, inputs, created, files, seen, raised, tested>>

Absent == [form |-> "absent"]
Torn == [form |-> "torn"]
Downloaded(p) == [form |-> "downloaded", of |-> p]
Created(p) == [form |-> "created", of |-> p]

Whole == {Downloaded(p) : p \in Payload} \cup {Created(p) : p \in Payload}
Content == Whole \cup {Absent, Torn}

Names(dir) == {h \in Hash : dir[h] # Absent}
Empty == [h \in Hash |-> Absent]

Stages == {"download", "dedupe", "clear", "create", "remove", "copy", "discard", "test"}
Ends == {"done", "failed", "aborted", "killed"}

Init ==
    /\ world \in Worlds
    /\ session = 1
    /\ phase = "download"
    /\ todo = world.asked[1]
    /\ inputs = Empty
    /\ created = Empty
    /\ files = Empty
    /\ seen = {}
    /\ raised = FALSE
    /\ tested = Empty

\* Leave a stage that has come to every name, for one with its own names.
Proceed(from, to, names) ==
    /\ phase = from
    /\ todo = {}
    /\ phase' = to
    /\ todo' = names

Handle(stage, h) ==
    /\ phase = stage
    /\ h \in todo
    /\ todo' = todo \ {h}
    /\ UNCHANGED phase

-----------------------------------------------------------------------------
(***************************************************************************)
(* Faulty variants, exchanged for the definition they are named after to   *)
(* show that a property is able to fail; nothing else uses them.           *)
(***************************************************************************)
\* the set of seen contents is never filled
FaultyDedupe(h) ==
    /\ Handle("dedupe", h)
    /\ IF inputs[h] \in seen
       THEN inputs' = [inputs EXCEPT ![h] = Absent]
       ELSE UNCHANGED inputs
    /\ UNCHANGED <<world, session, created, files, seen, raised, tested>>

\* what an earlier session created is left where it is
FaultyCleared ==
    /\ phase = "clear"
    /\ phase' = "create"
    /\ todo' = Names(inputs)
    /\ UNCHANGED <<world, session, inputs, created, files, seen, raised, tested>>

\* the pool is not waited for, and its exceptions go unnoticed
FaultyCreationDone ==
    /\ phase = "create"
    /\ phase' = "remove"
    /\ todo' = Names(inputs)
    /\ UNCHANGED <<world, session, inputs, created, files, seen, raised, tested>>

\* copytree(dirs_exist_ok=True) instead of removing the inputs first
FaultyRemoved ==
    /\ phase = "remove"
    /\ phase' = "copy"
    /\ todo' = Names(created)
    /\ UNCHANGED <<world, session, inputs, created, files, seen, raised, tested>>

\* the new fixture wraps the one that was read, instead of its input
FaultyCreate(h) ==
    /\ Handle("create", h)
    /\ inputs[h] \in Whole
    /\ world.kind[inputs[h].of] = "accepted"
    /\ created' = [created EXCEPT ![h] = Created(inputs[h])]
    /\ UNCHANGED <<world, session, inputs, files, seen, raised, tested>>

-----------------------------------------------------------------------------
(***************************************************************************)
(* Download.  A name that is there already is skipped; a failed request    *)
(* leaves nothing and a failed write a torn file, and the command goes on. *)
(***************************************************************************)
Download(h) ==
    /\ Handle("download", h)
    /\ \/ /\ h \in Names(inputs)
          /\ UNCHANGED inputs
       \/ /\ h \notin Names(inputs)
          /\ inputs' = [inputs EXCEPT ![h] = Downloaded(world.payload[h])]
       \/ /\ h \notin Names(inputs)
          /\ "download" \in world.faults
          /\ UNCHANGED inputs
       \/ /\ h \notin Names(inputs)
          /\ "write" \in world.faults
          /\ inputs' = [inputs EXCEPT ![h] = Torn]
    /\ UNCHANGED <<world, session, created, files, seen, raised, tested>>

\* list_repros gives up after its retries, before anything is downloaded.
IndexFails ==
    /\ "download" \in world.faults
    /\ phase = "download"
    /\ todo = world.asked[session]
    /\ phase' = "failed"
    /\ UNCHANGED <<world, session, todo, inputs, created, files, seen, raised, tested>>

DownloadDone ==
    /\ Proceed("download", IF Names(inputs) = {} THEN "failed" ELSE "dedupe", Names(inputs))
    /\ files' = inputs
    /\ seen' = {}
    /\ UNCHANGED <<world, session, inputs, created, raised, tested>>

\* Contents are compared by the hash of their bytes.
Bytes(c) ==
    IF c.form = "downloaded" /\ c.of \in world.canonical THEN Created(c.of) ELSE c

\* Two torn files may have the same bytes, or not.
Dedupe(h) ==
    /\ Handle("dedupe", h)
    /\ \/ /\ Bytes(inputs[h]) \in seen
          /\ inputs' = [inputs EXCEPT ![h] = Absent]
          /\ UNCHANGED seen
       \/ /\ Bytes(inputs[h]) \notin seen \/ inputs[h] = Torn
          /\ seen' = seen \cup {Bytes(inputs[h])}
          /\ UNCHANGED inputs
    /\ UNCHANGED <<world, session, created, files, raised, tested>>

DedupeDone ==
    /\ Proceed("dedupe", "clear", Names(created))
    /\ UNCHANGED <<world, session, inputs, created, files, seen, raised, tested>>

-----------------------------------------------------------------------------
\* rmtree of create_fixtures/, before it is filled and after it was copied.
RemoveCreated(h) ==
    /\ Handle("clear", h) \/ Handle("discard", h)
    /\ created' = [created EXCEPT ![h] = Absent]
    /\ UNCHANGED <<world, session, inputs, files, seen, raised, tested>>

Cleared ==
    /\ Proceed("clear", "create", Names(inputs))
    /\ UNCHANGED <<world, session, inputs, created, files, seen, raised, tested>>

(***************************************************************************)
(* create_fixture, on a pool of processes in any order.  Executing the     *)
(* context of a fixture again gives the same fixture; a raw or torn file   *)
(* makes read_fixture return None and its caller raise, and so does a full *)
(* disk; a rejected input is answered 0.                                   *)
(***************************************************************************)
IsKind(c, kind) == c \in Whole /\ world.kind[c.of] = kind

Create(h) ==
    /\ Handle("create", h)
    /\ LET c == inputs[h] IN
         \/ /\ IsKind(c, "accepted")
            /\ created' = [created EXCEPT ![h] = Created(c.of)]
            /\ UNCHANGED raised
         \/ /\ IsKind(c, "rejected")
            /\ UNCHANGED <<created, raised>>
         \/ /\ IsKind(c, "raw") \/ IsKind(c, "crashes") \/ c = Torn
            /\ raised' = TRUE
            /\ UNCHANGED created
         \/ /\ IsKind(c, "accepted")
            /\ "write" \in world.faults
            /\ created' = [created EXCEPT ![h] = Torn]
            /\ raised' = TRUE
    /\ UNCHANGED <<world, session, inputs, files, seen, tested>>

(***************************************************************************)
(* An exception leaves create_fixtures after the other items have run, or  *)
(* before them when the pool broke or there was none (module WorkerPool);  *)
(* copytree raises when it has tried every file.                           *)
(***************************************************************************)
Abort ==
    /\ raised
    /\ phase = "create" \/ (phase = "copy" /\ todo = {})
    /\ phase' = "aborted"
    /\ UNCHANGED <<world, session, todo, inputs, created, files, seen, raised, tested>>

CreationDone ==
    /\ ~raised
    /\ Proceed("create", "remove", Names(inputs))
    /\ UNCHANGED <<world, session, inputs, created, files, seen, raised, tested>>

-----------------------------------------------------------------------------
\* rmtree(inputs), copytree(create_fixtures, inputs), rmtree(create_fixtures).
RemoveInput(h) ==
    /\ Handle("remove", h)
    /\ inputs' = [inputs EXCEPT ![h] = Absent]
    /\ UNCHANGED <<world, session, created, files, seen, raised, tested>>

Removed ==
    /\ Proceed("remove", "copy", Names(created))
    /\ UNCHANGED <<world, session, inputs, created, files, seen, raised, tested>>

\* One file at a time; it is there, and torn, before it is whole.
OpenCopy(h) ==
    /\ phase = "copy"
    /\ h \in todo
    /\ todo \cap Names(inputs) = {}
    /\ inputs' = [inputs EXCEPT ![h] = Torn]
    /\ UNCHANGED <<world, session, phase, todo, created, files, seen, raised, tested>>

WriteCopy(h) ==
    /\ Handle("copy", h)
    /\ h \in Names(inputs)
    /\ \/ /\ inputs' = [inputs EXCEPT ![h] = created[h]]
          /\ UNCHANGED raised
       \/ /\ "write" \in world.faults
          /\ raised' = TRUE
          /\ UNCHANGED inputs
    /\ UNCHANGED <<world, session, created, files, seen, tested>>

Copied ==
    /\ ~raised
    /\ Proceed("copy", "discard", Names(created))
    /\ UNCHANGED <<world, session, inputs, created, files, seen, raised, tested>>

Discarded ==
    /\ Proceed("discard", "test", {})
    /\ tested' = inputs
    /\ UNCHANGED <<world, session, inputs, created, files, seen, raised>>

\* run_tests reads its inputs and writes elsewhere.
RunTests ==
    /\ Proceed("test", "done", {})
    /\ UNCHANGED <<world, session, inputs, created, files, seen, raised, tested>>

-----------------------------------------------------------------------------
(***************************************************************************)
(* A kill during the download may leave any file torn that a thread was    *)
(* writing.  (A file torn while it is created is removed unread.)          *)
(***************************************************************************)
Kill ==
    /\ "kill" \in world.faults
    /\ phase \in Stages
    /\ \E open \in SUBSET (todo \ Names(inputs)) :
          /\ open # {} => phase = "download"
          /\ inputs' = [h \in Hash |-> IF h \in open THEN Torn ELSE inputs[h]]
    /\ phase' = "killed"
    /\ UNCHANGED <<world, session, todo, created, files, seen, raised, tested>>

Rerun ==
    /\ phase \in Ends
    /\ session < Len(world.asked)
    /\ session' = session + 1
    /\ phase' = "download"
    /\ todo' = world.asked[session + 1]
    /\ raised' = FALSE
    /\ files' = Empty
    /\ tested' = Empty
    /\ UNCHANGED <<world, inputs, created, seen>>

Next ==
    \/ IndexFails \/ DownloadDone \/ DedupeDone \/ Cleared \/ CreationDone \/ Abort
    \/ Removed \/ Copied \/ Discarded \/ RunTests \/ Kill \/ Rerun
    \/ \E h \in Hash :
          \/ Download(h) \/ Dedupe(h) \/ RemoveCreated(h) \/ Create(h)
          \/ RemoveInput(h) \/ OpenCopy(h) \/ WriteCopy(h)

Spec == Init /\ [][Next]_vars
-----------------------------------------------------------------------------
TypeOK ==
    /\ world \in Worlds
    /\ session \in Nat \ {0}
    /\ phase \in Stages \cup Ends
    /\ todo \in SUBSET Hash
    /\ inputs \in [Hash -> Content]
    /\ created \in [Hash -> Content]
    /\ files \in [Hash -> Content]
    /\ seen \in SUBSET Content
    /\ raised \in BOOLEAN
    /\ tested \in [Hash -> Content]

Payloads(dir) == {dir[h].of : h \in {k \in Hash : dir[k] \in Whole}}

\* The payloads of this session that the reference accepts.
Accepted == {p \in Payloads(files) : world.kind[p] = "accepted"}

PastDownload == phase \notin {"download", "failed"} /\ files # Empty

(***************************************************************************)
(* test_suite.py:1564-1569.  The tests run on fixtures whose effects are   *)
(* the reference's and that are whole: no raw download, no torn file and   *)
(* nothing half-copied is among them, whatever a killed session left in    *)
(* the two directories.                                                    *)
(***************************************************************************)
TestedIsCreated ==
    \A h \in Names(tested) : tested[h] \in {Created(p) : p \in Payload}

(***************************************************************************)
(* test_suite.py:1530-1569.  What is tested is what was there after the    *)
(* download and what the reference accepts: deduplication, creation and    *)
(* replacement lose no payload, and nothing an earlier session created     *)
(* comes back.                                                             *)
(***************************************************************************)
TestedIsWhatWasFound ==
    phase \in {"test", "done"} => Payloads(tested) = Accepted

\* util.py:201-222: of files with the same bytes one is tested.
TestedOnce ==
    \A g, h \in Names(tested) : Bytes(files[g]) = Bytes(files[h]) => g = h

(***************************************************************************)
(* test_suite.py:1564-1566.  At every moment from the end of the download  *)
(* on, in a session that was killed or aborted too, each accepted payload  *)
(* is whole in one of the two directories.  (The next session empties the  *)
(* second at :1544 and asks for its own downloads.)                        *)
(***************************************************************************)
NoInputIsLost ==
    PastDownload => Accepted \subseteq Payloads(inputs) \cup Payloads(created)

(***************************************************************************)
(* multiprocessing_utils.py:1017-1020: debug-mismatches "will convert"     *)
(* what has "only raw crash files" to fixtures.  Where no write fails and  *)
(* no library crashes, the command does not end without testing.           *)
(***************************************************************************)
RawIsConverted ==
    phase = "aborted" => \E h \in Names(files) : IsKind(files[h], "crashes")
=============================================================================
