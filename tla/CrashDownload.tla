---------------------------- MODULE CrashDownload ----------------------------
(***************************************************************************)
(* The commands download-crashes and download-crash (test_suite.py), one   *)
(* after the other on one output directory: the listing with its retries,  *)
(* then threads that download one crash file each (multiprocessing_utils   *)
(* download_single_crash) from the first URL that works, into              *)
(* crashes/<lineage>/<hash>.crash, without a lock.                         *)
(*                                                                         *)
(* download-crash looks one bug up by its hash, with no retries, does not  *)
(* ask whether the file exists, and is a single thread.                    *)
(***************************************************************************)
EXTENDS Client

CONSTANTS
    Thread,
    Commands,       \* what the user runs
    Replies,        \* listings the server may send: [bugs, active_lineages]
    Errors,         \* what an attempt may fail with
    Drivers,        \* schemes whose client library is installed
    MaxRetries,     \* max_retries of octane_api_call
    MaxRuns         \* bound: commands in one behaviour

ASSUME CrashAssumption ==
    /\ Thread # {}
    /\ MaxRetries \in Nat /\ MaxRuns \in Nat \ {0}
    /\ Errors \subseteq Nat \cup {Unexpected}

\* Empty section names are dropped where the option is split at its commas.
ASSUME CommandAssumption ==
    Commands \subseteq
        [name : {"download_crashes"}, sections : Seq(STRING \ {Absent}), limit : Int]
        \cup [name : {"download_crash"}, lineage : STRING, hash : STRING]

\* What open() leaves of a file; no crash input is that.
Torn == "torn"

ASSUME ReplyAssumption ==
    \A reply \in Replies :
        /\ reply.bugs \in Seq(BugData)
        /\ \A k \in DOMAIN reply.bugs : \A field \in Field :
              \A url \in Range(reply.bugs[k].source[field])
                         \cup Range(reply.bugs[k].top[field]) : url.blob # Torn

VARIABLES
    run,        \* commands so far
    command,
    phase,      \* "calling", "downloading", "done", "exited", "killed"
    errors,     \* of the attempts of this command's API call
    list,       \* download_list: the bugs, their lineage the section's
    cache,      \* metadata_cache
    next,       \* first item of the list no thread has taken
    thread,     \* what each thread is doing
    results,    \* item -> [status, path, tried]
    file,       \* crash files: [lineage, hash] -> blob or Torn
    disturbed   \* a write failed or a kill came between open and write

vars == <<run, command, phase, errors, list, cache, next, thread, results, file, disturbed>>

Idle == [pc |-> "idle"]

\* f, extended or overridden by y at x.
With(f, x, y) == [z \in DOMAIN f \cup {x} |-> IF z = x THEN y ELSE f[z]]

Init ==
    /\ run = 1
    /\ command \in Commands
    /\ phase = "calling"
    /\ errors = << >>
    /\ list = << >>
    /\ cache = << >>
    /\ next = 1
    /\ thread = [w \in Thread |-> Idle]
    /\ results = << >>
    /\ file = << >>
    /\ disturbed = FALSE

-----------------------------------------------------------------------------
(***************************************************************************)
(* Faulty variants, exchanged for the definition they are named after to   *)
(* show that a property is able to fail; nothing else uses them.           *)
(***************************************************************************)
\* the directory of the section, the URLs of the cached record
FaultyLineage(item) == item.lineage

\* the URLs are tried all over again
FaultyFetchFails(w) ==
    /\ thread[w].pc = "fetch"
    /\ thread[w].urls = << >>
    /\ thread' = [thread EXCEPT ![w].urls = CrashUrls(thread[w].bug)]
    /\ UNCHANGED <<run, command, phase, errors, list, cache, next, results, file, disturbed>>

\* the file is created before the download
FaultyNotThere(w) ==
    /\ thread[w].pc = "check"
    /\ thread[w].path \notin DOMAIN file
    /\ file' = With(file, thread[w].path, Torn)
    /\ thread' = [thread EXCEPT ![w].pc = "fetch"]
    /\ UNCHANGED <<run, command, phase, errors, list, cache, next, results, disturbed>>

-----------------------------------------------------------------------------
(***************************************************************************)
(* The API call.                                                           *)
(***************************************************************************)
IsBatch == command.name = "download_crashes"

\* octane_api_call retries; download_crash reports the first error.
CallFails(error) ==
    /\ phase = "calling"
    /\ errors' = Append(errors, error)
    /\ phase' = IF ~IsBatch \/ GivesUp(errors', MaxRetries) THEN "exited" ELSE phase
    /\ UNCHANGED <<run, command, list, cache, next, thread, results, file, disturbed>>

\* A listing with a malformed bug is an unexpected error of the call.
ListingArrives(reply) ==
    /\ phase = "calling"
    /\ IsBatch
    /\ ~Unparseable(reply)
    /\ LET chosen == DownloadList(ReproIndex(reply), command.sections, command.limit)
       IN list' = chosen /\ cache' = MetadataCache(chosen)
    /\ phase' = "downloading"
    /\ UNCHANGED <<run, command, errors, next, thread, results, file, disturbed>>

Path(lineage, bug) == [lineage |-> lineage, hash |-> bug.hash]

\* The bug of that hash and lineage; the file goes where the user says.
BugArrives(w, reply) ==
    /\ phase = "calling"
    /\ ~IsBatch
    /\ \E k \in DOMAIN reply.bugs :
          LET bug == BugRecord(reply.bugs[k])
          IN /\ bug.hash = command.hash /\ bug.lineage = command.lineage
             /\ list' = <<bug>>
             /\ thread' = [thread EXCEPT ![w] =
                   [pc |-> "fetch", item |-> 1, bug |-> bug, urls |-> CrashUrls(bug),
                    path |-> Path(command.lineage, bug), tried |-> {}, data |-> Absent]]
    /\ phase' = "downloading"
    /\ next' = 2
    /\ UNCHANGED <<run, command, errors, cache, results, file, disturbed>>

-----------------------------------------------------------------------------
(***************************************************************************)
(* download_single_crash.                                                  *)
(***************************************************************************)
\* The lineage of the cached record, if it has one, replaces the section's.
Lineage(item) ==
    IF cache[item.hash].lineage # Absent THEN cache[item.hash].lineage ELSE item.lineage

Take(w) ==
    /\ phase = "downloading"
    /\ thread[w].pc = "idle"
    /\ next <= Len(list)
    /\ LET bug == cache[list[next].hash]
       IN thread' = [thread EXCEPT ![w] =
             [pc |-> "check", item |-> next, bug |-> bug, urls |-> CrashUrls(bug),
              path |-> Path(Lineage(list[next]), bug), tried |-> {}, data |-> Absent]]
    /\ next' = next + 1
    /\ UNCHANGED <<run, command, phase, errors, list, cache, results, file, disturbed>>

Finish(w, status) ==
    /\ results' = With(results, thread[w].item,
                       [status |-> status, path |-> thread[w].path, tried |-> thread[w].tried])
    /\ thread' = [thread EXCEPT ![w] = Idle]

AlreadyThere(w) ==
    /\ thread[w].pc = "check"
    /\ thread[w].path \in DOMAIN file
    /\ Finish(w, "cached")
    /\ UNCHANGED <<run, command, phase, errors, list, cache, next, file, disturbed>>

NotThere(w) ==
    /\ thread[w].pc = "check"
    /\ thread[w].path \notin DOMAIN file
    /\ thread' = [thread EXCEPT ![w].pc = "fetch"]
    /\ UNCHANGED <<run, command, phase, errors, list, cache, next, results, file, disturbed>>

\* One round of the loop over the URLs: the first that works, works.
UrlWorks(w) ==
    /\ thread[w].pc = "fetch"
    /\ thread[w].urls # << >>
    /\ LET url == Head(thread[w].urls)
       IN /\ Downloadable(url, Drivers)
          /\ thread' = [thread EXCEPT ![w].pc = "open", ![w].data = url.blob]
    /\ UNCHANGED <<run, command, phase, errors, list, cache, next, results, file, disturbed>>

UrlFails(w) ==
    /\ thread[w].pc = "fetch"
    /\ thread[w].urls # << >>
    /\ thread' = [thread EXCEPT ![w].urls = Tail(@), ![w].tried = @ \cup {Head(thread[w].urls)}]
    /\ UNCHANGED <<run, command, phase, errors, list, cache, next, results, file, disturbed>>

\* No URL at all, or the last one failed.
FetchFails(w) ==
    /\ thread[w].pc = "fetch"
    /\ thread[w].urls = << >>
    /\ Finish(w, "not_fetched")
    /\ UNCHANGED <<run, command, phase, errors, list, cache, next, file, disturbed>>

OpenFile(w) ==
    /\ thread[w].pc = "open"
    /\ file' = With(file, thread[w].path, Torn)
    /\ thread' = [thread EXCEPT ![w].pc = "write"]
    /\ UNCHANGED <<run, command, phase, errors, list, cache, next, results, disturbed>>

WriteFile(w) ==
    /\ thread[w].pc = "write"
    /\ file' = [file EXCEPT ![thread[w].path] = thread[w].data]
    /\ Finish(w, "downloaded")
    /\ UNCHANGED <<run, command, phase, errors, list, cache, next, disturbed>>

\* The disk is full: what open() created stays.
WriteFails(w) ==
    /\ thread[w].pc = "write"
    /\ Finish(w, "not_written")
    /\ disturbed' = TRUE
    /\ UNCHANGED <<run, command, phase, errors, list, cache, next, file>>

\* process_items returns; download_crash exits when its one item failed.
AllAnswered ==
    /\ phase = "downloading"
    /\ next > Len(list)
    /\ \A w \in Thread : thread[w].pc = "idle"
    /\ phase' = IF ~IsBatch /\ results[1].status # "downloaded" THEN "exited" ELSE "done"
    /\ UNCHANGED <<run, command, errors, list, cache, next, thread, results, file, disturbed>>

-----------------------------------------------------------------------------
Kill ==
    /\ phase \in {"calling", "downloading"}
    /\ phase' = "killed"
    /\ thread' = [w \in Thread |-> Idle]
    /\ disturbed' = (disturbed \/ \E w \in Thread : thread[w].pc = "write")
    /\ UNCHANGED <<run, command, errors, list, cache, next, results, file>>

Rerun ==
    /\ phase \in {"done", "exited", "killed"}
    /\ run < MaxRuns
    /\ run' = run + 1
    /\ command' \in Commands
    /\ phase' = "calling"
    /\ errors' = << >>
    /\ list' = << >>
    /\ cache' = << >>
    /\ next' = 1
    /\ results' = << >>
    /\ UNCHANGED <<thread, file, disturbed>>

Work(w) ==
    \/ \E reply \in Replies : BugArrives(w, reply)
    \/ Take(w) \/ AlreadyThere(w) \/ NotThere(w) \/ UrlWorks(w) \/ UrlFails(w)
    \/ FetchFails(w) \/ OpenFile(w) \/ WriteFile(w) \/ WriteFails(w)

Call ==
    \/ \E error \in Errors : CallFails(error)
    \/ \E reply \in Replies : ListingArrives(reply)

Next == Call \/ AllAnswered \/ Kill \/ Rerun \/ \E w \in Thread : Work(w)

\* A program that is not killed goes on; a thread is not left out for ever.
Fairness ==
    /\ WF_vars(Call \/ \E w \in Thread, reply \in Replies : BugArrives(w, reply))
    /\ WF_vars(AllAnswered)
    /\ \A w \in Thread : WF_vars(Work(w))

Spec == Init /\ [][Next]_vars /\ Fairness

-----------------------------------------------------------------------------
(***************************************************************************)
(* octane_utils.py:132-190, octane_api_client.py:1100-1116.  Nothing gives *)
(* up early: download-crashes exits only on a permanent error or after     *)
(* max_retries + 1 transient ones, and a crash that could not be fetched   *)
(* was tried at every one of its artifact URLs.                            *)
(***************************************************************************)
NoEarlyFailure ==
    /\ phase = "exited" /\ IsBatch =>
          /\ ~Transient(Last(errors)) \/ Len(errors) = MaxRetries + 1
          /\ \A k \in 1..(Len(errors) - 1) : Transient(errors[k])
    /\ \A k \in DOMAIN results :
          results[k].status = "not_fetched" =>
             \E b \in Range(list) : /\ b.hash = results[k].path.hash
                                    /\ results[k].tried = Range(CrashUrls(b))

\* Every bug the server may know.
Known == UNION {{Bugs(reply)[k] : k \in DOMAIN reply.bugs} : reply \in Replies}

(***************************************************************************)
(* multiprocessing_utils.py:1092-1102.  A whole crash file holds a crash   *)
(* input, never a fixture, of the very bug its name and directory say,     *)
(* also when two lineages have a bug of one hash.                          *)
(***************************************************************************)
CrashContent ==
    \A p \in DOMAIN file :
        file[p] # Torn =>
            \E b \in Known :
               /\ b.hash = p.hash /\ b.lineage = p.lineage
               /\ \E k \in DOMAIN CrashUrls(b) : CrashUrls(b)[k].blob = file[p]

(***************************************************************************)
(* multiprocessing_utils.py:1105-1157.  When download-crashes is done,     *)
(* every item has been answered and every file it reports as saved or      *)
(* cached is there; it is whole unless a write failed or a kill interrupted *)
(* one, although a thread may take a file for cached that another is still *)
(* writing.  It is the file of that item unless two of the items have one  *)
(* hash.                                                                   *)
(***************************************************************************)
ReportedCrashIsThere ==
    phase = "done" =>
        /\ DOMAIN results = DOMAIN list
        /\ \A k \in DOMAIN list :
              results[k].status \in {"cached", "downloaded"} =>
                 /\ results[k].path \in DOMAIN file
                 /\ disturbed \/ file[results[k].path] # Torn
                 /\ \/ \E j \in DOMAIN list \ {k} : list[j].hash = list[k].hash
                    \/ results[k].path = Path(list[k].lineage, list[k])

\* test_suite.py:1276-1336.  A command ends unless it is killed.
CommandEnds == phase = "calling" ~> phase \in {"done", "exited", "killed"}
=============================================================================
