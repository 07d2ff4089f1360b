-------------------------------- MODULE Octane -------------------------------
(***************************************************************************)
(* What the Octane API client makes of the server's replies                *)
(* (octane_api_client.py) and which requests are repeated                  *)
(* (octane_utils.py).  The server and the cloud storage are external.      *)
(*                                                                         *)
(* data is the JSON of a bug: hash, bug_hash, fingerprint, lineage,        *)
(* target_name and status are strings, Absent when they are missing or     *)
(* empty; validation_statuses is a sequence of strings; data.source and    *)
(* data.top hold the URLs found in its source and beside it, a sequence    *)
(* for each Field.  A URL has a scheme, says whether it names an object    *)
(* (wellformed) and yields a blob.                                         *)
(***************************************************************************)
EXTENDS Integers, Sequences, FiniteSets, SequencesExt, FiniteSetsExt

Absent == ""

Field == {"fixture_gcs", "fixture_s3", "artifact_gcs", "artifact_s3"}

URL == [scheme : STRING, wellformed : BOOLEAN, blob : STRING]

BugData ==
    [hash : STRING, bug_hash : STRING, fingerprint : STRING, lineage : STRING,
     target_name : STRING, status : STRING, validation_statuses : Seq(STRING),
     source : [Field -> Seq(URL)], top : [Field -> Seq(URL)]]

REPRO_BUG_STATUSES ==
    {"reproducible", "crash_reproducible", "crash_timeout", "crash_leak",
     "crash_oom", "crash_asan"}

-----------------------------------------------------------------------------
\* a or b or c: the first one that is not empty.
FirstPresent(values) ==
    LET present == {k \in DOMAIN values : values[k] # Absent}
    IN IF present = {} THEN Absent ELSE values[Min(present)]

HashOf(data) == FirstPresent(<<data.hash, data.bug_hash, data.fingerprint>>)

\* The first of the validation statuses, then the single status.
StatusOf(data) ==
    IF data.validation_statuses # << >> THEN data.validation_statuses[1]
    ELSE FirstPresent(<<data.status, "unknown">>)

\* The URLs in the source metadata come before those at the top level.
UrlsOf(data, field) ==
    IF data.source[field] # << >> THEN data.source[field] ELSE data.top[field]

BugRecord(data) ==
    [hash    |-> HashOf(data),
     lineage |-> FirstPresent(<<data.lineage, data.target_name>>),
     status  |-> StatusOf(data),
     urls    |-> [field \in Field |-> UrlsOf(data, field)]]

\* Where from_dict raises a KeyError, one bug fails the whole reply.
Malformed(data) == HashOf(data) = Absent

Unparseable(reply) == \E k \in DOMAIN reply.bugs : Malformed(reply.bugs[k])

Bugs(reply) == [k \in DOMAIN reply.bugs |-> BugRecord(reply.bugs[k])]

(***************************************************************************)
(* [e for e in s if Test(e)].  It is SelectSeq, which the proof system     *)
(* takes for a primitive and knows nothing of.                             *)
(***************************************************************************)
Filter(s, Test(_)) ==
    FlattenSeq([k \in DOMAIN s |-> IF Test(s[k]) THEN <<s[k]>> ELSE << >>])

(***************************************************************************)
(* ReproIndexResponse.from_bugs_response: the active lineages, those       *)
(* without bugs included, and the lineages of the bugs.                    *)
(***************************************************************************)
ReproIndex(reply) ==
    LET bugs == Bugs(reply)
        lineages == Range(reply.active_lineages) \cup {bugs[k].lineage : k \in DOMAIN bugs}
    IN [l \in lineages |-> Filter(bugs, LAMBDA b : b.lineage = l)]

AllVerified(bug) == bug.status \in REPRO_BUG_STATUSES

(***************************************************************************)
(* Which URLs a download tries, in order.                                  *)
(***************************************************************************)
CrashUrls(bug) == bug.urls["artifact_gcs"] \o bug.urls["artifact_s3"]

(***************************************************************************)
(* _download_from_url can only succeed when it knows the scheme, the URL   *)
(* names an object, and the client library of that scheme is installed.    *)
(***************************************************************************)
Downloadable(url, drivers) ==
    \/ url.scheme = "http"
    \/ url.scheme \in {"gs", "s3"} \cap drivers /\ url.wellformed

-----------------------------------------------------------------------------
(***************************************************************************)
(* What one attempt of octane_api_call ends with: an HTTP status, Network  *)
(* (any other httpx error) or Unexpected (any other exception).            *)
(***************************************************************************)
Network == 0
Unexpected == -1

RetryableStatus == {408, 429, 500, 502, 503, 504}

Transient(error) == error = Network \/ error \in RetryableStatus

\* A faulty variant of the next definition, one attempt too few; nothing uses it.
FaultyGivesUp(errors, maxRetries) ==
    ~Transient(Last(errors)) \/ Len(errors) >= maxRetries

\* errors: those of the attempts so far, the last one included.
GivesUp(errors, maxRetries) ==
    ~Transient(Last(errors)) \/ Len(errors) > maxRetries

-----------------------------------------------------------------------------
(***************************************************************************)
(* The download list and the metadata cache of download_crashes and        *)
(* download_fixtures: the verified bugs of each requested lineage, at most *)
(* limit of each if there is a limit; of two bugs with one hash the cache  *)
(* holds the last.                                                         *)
(***************************************************************************)
VerifiedOf(index, lineage, limit) ==
    LET repros == IF lineage \in DOMAIN index THEN index[lineage] ELSE << >>
        verified == Filter(repros, AllVerified)
    IN IF limit > 0 THEN SubSeq(verified, 1, Min({limit, Len(verified)})) ELSE verified

DownloadList(index, sections, limit) ==
    FlattenSeq([k \in DOMAIN sections |-> VerifiedOf(index, sections[k], limit)])

MetadataCache(list) ==
    [h \in {list[k].hash : k \in DOMAIN list} |->
        list[Max({k \in DOMAIN list : list[k].hash = h})]]
=============================================================================
