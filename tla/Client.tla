-------------------------------- MODULE Client -------------------------------
(***************************************************************************)
(* The calls of the Octane API client (octane_api_client.py) and what the  *)
(* commands put around them (octane_utils.py): which server is asked, with *)
(* which parameters, what becomes of a reply, and which of a bug's URLs a  *)
(* download returns.                                                       *)
(*                                                                         *)
(* The server, the storage and the machine are external.  reply is what    *)
(* the server answers: [status, json, body], its status Network if nothing *)
(* arrives.  answers[k] is what the storage answers to the k-th URL.  A    *)
(* machine is a record:                                                    *)
(*   env          the environment variables that are set                   *)
(*   files        the files there are, besides those of the accounts       *)
(*   accounts     the listing of the legacy credentials                    *)
(*   adc          the accounts with credentials                            *)
(*   valid        the files and accounts whose credentials can be loaded   *)
(*   ambient      the projects for which the default credentials give a    *)
(*                client, Absent among them when they name a project       *)
(*   gcs, s3      whether the client libraries are installed               *)
(* Slashes at the end of an origin and time-outs are left out.             *)
(***************************************************************************)
EXTENDS Octane

\* What a call returns or raises, an error as in module Octane.
Value(v) == [ok |-> TRUE, value |-> v]
Raised(error) == [ok |-> FALSE, error |-> error]

\* An exception passes through what the caller would do next.
Then(outcome, Continue(_)) == IF outcome.ok THEN Continue(outcome.value) ELSE outcome

-----------------------------------------------------------------------------
(***************************************************************************)
(* The client.  An empty value counts as none everywhere but in            *)
(* get_octane_api_origin.                                                  *)
(***************************************************************************)
DEFAULT_OCTANE_API_ORIGIN == "default_origin"

GetEnv(env, name) == IF name \in DOMAIN env THEN env[name] ELSE Absent

OctaneApiOrigin(env) ==
    IF "OCTANE_API_ORIGIN" \in DOMAIN env
    THEN env["OCTANE_API_ORIGIN"] ELSE DEFAULT_OCTANE_API_ORIGIN

ClientOf(env, origin, bundle) ==
    [origin    |-> FirstPresent(<<origin, GetEnv(env, "OCTANE_API_URL"),
                                  GetEnv(env, "OCTANE_API_ORIGIN"),
                                  DEFAULT_OCTANE_API_ORIGIN>>),
     bundle_id |-> FirstPresent(<<bundle, GetEnv(env, "OCTANE_BUNDLE_ID")>>)]

\* The client of every command; origin and bundle are Absent in all of them.
OctaneClient(env, origin, bundle) ==
    ClientOf(env, FirstPresent(<<origin, OctaneApiOrigin(env)>>), bundle)

(***************************************************************************)
(* octane_api_call, when its attempts end with outcomes: the first that is *)
(* a result or is not repeated.  max_retries of with_octane_client is 3.   *)
(***************************************************************************)
EndsCall(outcomes, k, maxRetries) ==
    \/ outcomes[k].ok
    \/ GivesUp([j \in 1..k |-> outcomes[j].error], maxRetries)

ApiCall(outcomes, maxRetries) ==
    outcomes[Min({k \in DOMAIN outcomes : EndsCall(outcomes, k, maxRetries)})]

WithOctaneClient(outcomes) == ApiCall(outcomes, 3)

-----------------------------------------------------------------------------
(***************************************************************************)
(* The parameters of a request, each a sequence: an empty one is not sent, *)
(* a longer one is joined by commas.                                       *)
(***************************************************************************)
Optional(value) == IF value = Absent THEN << >> ELSE <<value>>

Sent(params) == [p \in {q \in DOMAIN params : params[q] # << >>} |-> params[p]]

BundleParam(client, bundle) == Optional(FirstPresent(<<bundle, client.bundle_id>>))

BugsQuery(client, filter) ==
    Sent([bundle_id     |-> BundleParam(client, filter.bundle_id),
          run_id        |-> Optional(filter.run_id),
          lineages      |-> filter.lineages,
          hashes        |-> filter.hashes,
          statuses      |-> filter.statuses,
          limit         |-> IF filter.limit = 0 THEN << >> ELSE <<filter.limit>>,
          include_fixed |-> IF filter.include_fixed THEN <<"true">> ELSE << >>])

\* In the order in which Python happens to list the set.
ReproducibleQuery(client, filter) ==
    BugsQuery(client, [filter EXCEPT !.statuses = SetToSeq(REPRO_BUG_STATUSES),
                                     !.include_fixed = TRUE])

BugQuery(client, bundle, lineage) ==
    Sent([bundle_id |-> BundleParam(client, bundle), lineage |-> Optional(lineage)])

-----------------------------------------------------------------------------
(***************************************************************************)
(* What becomes of a reply.                                                *)
(***************************************************************************)
MakeRequest(reply) ==
    IF reply.status \notin 200..299 THEN Raised(reply.status)
    ELSE IF ~reply.json THEN Raised(Unexpected)
    ELSE Value(reply.body)

HealthCheck(reply) == MakeRequest(reply).ok /\ reply.body.status = "healthy"

\* Building the client does not fail.
ValidateOctaneConnection(reply) == HealthCheck(reply)

GetBugs(reply) ==
    Then(MakeRequest(reply),
         LAMBDA body : IF Unparseable(body) THEN Raised(Unexpected) ELSE Value(body))

ListRepros(reply) == Then(GetBugs(reply), LAMBDA body : Value(ReproIndex(body)))

\* The lineages that have bugs.
Lineages(reply) ==
    Then(ListRepros(reply), LAMBDA index :
        Value([l \in {m \in DOMAIN index : index[m] # << >>} |-> index[l]]))

ReproMetadata(bug) ==
    [hash |-> bug.hash, lineage |-> bug.lineage, status |-> bug.status, bug_record |-> bug]

ListReprosFull(reply) ==
    Then(GetBugs(reply), LAMBDA body :
        Value([k \in DOMAIN body.bugs |-> ReproMetadata(Bugs(body)[k])]))

\* body.bug has at most one element; a status of 404 becomes a ValueError.
BugByHash(reply) ==
    IF reply.status = 404 THEN Raised(Unexpected)
    ELSE Then(MakeRequest(reply), LAMBDA body :
             IF body.bug = << >> \/ Malformed(body.bug[1])
             THEN Raised(Unexpected) ELSE Value(BugRecord(body.bug[1])))

ReproByHash(reply) == Then(BugByHash(reply), LAMBDA bug : Value(ReproMetadata(bug)))

-----------------------------------------------------------------------------
(***************************************************************************)
(* The clients of the cloud storage.  Credentials that are found but       *)
(* cannot be loaded are an error: the default ones are not tried.          *)
(***************************************************************************)
KnownAccount == "firedancer-fuzzing"

FindCredentials(machine) ==
    LET named == GetEnv(machine.env, "GOOGLE_APPLICATION_CREDENTIALS")
        accounts == Filter(<<KnownAccount>> \o machine.accounts,
                           LAMBDA a : a \in machine.adc)
    IN IF named # Absent /\ named \in machine.files THEN named
       ELSE IF accounts # << >> THEN accounts[1] ELSE Absent

Project(env) ==
    FirstPresent(<<GetEnv(env, "GCLOUD_PROJECT"), GetEnv(env, "GOOGLE_CLOUD_PROJECT"),
                   "isol-firedancer-fuzzing">>)

HasGcsClient(machine) ==
    LET credentials == FindCredentials(machine)
    IN /\ machine.gcs
       /\ IF credentials # Absent THEN credentials \in machine.valid
          ELSE {Project(machine.env), Absent} \cap machine.ambient # {}

DriversOf(machine) ==
    {scheme \in {"gs", "s3"} : IF scheme = "gs" THEN HasGcsClient(machine) ELSE machine.s3}

-----------------------------------------------------------------------------
(***************************************************************************)
(* Downloads: the first URL that works, or the error of the last one.      *)
(***************************************************************************)
FirstThatWorks(tries) ==
    LET working == {k \in DOMAIN tries : tries[k].ok}
    IN IF working # {} THEN tries[Min(working)]
       ELSE IF tries = << >> THEN Raised(Unexpected) ELSE Last(tries)

DownloadFromUrl(url, drivers, answer) ==
    IF Downloadable(url, drivers) THEN answer ELSE Raised(Unexpected)

DownloadFrom(urls, drivers, answers) ==
    FirstThatWorks([k \in DOMAIN urls |-> DownloadFromUrl(urls[k], drivers, answers[k])])

\* The first URL of each field; a fixture has one URL in a storage.
FixtureUrls(bug) == bug.urls["fixture_gcs"] \o bug.urls["fixture_s3"]

ReproUrls(bug) == FixtureUrls(bug) \o CrashUrls(bug)

DownloadFixture(bug, drivers, answers) == DownloadFrom(FixtureUrls(bug), drivers, answers)
DownloadCrash(bug, drivers, answers) == DownloadFrom(CrashUrls(bug), drivers, answers)
DownloadRepro(bug, drivers, answers) == DownloadFrom(ReproUrls(bug), drivers, answers)
DownloadArtifact(bug, drivers, answers) == DownloadRepro(bug, drivers, answers)

\* By hash: the bug is looked up first.
FixtureData(reply, drivers, answers) ==
    Then(BugByHash(reply), LAMBDA bug : DownloadFixture(bug, drivers, answers))
CrashData(reply, drivers, answers) ==
    Then(BugByHash(reply), LAMBDA bug : DownloadCrash(bug, drivers, answers))
ReproData(reply, drivers, answers) ==
    Then(BugByHash(reply), LAMBDA bug : DownloadRepro(bug, drivers, answers))
ArtifactData(reply, drivers, answers) == ReproData(reply, drivers, answers)

\* The URLs the server names; an entry without one is passed over.
ArtifactUrls(reply) ==
    Then(MakeRequest(reply), LAMBDA body : Value(FlattenSeq(body.download_urls)))
DownloadNative(reply, drivers, answers) ==
    Then(ArtifactUrls(reply), LAMBDA urls : DownloadFrom(urls, drivers, answers))
=============================================================================
