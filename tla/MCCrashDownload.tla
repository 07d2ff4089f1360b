--------------------------- MODULE MCCrashDownload ---------------------------
(***************************************************************************)
(* Two threads and two runs.  Bug "h" is in the lineages "a" and "b" with  *)
(* different crash inputs; bug "g" names its URLs beside the source, the   *)
(* first of them in a scheme whose driver is missing; bug "u" is not       *)
(* verified.  One listing has a bug without a hash.                        *)
(***************************************************************************)
EXTENDS CrashDownload

CONSTANTS t1, t2

MCThread == {t1, t2}

None == [f \in Field |-> << >>]
Url(scheme, blob) == [scheme |-> scheme, wellformed |-> TRUE, blob |-> blob]

Data(hash, lineage, statuses, source, top) ==
    [hash |-> hash, bug_hash |-> Absent, fingerprint |-> Absent, lineage |-> lineage,
     target_name |-> "b", status |-> "reproducible", validation_statuses |-> statuses,
     source |-> source, top |-> top]

Crash(blob) ==
    [None EXCEPT !["artifact_gcs"] = <<Url("gs", blob)>>,
                 !["artifact_s3"] = <<[Url("s3", blob) EXCEPT !.wellformed = FALSE]>>,
                 !["fixture_gcs"] = <<Url("gs", "fixture")>>]
TwoUrls == [None EXCEPT !["artifact_gcs"] = <<Url("s3", "wrong"), Url("http", "g1")>>]

ha == Data("h", "a", <<"reproducible", "fixed">>, Crash("ha1"), None)
hb == [Data(Absent, Absent, <<"crash_oom">>, Crash("hb1"), TwoUrls) EXCEPT !.fingerprint = "h"]
g == Data("g", "b", << >>, None, TwoUrls)
u == Data("u", "a", <<"fixed", "reproducible">>, Crash("u1"), None)
nameless == Data(Absent, "a", << >>, None, None)

Listing(bugs) == [bugs |-> bugs, active_lineages |-> <<"a", "c">>]
MCReplies == {Listing(<<u, ha, hb, g>>), Listing(<<ha, nameless>>)}

MCCommands ==
    {[name |-> "download_crashes", sections |-> <<"a", "b">>, limit |-> 0],
     [name |-> "download_crashes", sections |-> <<"a", "a", "c">>, limit |-> 1],
     [name |-> "download_crash", lineage |-> "a", hash |-> "h"]}

MCErrors == {Network, Unexpected, 404, 503}

\* The cloud client finds the credentials of the one account; boto3 is missing.
MCMachine ==
    [env |-> [HOME |-> "home"], files |-> {}, accounts |-> <<"other", "third">>,
     adc |-> {"third"}, valid |-> {"third"}, ambient |-> {}, gcs |-> TRUE, s3 |-> FALSE]

MCDrivers == DriversOf(MCMachine)

-----------------------------------------------------------------------------
(***************************************************************************)
(* The client on small machines and replies.                               *)
(***************************************************************************)
WithEnv(name, value) == [MCMachine EXCEPT !.env = [x \in {name} |-> value]]
Answered(status, body) == [status |-> status, json |-> TRUE, body |-> body]

\* Each variable unset, empty, or set to its own name.
Variables == {"OCTANE_API_URL", "OCTANE_API_ORIGIN"}
Envs == {[x \in names |-> IF x \in empty THEN Absent ELSE x] :
            names \in SUBSET Variables, empty \in SUBSET Variables}

\* Only an origin that is set and empty lets OCTANE_API_URL through.
ASSUME OriginCheck ==
    \A env \in Envs :
        OctaneClient(env, Absent, Absent).origin =
            IF GetEnv(env, "OCTANE_API_ORIGIN") # Absent THEN "OCTANE_API_ORIGIN"
            ELSE IF "OCTANE_API_ORIGIN" \in DOMAIN env /\ GetEnv(env, "OCTANE_API_URL") # Absent
                 THEN "OCTANE_API_URL" ELSE DEFAULT_OCTANE_API_ORIGIN

ASSUME DriversCheck ==
    /\ MCDrivers = {"gs"}
    /\ FindCredentials(WithEnv("GOOGLE_APPLICATION_CREDENTIALS", "lost")) = "third"
    /\ FindCredentials([MCMachine EXCEPT !.adc = @ \cup {KnownAccount}]) = KnownAccount
    /\ DriversOf([MCMachine EXCEPT !.adc = {}]) = {}
    /\ DriversOf([MCMachine EXCEPT !.adc = {}, !.ambient = {Absent}]) = {"gs"}
    /\ DriversOf([MCMachine EXCEPT !.valid = {}, !.ambient = {Absent}]) = {}

ASSUME ReplyCheck ==
    /\ GetBugs(Answered(200, CHOOSE r \in MCReplies : Unparseable(r))) = Raised(Unexpected)
    /\ DOMAIN Lineages(Answered(200, Listing(<<g>>))).value = {"b"}
    /\ BugByHash(Answered(404, << >>)) = Raised(Unexpected)
    /\ BugByHash(Answered(503, << >>)) = Raised(503)
    /\ BugByHash(Answered(200, [bug |-> <<g>>])) = Value(BugRecord(g))
    /\ BugByHash(Answered(200, [bug |-> << >>])) = Raised(Unexpected)
    /\ ~HealthCheck(Answered(Network, << >>))
    /\ ReproData(Answered(200, [bug |-> <<ha>>]), {"s3"}, [k \in 1..3 |-> Value(k)]) =
          Raised(Unexpected)
    /\ ReproData(Answered(200, [bug |-> <<ha>>]), {"gs"}, [k \in 1..3 |-> Value(k)]) = Value(1)
    /\ CrashData(Answered(200, [bug |-> <<hb>>]), {"gs"}, <<Raised(404), Value(2)>>) =
          Raised(Unexpected)

AllFilters == [bundle_id |-> Absent, run_id |-> "r", lineages |-> <<"a", "b">>, hashes |-> << >>,
               statuses |-> << >>, limit |-> 0, include_fixed |-> FALSE]

ASSUME QueryCheck ==
    LET client == OctaneClient([OCTANE_BUNDLE_ID |-> "n"], Absent, Absent)
    IN /\ DOMAIN BugsQuery(client, AllFilters) = {"bundle_id", "run_id", "lineages"}
       /\ DOMAIN ReproducibleQuery(client, AllFilters) =
             {"bundle_id", "run_id", "lineages", "statuses", "include_fixed"}
       /\ BugQuery(client, "m", Absent) = [bundle_id |-> <<"m">>]
=============================================================================
