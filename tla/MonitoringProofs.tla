-------------------------- MODULE MonitoringProofs --------------------------
(***************************************************************************)
(* What the application says of itself agrees with itself: its findings,   *)
(* its verification checks and its internal connector, which count the     *)
(* same tables by code of their own; and so do the two views of a snapshot *)
(* from outside (services/security_telemetry.py, services/integrations.py).*)
(* And what is stored of all this while verifications, syncs and snapshots *)
(* run beside each other.  Tables, probes and snapshots are arbitrary.     *)
(***************************************************************************)
EXTENDS SelfMonitoring, FiniteSetTheorems, TLAPS

LEMMA TrueMember ==
    ASSUME NEW c, NEW k \in DOMAIN c, c[k]
    PROVE  k \in True(c)
BY DEF True

----------------------------------------------------------------------------
(* Which findings the conditions of the checks open.                       *)

LEMMA IdentityOpens ==
    ASSUME NEW t
    PROVE  /\ PrivilegedWithoutMfa(t) # {} => "app_privileged_accounts_missing_mfa" \in IdentityFindings(t)
           /\ ExpiredUnrevoked(t) # {} => "app_expired_refresh_tokens_not_revoked" \in IdentityFindings(t)
<1>1. ASSUME PrivilegedWithoutMfa(t) # {}
      PROVE  "app_privileged_accounts_missing_mfa" \in IdentityFindings(t)
  BY <1>1, TrueMember DEF IdentityFindings, AccountFindings
<1>2. ASSUME ExpiredUnrevoked(t) # {}
      PROVE  "app_expired_refresh_tokens_not_revoked" \in IdentityFindings(t)
  BY <1>2, TrueMember DEF IdentityFindings, SessionFindings
<1> QED BY <1>1, <1>2

LEMMA ConfigurationOpens ==
    ASSUME NEW t
    PROVE  /\ t.config.wildcard_cors /\ t.config.cors_credentials
                => "app_credentialed_wildcard_cors" \in ConfigurationFindings(t)
           /\ t.config.csp_inline_scripts => "app_csp_unsafe_inline" \in ConfigurationFindings(t)
           /\ t.config.weak_secret => "app_secret_key_posture" \in ConfigurationFindings(t)
BY TrueMember DEF ConfigurationFindings

LEMMA JobsOpen ==
    ASSUME NEW t
    PROVE  /\ StuckIngestions(t) # {} => "app_stuck_ingestion_jobs" \in JobsFindings(t)
           /\ UnresolvedHigh(t) # {} => "app_unresolved_security_events" \in JobsFindings(t)
           /\ FailedIngestions(t) # {} => "app_ingestion_failures" \in JobsFindings(t)
           /\ FailedAssessments(t) # {} => "app_assessment_failures" \in JobsFindings(t)
<1>1. ASSUME StuckIngestions(t) # {} PROVE "app_stuck_ingestion_jobs" \in JobsFindings(t)
  BY <1>1, TrueMember DEF JobsFindings
<1>2. ASSUME UnresolvedHigh(t) # {} PROVE "app_unresolved_security_events" \in JobsFindings(t)
  BY <1>2, TrueMember DEF JobsFindings
<1>3. ASSUME FailedIngestions(t) # {} PROVE "app_ingestion_failures" \in JobsFindings(t)
  BY <1>3, TrueMember DEF JobsFindings
<1>4. ASSUME FailedAssessments(t) # {} PROVE "app_assessment_failures" \in JobsFindings(t)
  BY <1>4, TrueMember DEF JobsFindings
<1> QED BY <1>1, <1>2, <1>3, <1>4

LEMMA DataOpens ==
    ASSUME NEW t
    PROVE  /\ SecretFallback(t) => "app_data_store_default_secret_fallback" \in DataFindings(t)
           /\ StalePending(t) # {} => "app_evidence_processing_stalled" \in DataFindings(t)
           /\ FailedDocuments(t) # {} => "app_protected_evidence_processing_failures" \in DataFindings(t)
<1>1. ASSUME SecretFallback(t) PROVE "app_data_store_default_secret_fallback" \in DataFindings(t)
  BY <1>1, TrueMember DEF DataFindings
<1>2. ASSUME StalePending(t) # {} PROVE "app_evidence_processing_stalled" \in DataFindings(t)
  BY <1>2, TrueMember DEF DataFindings
<1>3. ASSUME FailedDocuments(t) # {}
      PROVE  "app_protected_evidence_processing_failures" \in DataFindings(t)
  BY <1>3, TrueMember DEF DataFindings
<1> QED BY <1>1, <1>2, <1>3

LEMMA DetectionsOpen ==
    ASSUME NEW t, OpenHigh(t) # {}
    PROVE  "app_open_high_severity_detections" \in DetectionFindings(t)
BY TrueMember DEF DetectionFindings

----------------------------------------------------------------------------
\* A check that fails has something to show: its domain has an open finding for it.
\* There is one exception, which the assumption names: wildcard origins without
\* credentials fail the check of the headers and open no finding.
THEOREM FailureNamesFinding ==
    ASSUME NEW t, t.config.wildcard_cors => t.config.cors_credentials
    PROVE  /\ MfaCoverage(t) = "fail" => "app_privileged_accounts_missing_mfa" \in IdentityFindings(t)
           /\ TokenHygiene(t) = "fail" => "app_expired_refresh_tokens_not_revoked" \in IdentityFindings(t)
           /\ HeadersEmitted(t) = "fail" => ConfigurationFindings(t) # {}
           /\ PipelineHealth(t) = "fail" => JobsFindings(t) # {}
           /\ StoragePosture(t) = "fail" => DataFindings(t) # {}
           /\ DetectionBacklog(t) = "fail" => "app_open_high_severity_detections" \in DetectionFindings(t)
<1>1. MfaCoverage(t) = "fail" => PrivilegedWithoutMfa(t) # {}
  BY DEF MfaCoverage, Graded
<1>2. TokenHygiene(t) = "fail" => ExpiredUnrevoked(t) # {}
  BY DEF TokenHygiene, Graded
<1>3. HeadersEmitted(t) = "fail"
        => t.config.wildcard_cors \/ t.config.csp_inline_scripts \/ t.config.weak_secret
  BY DEF HeadersEmitted, Graded
<1>4. PipelineHealth(t) = "fail" => StuckIngestions(t) # {} \/ UnresolvedHigh(t) # {}
  BY DEF PipelineHealth, Graded
<1>5. StoragePosture(t) = "fail"
        => SecretFallback(t) \/ StalePending(t) # {} \/ FailedDocuments(t) # {}
  BY DEF StoragePosture, Graded
<1>6. DetectionBacklog(t) = "fail" => OpenHigh(t) # {}
  BY DEF DetectionBacklog, Graded
<1>7. HeadersEmitted(t) = "fail" => ConfigurationFindings(t) # {}
  BY <1>3, ConfigurationOpens
<1>8. PipelineHealth(t) = "fail" => JobsFindings(t) # {}
  BY <1>4, JobsOpen
<1>9. StoragePosture(t) = "fail" => DataFindings(t) # {}
  BY <1>5, DataOpens
<1> QED BY <1>1, <1>2, <1>6, <1>7, <1>8, <1>9, IdentityOpens, DetectionsOpen

\* The pipeline check passes exactly when the domain of jobs has nothing to report,
\* clusters of failures of the parser included, although the one counts rows and the
\* other reads counts.
THEOREM PipelinePassIsQuiet ==
    ASSUME NEW t
    PROVE  PipelineHealth(t) = "pass" <=> JobsFindings(t) = {}
<1> DEFINE Calm == /\ StuckIngestions(t) = {} /\ UnresolvedHigh(t) = {}
                    /\ FailedIngestions(t) = {} /\ FailedAssessments(t) = {}
<1>1. Calm => ParseFailures(t) = {}
  BY DEF ParseFailures
<1>2. PipelineHealth(t) = "pass" <=> Calm
  BY <1>1 DEF PipelineHealth, Graded
<1>3. JobsFindings(t) = {} => Calm
  BY JobsOpen
<1>4. Calm => JobsFindings(t) = {}
  <2>1. Calm => ~(Cardinality(ParseFailures(t)) >= 3)
    BY <1>1, FS_EmptySet
  <2> DEFINE opens == [app_ingestion_failures |-> FailedIngestions(t) # {},
                       app_stuck_ingestion_jobs |-> StuckIngestions(t) # {},
                       app_assessment_failures |-> FailedAssessments(t) # {},
                       app_unresolved_security_events |-> UnresolvedHigh(t) # {},
                       app_parser_failure_cluster |-> Cardinality(ParseFailures(t)) >= 3]
  <2>2. JobsFindings(t) = {k \in DOMAIN opens : opens[k]}
    BY DEF JobsFindings, True
  <2>3. ASSUME Calm, NEW k \in DOMAIN opens PROVE ~opens[k]
    <3>1. ~opens["app_ingestion_failures"] BY <2>3
    <3>2. ~opens["app_stuck_ingestion_jobs"] BY <2>3
    <3>3. ~opens["app_assessment_failures"] BY <2>3
    <3>4. ~opens["app_unresolved_security_events"] BY <2>3
    <3>5. ~opens["app_parser_failure_cluster"] BY <2>3, <2>1
    <3>6. DOMAIN opens = {"app_ingestion_failures", "app_stuck_ingestion_jobs", "app_assessment_failures",
                          "app_unresolved_security_events", "app_parser_failure_cluster"}
      OBVIOUS
    <3> HIDE DEF opens
    <3> QED BY <3>1, <3>2, <3>3, <3>4, <3>5, <3>6
  <2> QED BY <2>2, <2>3
<1> QED BY <1>2, <1>3, <1>4

----------------------------------------------------------------------------
\* The internal connector and the checks agree on the controls they share, where they
\* read the same tables, as long as nobody has the role "owner", which the connector
\* does not count: IA-2 is supported if and only if the MFA check passes and there is
\* a privileged account at all; AU-6 is supported if the pipeline check passes, and no
\* high detection is open if it is; with SI-4 supported, only a stuck ingestion can
\* fail the pipeline check.
THEOREM ViewsAgree ==
    ASSUME NEW t, NEW probe, \A u \in t.users : u.role # "owner"
    PROVE  /\ ControlSupport(t, probe).IA2 = "supported" => MfaCoverage(t) = "pass"
           /\ MfaCoverage(t) = "pass" /\ Privileged(t) # {}
                => ControlSupport(t, probe).IA2 = "supported"
           /\ PipelineHealth(t) = "pass" => ControlSupport(t, probe).AU6 = "supported"
           /\ ControlSupport(t, probe).AU6 = "supported" => DetectionBacklog(t) # "fail"
           /\ ControlSupport(t, probe).SI4 = "supported" /\ PipelineHealth(t) = "fail"
                => StuckIngestions(t) # {}
<1>1. /\ PrivilegedWithoutMfa(t) = {} <=> ConnectorWithoutMfa(t) = {}
      /\ Privileged(t) # {} => ConnectorPrivileged(t) # {}
  BY DEF PrivilegedWithoutMfa, Privileged, ConnectorWithoutMfa, ConnectorPrivileged
<1>2. OpenHigh(t) \subseteq UnresolvedHigh(t)
  BY DEF OpenHigh, OpenDetections, RecentEvents, UnresolvedHigh
<1>3. /\ ControlSupport(t, probe).IA2 = "supported"
            <=> ConnectorPrivileged(t) # {} /\ ConnectorWithoutMfa(t) = {}
      /\ ControlSupport(t, probe).AU6 = "supported" <=> UnresolvedHigh(t) = {}
      /\ ControlSupport(t, probe).SI4 = "supported" <=> Monitored(t, probe)
  BY DEF ControlSupport, Supported
<1>4. MfaCoverage(t) = "pass" <=> PrivilegedWithoutMfa(t) = {}
  BY DEF MfaCoverage, Graded
<1>5. PipelineHealth(t) = "pass" => UnresolvedHigh(t) = {}
  BY DEF PipelineHealth, Graded
<1>6. DetectionBacklog(t) = "fail" => OpenHigh(t) # {}
  BY DEF DetectionBacklog, Graded
<1>7. PipelineHealth(t) = "fail" => StuckIngestions(t) # {} \/ UnresolvedHigh(t) # {}
  BY DEF PipelineHealth, Graded
<1>8. Monitored(t, probe) => UnresolvedHigh(t) = {}
  BY DEF Monitored
<1> QED BY <1>1, <1>2, <1>3, <1>4, <1>5, <1>6, <1>7, <1>8

----------------------------------------------------------------------------
(* The two views of a snapshot agree: what opens a finding is recorded as  *)
(* a regression of a tracked setting.                                      *)

\* A count of vulnerabilities or updates that grows is a regression.
LEMMA GrowingCount ==
    ASSUME NEW s \in Counts, NEW m \in Nat, NEW n \in Nat, m < n
    PROVE  Impact(s, m, n) = "negative"
BY DEF Impact, Better, Worse, Counts

\* A container that gets a finding it did not have before gets a change event that
\* needs review: each of the seven conditions is also a tracked setting, and
\* _change_impact counts its change as negative.
THEOREM ContainerFindingIsRegression ==
    ASSUME NEW old \in Container, NEW new \in Container,
           NEW k \in ContainerFindings(new) \ ContainerFindings(old)
    PROVE  Regressed(ContainerSettings(old), ContainerSettings(new))
<1> DEFINE os == ContainerSettings(old)
           ns == ContainerSettings(new)
<1>1. DOMAIN ns = {"non_root", "read_only_rootfs", "cap_drop_enabled", "healthcheck_enabled",
                   "privileged", "mutable_image_tag", "published_ports"}
  BY DEF ContainerSettings
<1>2. SUFFICES \E s \in DOMAIN ns : Impact(s, os[s], ns[s]) = "negative"
  BY DEF Regressed
<1>3. k \in {"containers_non_root", "containers_read_only", "containers_privileged",
             "containers_port_exposure", "containers_drop_caps", "container_healthchecks",
             "immutable_image_tags"}
  BY DEF ContainerFindings, True
<1>4. CASE k = "containers_non_root"
  <2>1. Impact("non_root", os.non_root, ns.non_root) = "negative"
    BY <1>4 DEF Impact, Better, Worse, Counts, ContainerSettings, Container, ContainerFindings, True
  <2> QED BY <1>1, <2>1
<1>5. CASE k = "containers_read_only"
  <2>1. Impact("read_only_rootfs", os.read_only_rootfs, ns.read_only_rootfs) = "negative"
    BY <1>5 DEF Impact, Better, Worse, Counts, ContainerSettings, Container, ContainerFindings, True
  <2> QED BY <1>1, <2>1
<1>6. CASE k = "containers_privileged"
  <2>1. Impact("privileged", os.privileged, ns.privileged) = "negative"
    BY <1>6 DEF Impact, Better, Worse, Counts, ContainerSettings, Container, ContainerFindings, True
  <2> QED BY <1>1, <2>1
<1>7. CASE k = "containers_port_exposure"
  <2>1. Impact("published_ports", os.published_ports, ns.published_ports) = "negative"
    BY <1>7 DEF Impact, Better, Worse, Counts, ContainerSettings, Container, ContainerFindings, True
  <2> QED BY <1>1, <2>1
<1>8. CASE k = "containers_drop_caps"
  <2>1. Impact("cap_drop_enabled", os.cap_drop_enabled, ns.cap_drop_enabled) = "negative"
    BY <1>8 DEF Impact, Better, Worse, Counts, ContainerSettings, Container, ContainerFindings, True
  <2> QED BY <1>1, <2>1
<1>9. CASE k = "container_healthchecks"
  <2>1. Impact("healthcheck_enabled", os.healthcheck_enabled, ns.healthcheck_enabled) = "negative"
    BY <1>9 DEF Impact, Better, Worse, Counts, ContainerSettings, Container, ContainerFindings, True
  <2> QED BY <1>1, <2>1
<1>10. CASE k = "immutable_image_tags"
  <2>1. Impact("mutable_image_tag", os.mutable_image_tag, ns.mutable_image_tag) = "negative"
    BY <1>10 DEF Impact, Better, Worse, Counts, ContainerSettings, Container, ContainerFindings, True
  <2> QED BY <1>1, <2>1
<1> QED BY <1>3, <1>4, <1>5, <1>6, <1>7, <1>8, <1>9, <1>10

\* The same of the host's patches and its pending reboot.
THEOREM HostFindingIsRegression ==
    ASSUME NEW old \in Host, NEW new \in Host,
           NEW k \in HostFindings(new) \ HostFindings(old)
    PROVE  Regressed(HostSettings(old), HostSettings(new))
<1> DEFINE os == HostSettings(old)
           ns == HostSettings(new)
<1>1. DOMAIN ns = {"missing_security_updates", "reboot_required"}
  BY DEF HostSettings
<1>2. SUFFICES \E s \in DOMAIN ns : Impact(s, os[s], ns[s]) = "negative"
  BY DEF Regressed
<1>3. k \in {"host_patching", "host_reboot"}
  BY DEF HostFindings, True
<1>4. CASE k = "host_patching"
  <2>1. Impact("missing_security_updates", os.missing_security_updates,
               ns.missing_security_updates) = "negative"
    BY <1>4 DEF Impact, Better, Worse, Counts, HostSettings, Host, HostFindings, True
  <2> QED BY <1>1, <2>1
<1>5. CASE k = "host_reboot"
  <2>1. Impact("reboot_required", os.reboot_required, ns.reboot_required) = "negative"
    BY <1>5 DEF Impact, Better, Worse, Counts, HostSettings, Host, HostFindings, True
  <2> QED BY <1>1, <2>1
<1> QED BY <1>3, <1>4, <1>5

\* What a build says of image scanning while no image scanner is available and
\* authenticated depends on the scanner alone: the first inventory, or a scanner that
\* is installed and not signed in, is a new finding and no regression.
ImageKeys == {"container_image_vulns", "container_image_inventory_coverage",
              "docker_scout_auth", "docker_image_scan_coverage"}

\* The same of a build's dependencies, and of its images once they were scanned.
THEOREM SupplyFindingIsRegression ==
    ASSUME NEW old \in Supply, NEW new \in Supply,
           NEW k \in SupplyFindings(new) \ SupplyFindings(old),
           k \in ImageKeys => Scanned(old.scout)
    PROVE  Regressed(BuildSettings(old), BuildSettings(new))
<1> DEFINE os == BuildSettings(old)
           ns == BuildSettings(new)
<1>1. DOMAIN ns = {"frontend_dependency_scan_available", "frontend_dependency_vuln_count",
                   "backend_dependency_scan_available", "backend_dependency_vuln_count",
                   "image_scan_available", "image_scan_authenticated", "image_vuln_count"}
  BY DEF BuildSettings
<1>2. SUFFICES \E s \in DOMAIN ns : Impact(s, os[s], ns[s]) = "negative"
  BY DEF Regressed
<1>3. k \in ImageKeys \cup {"frontend_dependency_vulns", "frontend_dependency_scan_coverage",
                            "backend_dependency_vulns", "backend_dependency_scan_coverage"}
  BY DEF SupplyFindings, DependencyFindings, ImageFindings, True, ImageKeys
<1>4. /\ old.npm \in Audit /\ new.npm \in Audit /\ old.pip \in Audit /\ new.pip \in Audit
      /\ old.scout \in Scout /\ new.scout \in Scout
  BY DEF Supply
<1>5. CASE k = "frontend_dependency_vulns"
  <2>1. new.npm = "vulnerable" /\ old.npm # "vulnerable"
    BY <1>5 DEF SupplyFindings, DependencyFindings, ImageFindings, True
  <2>2. os.frontend_dependency_vuln_count = 0 /\ ns.frontend_dependency_vuln_count = 1
    BY <2>1 DEF BuildSettings
  <2>3. Impact("frontend_dependency_vuln_count", 0, 1) = "negative"
    BY GrowingCount DEF Counts
  <2> QED BY <1>1, <2>2, <2>3
<1>6. CASE k = "frontend_dependency_scan_coverage"
  <2>1. Impact("frontend_dependency_scan_available", os.frontend_dependency_scan_available,
               ns.frontend_dependency_scan_available) = "negative"
    BY <1>4, <1>6 DEF Impact, Better, Worse, Counts, BuildSettings, SupplyFindings,
                        DependencyFindings, ImageFindings, True
  <2> QED BY <1>1, <2>1
<1>7. CASE k = "backend_dependency_vulns"
  <2>1. new.pip = "vulnerable" /\ old.pip # "vulnerable"
    BY <1>7 DEF SupplyFindings, DependencyFindings, ImageFindings, True
  <2>2. os.backend_dependency_vuln_count = 0 /\ ns.backend_dependency_vuln_count = 1
    BY <2>1 DEF BuildSettings
  <2>3. Impact("backend_dependency_vuln_count", 0, 1) = "negative"
    BY GrowingCount DEF Counts
  <2> QED BY <1>1, <2>2, <2>3
<1>8. CASE k = "backend_dependency_scan_coverage"
  <2>1. Impact("backend_dependency_scan_available", os.backend_dependency_scan_available,
               ns.backend_dependency_scan_available) = "negative"
    BY <1>4, <1>8 DEF Impact, Better, Worse, Counts, BuildSettings, SupplyFindings,
                        DependencyFindings, ImageFindings, True
  <2> QED BY <1>1, <2>1
<1>9. CASE k = "container_image_vulns"
  <2>1. /\ Scanned(old.scout) /\ Scanned(new.scout)
        /\ new.scout.findings > 0 /\ ~(old.scout.findings > 0)
    BY <1>4, <1>9 DEF SupplyFindings, DependencyFindings, ImageFindings, True, ImageKeys
  <2>2. os.image_vuln_count = old.scout.findings /\ ns.image_vuln_count = new.scout.findings
    BY DEF BuildSettings
  <2>3. Impact("image_vuln_count", os.image_vuln_count, ns.image_vuln_count) = "negative"
    BY <1>4, <2>1, <2>2 DEF Impact, Better, Worse, Counts, Scout
  <2> QED BY <1>1, <2>3
<1>10. CASE k \in ImageKeys \ {"container_image_vulns"}
  <2>1. Scanned(old.scout) /\ ~Scanned(new.scout)
    BY <1>4, <1>10 DEF SupplyFindings, DependencyFindings, ImageFindings, True, ImageKeys, Scanned
  <2>2. Impact("image_scan_authenticated", os.image_scan_authenticated,
               ns.image_scan_authenticated) = "negative"
    BY <1>4, <2>1 DEF Impact, Better, Worse, Counts, BuildSettings, Scanned, Scout
  <2> QED BY <1>1, <2>2
<1> QED BY <1>3, <1>5, <1>6, <1>7, <1>8, <1>9, <1>10

----------------------------------------------------------------------------
(* Monitoring as it runs: verifications and syncs beside what they read.   *)

LEMMA UpdatedEntries ==
  ASSUME NEW found, NEW f
  PROVE  /\ DOMAIN Updated(found, f) = DOMAIN found \cup DOMAIN f
         /\ \A k \in DOMAIN found : Updated(found, f)[k] = found[k]
         /\ \A k \in DOMAIN f \ DOMAIN found : Updated(found, f)[k] = f[k]
  BY DEF Updated

----------------------------------------------------------------------------
(* Types.                                                                  *)

\* A verification after a step of its own.
LEMMA VerifyStep ==
  ASSUME MTypeOK, NEW v \in Verifier, NEW r, verify' = [verify EXCEPT ![v] = r]
  PROVE  /\ verify' = [w \in Verifier |-> verify'[w]]
         /\ verify'[v] = r /\ \A w \in Verifier \ {v} : verify'[w] = verify[w]
  BY DEF MTypeOK

LEMMA ReadsStep ==
  ASSUME MTypeOK, NEW v \in Verifier, NEW step, NEW next, NEW found, Reads(v, step, next, found)
  PROVE  /\ verify' = [w \in Verifier |-> verify'[w]] /\ DOMAIN verify'[v] = DOMAIN Resting
         /\ verify'[v].at = next /\ verify'[v].run = verify[v].run
         /\ verify'[v].results = Updated(found, verify[v].results)
         /\ \A w \in Verifier \ {v} : verify'[w] = verify[w]
<1> DEFINE r == [verify[v] EXCEPT !.at = next, !.results = Updated(found, @)]
<1>1. DOMAIN verify[v] = {"at", "run", "results", "source", "known"}
  BY DEF MTypeOK, Resting
<1>2. DOMAIN r = DOMAIN verify[v]
  OBVIOUS
<1>3. r.at = next /\ r.run = verify[v].run /\ r.results = Updated(found, verify[v].results)
  BY <1>1
<1>4. verify' = [verify EXCEPT ![v] = r]
  BY DEF Reads
<1>5. DOMAIN r = DOMAIN Resting
  BY <1>2 DEF MTypeOK
<1> HIDE DEF r
<1> QED BY <1>3, <1>4, <1>5, VerifyStep

\* The other steps of a verification.
LEMMA LookStep ==
  ASSUME MTypeOK, NEW v \in Verifier, ReadSnapshot(v) \/ Ensure(v)
  PROVE  /\ verify' = [w \in Verifier |-> verify'[w]] /\ DOMAIN verify'[v] = DOMAIN Resting
         /\ verify'[v].run = verify[v].run /\ verify'[v].results = verify[v].results
         /\ ReadSnapshot(v) => verify'[v].at = "runtime" /\ verify'[v].source = newest.source
         /\ Ensure(v) => verify'[v].at = "store"
         /\ \A w \in Verifier \ {v} : verify'[w] = verify[w]
<1>1. DOMAIN verify[v] = {"at", "run", "results", "source", "known"}
  BY DEF MTypeOK, Resting
<1>2. CASE ReadSnapshot(v)
  <2> DEFINE r == [verify[v] EXCEPT !.at = "runtime", !.source = newest.source]
  <2>1. /\ DOMAIN r = DOMAIN verify[v] /\ r.run = verify[v].run /\ r.results = verify[v].results
        /\ r.at = "runtime" /\ r.source = newest.source
    BY <1>1
  <2>2. verify' = [verify EXCEPT ![v] = r]
    BY <1>2 DEF ReadSnapshot
  <2>3. DOMAIN r = DOMAIN Resting /\ ~Ensure(v)
    BY <2>1, <1>2 DEF MTypeOK, ReadSnapshot, Ensure
  <2> HIDE DEF r
  <2> QED BY <2>1, <2>2, <2>3, VerifyStep
<1>3. CASE Ensure(v)
  <2> DEFINE r == [verify[v] EXCEPT !.at = "store", !.known = checks]
  <2>1. /\ DOMAIN r = DOMAIN verify[v] /\ r.run = verify[v].run /\ r.results = verify[v].results
        /\ r.at = "store"
    BY <1>1
  <2>2. verify' = [verify EXCEPT ![v] = r]
    BY <1>3 DEF Ensure
  <2>3. DOMAIN r = DOMAIN Resting /\ ~ReadSnapshot(v)
    BY <2>1, <1>3 DEF MTypeOK, ReadSnapshot, Ensure
  <2> HIDE DEF r
  <2> QED BY <2>1, <2>2, <2>3, VerifyStep
<1> QED BY <1>2, <1>3

\* A sync after a step of its own.
LEMMA SyncMoves ==
  ASSUME MTypeOK, NEW s \in Syncer, NEW e, sync' = [sync EXCEPT ![s] = e]
  PROVE  /\ sync' = [p \in Syncer |-> sync'[p]]
         /\ sync'[s] = e /\ \A p \in Syncer \ {s} : sync'[p] = sync[p]
  BY DEF MTypeOK

\* The steps of a sync before it is committed: account and run stay.
Counting(s) == Count(s) \/ (\E p \in Probes : Probe(s, p)) \/ UpsertPosture(s) \/ ResolveDrift(s)
LEMMA CountingStep ==
  ASSUME MTypeOK, NEW s \in Syncer, Counting(s)
  PROVE  /\ sync' = [p \in Syncer |-> sync'[p]] /\ DOMAIN sync'[s] = DOMAIN Quiet
         /\ sync'[s].account = sync[s].account /\ sync[s].at # "idle"
         /\ \A p \in Syncer \ {s} : sync'[p] = sync[p]
         /\ ~UpsertPosture(s) => (sync'[s].at \in {"drift", "commit"} => sync[s].at \in {"drift", "commit"})
         /\ sync'[s].at = "commit" => sync'[s].old = {d \in drift : d.account = sync[s].account}
         /\ UNCHANGED <<ledger, app, newest, verification, accounts, posture, drift, syncs, changes, since>>
<1>1. DOMAIN sync[s] = {"at", "account", "run", "tables", "probe", "old"}
  BY DEF MTypeOK, Quiet
\* It becomes e.
<1>2. ASSUME NEW e, SyncStep(s, e), DOMAIN e = DOMAIN sync[s], e.account = sync[s].account
      PROVE  /\ sync' = [p \in Syncer |-> sync'[p]] /\ sync'[s] = e /\ DOMAIN sync'[s] = DOMAIN Quiet
             /\ sync'[s].account = sync[s].account
             /\ \A p \in Syncer \ {s} : sync'[p] = sync[p]
             /\ UNCHANGED <<ledger, app, newest, verification, accounts, posture, drift, syncs, changes,
                           since>>
  <2>1. sync' = [sync EXCEPT ![s] = e]
    BY <1>2 DEF SyncStep
  <2>2. DOMAIN e = DOMAIN Quiet
    BY <1>2 DEF MTypeOK
  <2> QED BY <1>2, <2>1, <2>2, SyncMoves DEF SyncStep
<1>3. CASE Count(s)
  <2> DEFINE e == [sync[s] EXCEPT !.at = "probe", !.tables = app]
  <2>1. DOMAIN e = DOMAIN sync[s] /\ e.account = sync[s].account /\ e.at = "probe"
    BY <1>1
  <2>2. SyncStep(s, e) /\ sync[s].at = "count"
    BY <1>3 DEF Count
  <2> HIDE DEF e
  <2> QED BY <2>1, <2>2, <1>2
<1>4. ASSUME NEW x \in Probes, Probe(s, x)
      PROVE  \E e : /\ DOMAIN e = DOMAIN sync[s] /\ e.account = sync[s].account /\ e.at = "upsert"
                    /\ SyncStep(s, e) /\ sync[s].at = "probe"
  <2> DEFINE e == [sync[s] EXCEPT !.at = "upsert", !.probe = x]
  <2>1. DOMAIN e = DOMAIN sync[s] /\ e.account = sync[s].account /\ e.at = "upsert"
    BY <1>1
  <2>2. SyncStep(s, e) /\ sync[s].at = "probe"
    BY <1>4 DEF Probe
  <2> HIDE DEF e
  <2> QED BY <2>1, <2>2
<1>5. CASE \E x \in Probes : Probe(s, x)
  <2>1. PICK e : /\ DOMAIN e = DOMAIN sync[s] /\ e.account = sync[s].account /\ e.at = "upsert"
                 /\ SyncStep(s, e) /\ sync[s].at = "probe"
    BY <1>4, <1>5
  <2> QED BY <2>1, <1>2
<1>6. CASE UpsertPosture(s)
  <2> DEFINE e == [sync[s] EXCEPT !.at = "drift"]
  <2>1. DOMAIN e = DOMAIN sync[s] /\ e.account = sync[s].account /\ e.at = "drift"
    BY <1>1
  <2>2. SyncStep(s, e) /\ sync[s].at = "upsert"
    BY <1>6 DEF UpsertPosture
  <2> HIDE DEF e
  <2> QED BY <2>1, <2>2, <1>2, <1>6
<1>7. CASE ResolveDrift(s)
  <2> DEFINE e == [sync[s] EXCEPT !.at = "commit", !.old = {d \in drift : d.account = sync[s].account}]
  <2>1. /\ DOMAIN e = DOMAIN sync[s] /\ e.account = sync[s].account /\ e.at = "commit"
        /\ e.old = {d \in drift : d.account = sync[s].account}
    BY <1>1
  <2>2. SyncStep(s, e) /\ sync[s].at = "drift"
    BY <1>7 DEF ResolveDrift
  <2> HIDE DEF e
  <2> QED BY <2>1, <2>2, <1>2
<1> QED BY <1>3, <1>5, <1>6, <1>7 DEF Counting

\* The verifications and the syncs by themselves.
VerifyType ==
    /\ verify = [v \in Verifier |-> verify[v]]
    /\ \A v \in Verifier : DOMAIN verify[v] = DOMAIN Resting /\ verify[v].run \in 0..runs
    /\ runs \in Nat /\ since \in 0..runs /\ finished \in 0..runs
    /\ \A k \in DOMAIN stored : stored[k].run \in 0..runs
SyncType ==
    /\ sync = [s \in Syncer |-> sync[s]] /\ \A s \in Syncer : DOMAIN sync[s] = DOMAIN Quiet
    /\ accounts \subseteq Account /\ posture = [a \in Account |-> posture[a]]

LEMMA TypeParts == MTypeOK <=> VerifyType /\ SyncType
  BY DEF MTypeOK, VerifyType, SyncType

LEMMA MTypeInit == MInit => MTypeOK
<1> SUFFICES ASSUME MInit PROVE MTypeOK
  OBVIOUS
<1>1. VerifyType
  BY DEF MInit, VerifyType, Resting
<1>2. SyncType
  BY DEF MInit, SyncType
<1> QED BY <1>1, <1>2, TypeParts

\* What a verification finds out leaves the syncs alone, and the other way round.
ReadingStep(v) ==
    \/ \E step, next, found : Reads(v, step, next, found)
    \/ ReadSnapshot(v) \/ Ensure(v)

LEMMA ReadingSteps ==
  ASSUME NEW v \in Verifier,
         \/ ReadIdentity(v) \/ ReadJobs(v) \/ ReadDocuments(v) \/ ReadDetections(v)
         \/ ReadSnapshot(v) \/ ReadRuntime(v) \/ Ensure(v)
  PROVE  ReadingStep(v)
<1>1. CASE ReadIdentity(v)
  BY <1>1 DEF ReadIdentity, ReadingStep
<1>2. CASE ReadJobs(v)
  BY <1>2 DEF ReadJobs, ReadingStep
<1>3. CASE ReadDocuments(v)
  BY <1>3 DEF ReadDocuments, ReadingStep
<1>4. CASE ReadDetections(v)
  BY <1>4 DEF ReadDetections, ReadingStep
<1>5. CASE ReadRuntime(v)
  BY <1>5 DEF ReadRuntime, ReadingStep
<1>6. CASE ReadSnapshot(v) \/ Ensure(v)
  BY <1>6 DEF ReadingStep
<1> QED BY <1>1, <1>2, <1>3, <1>4, <1>5, <1>6

LEMMA ReadingFrame ==
  ASSUME MTypeOK, NEW v \in Verifier, ReadingStep(v)
  PROVE  /\ verify' = [w \in Verifier |-> verify'[w]] /\ DOMAIN verify'[v] = DOMAIN Resting
         /\ verify'[v].run = verify[v].run
         /\ \A w \in Verifier \ {v} : verify'[w] = verify[w]
         /\ UNCHANGED <<ledger, app, newest, checks, stored, integration, runs, changes, since, finished>>
<1>1. CASE \E step, next, found : Reads(v, step, next, found)
  <2>1. PICK step, next, found : Reads(v, step, next, found)
    BY <1>1
  <2>2. UNCHANGED <<ledger, app, newest, checks, stored, integration, runs, changes, since, finished>>
    BY <2>1 DEF Reads
  <2> QED BY <2>1, <2>2, ReadsStep
<1>2. CASE ReadSnapshot(v) \/ Ensure(v)
  <2>1. UNCHANGED <<ledger, app, newest, checks, stored, integration, runs, changes, since, finished>>
    BY <1>2 DEF ReadSnapshot, Ensure
  <2> QED BY <1>2, <2>1, LookStep
<1> QED BY <1>1, <1>2 DEF ReadingStep

\* Where a verification rests or begins, its record is made anew.
LEMMA AnewStep ==
  ASSUME MTypeOK, NEW v \in Verifier,
         \/ Verify(v) \/ StoreResults(v) \/ LoseResults(v)
  PROVE  /\ verify' = [w \in Verifier |-> verify'[w]] /\ DOMAIN verify'[v] = DOMAIN Resting
         /\ \A w \in Verifier \ {v} : verify'[w] = verify[w]
         /\ Verify(v) => verify'[v] = [Resting EXCEPT !.at = "identity", !.run = runs + 1]
         /\ StoreResults(v) \/ LoseResults(v) => verify'[v] = Resting
<1>1. CASE Verify(v)
  <2> DEFINE r == [Resting EXCEPT !.at = "identity", !.run = runs + 1]
  <2>1. DOMAIN r = DOMAIN Resting
    OBVIOUS
  <2>2. verify' = [verify EXCEPT ![v] = r]
    BY <1>1 DEF Verify
  <2>3. ~StoreResults(v) /\ ~LoseResults(v)
    BY <1>1 DEF Verify, StoreResults, LoseResults
  <2> HIDE DEF r
  <2>4. verify'[v] = r
    BY <2>2, VerifyStep
  <2> QED BY <2>1, <2>2, <2>3, <2>4, VerifyStep DEF r
<1>2. CASE StoreResults(v) \/ LoseResults(v)
  <2>1. verify' = [verify EXCEPT ![v] = Resting]
    BY <1>2 DEF StoreResults, LoseResults
  <2>2. ~Verify(v)
    BY <1>2 DEF Verify, StoreResults, LoseResults
  <2> QED BY <2>1, <2>2, VerifyStep, <1>2
<1> QED BY <1>1, <1>2

\* What is stored by a verification.
LEMMA StoredStep ==
  ASSUME NEW v \in Verifier, StoreResults(v)
  PROVE  \A k : k \in DOMAIN stored' =>
           \/ k \in DOMAIN verify[v].results /\ Later(v, k)
                /\ stored'[k] = [run |-> verify[v].run, result |-> verify[v].results[k]]
           \/ k \in DOMAIN stored /\ ~(k \in DOMAIN verify[v].results /\ Later(v, k)) /\ stored'[k] = stored[k]
<1> DEFINE n == [k \in {x \in DOMAIN verify[v].results : Later(v, x)} |->
                   [run |-> verify[v].run, result |-> verify[v].results[k]]]
<1>1. stored' = Updated(n, stored)
  BY DEF StoreResults
<1>2. DOMAIN n = {x \in DOMAIN verify[v].results : Later(v, x)}
  OBVIOUS
<1>3. \A k \in DOMAIN n : n[k] = [run |-> verify[v].run, result |-> verify[v].results[k]]
  OBVIOUS
<1> HIDE DEF n
<1>4. /\ DOMAIN stored' = DOMAIN n \cup DOMAIN stored
      /\ \A k \in DOMAIN n : stored'[k] = n[k]
      /\ \A k \in DOMAIN stored \ DOMAIN n : stored'[k] = stored[k]
  BY <1>1 DEF Updated
<1>5. ASSUME NEW k \in DOMAIN stored', k \in DOMAIN n
      PROVE  /\ k \in DOMAIN verify[v].results /\ Later(v, k)
             /\ stored'[k] = [run |-> verify[v].run, result |-> verify[v].results[k]]
  BY <1>2, <1>3, <1>4, <1>5
<1>6. ASSUME NEW k \in DOMAIN stored', k \notin DOMAIN n
      PROVE  /\ k \in DOMAIN stored /\ stored'[k] = stored[k]
             /\ ~(k \in DOMAIN verify[v].results /\ Later(v, k))
  BY <1>2, <1>4, <1>6
<1> QED BY <1>5, <1>6

LEMMA MTypeStep == MTypeOK /\ [MNext]_mvars => MTypeOK'
<1> SUFFICES ASSUME MTypeOK, [MNext]_mvars PROVE MTypeOK'
  OBVIOUS
<1>0. VerifyType /\ SyncType
  BY TypeParts
\* Steps of the one or the other only.
<1>01. ASSUME UNCHANGED verification, since' \in {since, runs} PROVE VerifyType'
  BY <1>0, <1>01 DEF verification, VerifyType
<1>02. ASSUME UNCHANGED <<sync, accounts, posture>> PROVE SyncType'
  BY <1>0, <1>02 DEF SyncType
<1>03. VerifyType' /\ SyncType' => MTypeOK'
  BY DEF MTypeOK, VerifyType, SyncType
<1>1. ASSUME Ingest \/ \E t \in Tables : Change(t) PROVE MTypeOK'
  <2>1. UNCHANGED <<verification, integration>> /\ since' \in {since, runs}
    BY <1>1 DEF Ingest, Change
  <2> QED BY <2>1, <1>01, <1>02, <1>03 DEF integration
<1>2. ASSUME NEW v \in Verifier, Verify(v) PROVE MTypeOK'
  <2>1. runs' = runs + 1 /\ UNCHANGED <<stored, since, finished, integration>>
    BY <1>2 DEF Verify
  <2>2. verify'[v].run = runs + 1
    <3>1. [Resting EXCEPT !.at = "identity", !.run = runs + 1].run = runs + 1
      BY DEF Resting
    <3> QED BY <1>2, <3>1, AnewStep
  <2>3. ASSUME NEW w \in Verifier PROVE DOMAIN verify'[w] = DOMAIN Resting /\ verify'[w].run \in 0..runs'
    <3>1. CASE w = v
      BY <3>1, <1>0, <1>2, <2>1, <2>2, AnewStep DEF VerifyType
    <3>2. CASE w # v
      BY <3>2, <1>0, <1>2, <2>1, AnewStep DEF VerifyType
    <3> QED BY <3>1, <3>2
  <2>4. verify' = [w \in Verifier |-> verify'[w]]
    BY <1>2, AnewStep
  <2>5. VerifyType'
    BY <1>0, <2>1, <2>3, <2>4 DEF VerifyType
  <2> QED BY <2>1, <2>5, <1>02, <1>03 DEF integration
<1>3. ASSUME NEW v \in Verifier, ReadingStep(v) PROVE MTypeOK'
  <2>1. UNCHANGED <<stored, runs, since, finished, integration>>
    BY <1>3, ReadingFrame
  <2>2. \A w \in Verifier : DOMAIN verify'[w] = DOMAIN Resting /\ verify'[w].run \in 0..runs
    BY <1>0, <1>3, ReadingFrame DEF VerifyType
  <2>3. verify' = [w \in Verifier |-> verify'[w]]
    BY <1>3, ReadingFrame
  <2>4. VerifyType'
    BY <1>0, <2>1, <2>2, <2>3 DEF VerifyType
  <2> QED BY <2>1, <2>4, <1>02, <1>03 DEF integration
\* A verification that ends.
<1>4. ASSUME NEW v \in Verifier, StoreResults(v) PROVE MTypeOK'
  <2>1. UNCHANGED <<runs, since, integration>>
    BY <1>4 DEF StoreResults
  <2>2. finished' \in 0..runs
    BY <1>0, <1>4 DEF StoreResults, VerifyType
  <2>3. \A w \in Verifier : DOMAIN verify'[w] = DOMAIN Resting /\ verify'[w].run \in 0..runs
    <3>1. Resting.run = 0 /\ 0 \in 0..runs
      BY <1>0 DEF Resting, VerifyType
    <3>2. verify'[v].run \in 0..runs
      BY <3>1, <1>4, AnewStep
    <3> QED BY <3>2, <1>0, <1>4, AnewStep DEF VerifyType
  <2>4. ASSUME NEW k \in DOMAIN stored' PROVE stored'[k].run \in 0..runs
    <3>1. CASE k \in DOMAIN stored /\ stored'[k] = stored[k]
      BY <3>1, <1>0 DEF VerifyType
    <3>2. CASE stored'[k] = [run |-> verify[v].run, result |-> verify[v].results[k]]
      BY <3>2, <1>0 DEF VerifyType
    <3> QED BY <3>1, <3>2, <1>4, StoredStep
  <2>5. verify' = [w \in Verifier |-> verify'[w]]
    BY <1>4, AnewStep
  <2>6. VerifyType'
    BY <1>0, <2>1, <2>2, <2>3, <2>4, <2>5 DEF VerifyType
  <2> QED BY <2>1, <2>6, <1>02, <1>03 DEF integration
<1>5. ASSUME NEW v \in Verifier, LoseResults(v) PROVE MTypeOK'
  <2>1. UNCHANGED <<stored, runs, since, finished, integration>>
    BY <1>5 DEF LoseResults
  <2>2. \A w \in Verifier : DOMAIN verify'[w] = DOMAIN Resting /\ verify'[w].run \in 0..runs
    <3>1. Resting.run = 0 /\ 0 \in 0..runs
      BY <1>0 DEF Resting, VerifyType
    <3>2. verify'[v].run \in 0..runs
      BY <3>1, <1>5, AnewStep
    <3> QED BY <3>2, <1>0, <1>5, AnewStep DEF VerifyType
  <2>3. verify' = [w \in Verifier |-> verify'[w]]
    BY <1>5, AnewStep
  <2>4. VerifyType'
    BY <1>0, <2>1, <2>2, <2>3 DEF VerifyType
  <2> QED BY <2>1, <2>4, <1>02, <1>03 DEF integration
<1>6. ASSUME NEW s \in Syncer, NEW a \in Account, Begin(s, a) PROVE MTypeOK'
  <2> DEFINE e == [Quiet EXCEPT !.at = IF Mode[a] = "internal" THEN "count" ELSE "upsert",
                                !.account = a, !.run = syncs + 1]
  <2>1. DOMAIN e = DOMAIN Quiet
    OBVIOUS
  <2>2. sync' = [sync EXCEPT ![s] = e] /\ UNCHANGED <<verification, accounts, posture, since>>
    BY <1>6 DEF Begin
  <2> HIDE DEF e
  <2>3. SyncType'
    BY <1>0, <2>1, <2>2, SyncMoves DEF SyncType
  <2> QED BY <2>2, <2>3, <1>01, <1>03
<1>7. ASSUME NEW s \in Syncer, Counting(s) PROVE MTypeOK'
  <2>1. UNCHANGED <<verification, accounts, posture, since>>
    BY <1>7, CountingStep
  <2>2. SyncType'
    BY <1>0, <1>7, <2>1, CountingStep DEF SyncType
  <2> QED BY <2>1, <2>2, <1>01, <1>03
<1>8. ASSUME NEW s \in Syncer, Finish(s) PROVE MTypeOK'
  <2>1. /\ sync' = [sync EXCEPT ![s] = Quiet] /\ UNCHANGED <<verification, accounts, since>>
        /\ posture' = [posture EXCEPT ![sync[s].account] = [run |-> sync[s].run, status |-> SupportOf(sync[s])]]
    BY <1>8 DEF Finish
  <2>2. posture' = [a \in Account |-> posture'[a]]
    BY <1>0, <2>1 DEF SyncType
  <2>3. SyncType'
    BY <1>0, <2>1, <2>2, SyncMoves DEF SyncType
  <2> QED BY <2>1, <2>3, <1>01, <1>03
<1>9. ASSUME NEW a \in Account, Delete(a) PROVE MTypeOK'
  <2>1. UNCHANGED <<verification, sync, posture, since>> /\ accounts' = accounts \ {a}
    BY <1>9 DEF Delete
  <2>2. SyncType'
    BY <1>0, <2>1 DEF SyncType
  <2> QED BY <2>1, <2>2, <1>01, <1>03
<1>10. ASSUME Broken PROVE MTypeOK'
  <2>1. UNCHANGED <<stored, accounts, posture, runs, since, finished>>
    BY <1>10 DEF Broken
  <2>2. ASSUME NEW v \in Verifier, verify' = [verify EXCEPT ![v] = Resting], UNCHANGED sync PROVE MTypeOK'
    <3>1. Resting.run = 0 /\ 0 \in 0..runs
      BY <1>0 DEF Resting, VerifyType
    <3>2. verify'[v] = Resting /\ verify' = [w \in Verifier |-> verify'[w]]
      BY <2>2, VerifyStep
    <3>3. \A w \in Verifier : DOMAIN verify'[w] = DOMAIN Resting /\ verify'[w].run \in 0..runs
      BY <3>1, <3>2, <1>0, <2>2, VerifyStep DEF VerifyType
    <3>4. VerifyType'
      BY <1>0, <2>1, <3>2, <3>3 DEF VerifyType
    <3> QED BY <2>1, <2>2, <3>4, <1>02, <1>03
  <2>3. ASSUME NEW s \in Syncer, sync' = [sync EXCEPT ![s] = Quiet], UNCHANGED verify PROVE MTypeOK'
    <3>1. SyncType'
      BY <1>0, <2>1, <2>3, SyncMoves DEF SyncType
    <3>2. VerifyType'
      BY <1>0, <2>1, <2>3 DEF VerifyType
    <3> QED BY <3>1, <3>2, <1>03
  <2> QED BY <1>10, <2>2, <2>3 DEF Broken
<1>11. CASE UNCHANGED mvars
  BY <1>11, <1>01, <1>02, <1>03 DEF mvars, integration
<1> QED
  BY <1>1, <1>2, <1>3, <1>4, <1>5, <1>6, <1>7, <1>8, <1>9, <1>10, <1>11, ReadingSteps DEF MNext, Counting

----------------------------------------------------------------------------
(* One sync's posture and drift.                                           *)

\* The drift that the internal connector records fits the support it states.
LEMMA ScopesFit ==
  ASSUME NEW e, Mode[e.account] = "internal"
  PROVE  /\ "critical_events" \in Scopes(e) <=> SupportOf(e).AU6 = "partial"
         /\ "IA2" \in Scopes(e) => SupportOf(e).IA2 = "partial"
         /\ SupportOf(e).SI4 = "supported" => Scopes(e) \cap {"job_health", "critical_events"} = {}
<1> DEFINE t == e.tables
           c == [IA2 |-> ConnectorWithoutMfa(t) # {},
                 job_health |-> FailedIngestions(t) # {} \/ FailedAssessments(t) # {},
                 critical_events |-> UnresolvedHigh(t) # {},
                 service_health |-> e.probe.unreachable \/ e.probe.degraded,
                 docker_runtime |-> e.probe.unhealthy]
<1>1. SupportOf(e) = ControlSupport(t, e.probe)
  BY DEF SupportOf
<1>2. Scopes(e) = ConnectorDrift(t, e.probe) \cup (IF NothingSeen(t) THEN {"no_records"} ELSE {})
  BY DEF Scopes
<1>3. ConnectorDrift(t, e.probe) = {k \in DOMAIN c : c[k]}
  BY DEF ConnectorDrift, True
<1>4. /\ DOMAIN c = {"IA2", "job_health", "critical_events", "service_health", "docker_runtime"}
      /\ c["IA2"] = (ConnectorWithoutMfa(t) # {})
      /\ c["job_health"] = (FailedIngestions(t) # {} \/ FailedAssessments(t) # {})
      /\ c["critical_events"] = (UnresolvedHigh(t) # {})
  OBVIOUS
<1> HIDE DEF c
<1>5. /\ "IA2" \in Scopes(e) <=> ConnectorWithoutMfa(t) # {}
      /\ "job_health" \in Scopes(e) <=> FailedIngestions(t) # {} \/ FailedAssessments(t) # {}
      /\ "critical_events" \in Scopes(e) <=> UnresolvedHigh(t) # {}
  BY <1>2, <1>3, <1>4
<1>6. /\ SupportOf(e).AU6 = Supported(UnresolvedHigh(t) = {})
      /\ SupportOf(e).IA2 = Supported(ConnectorPrivileged(t) # {} /\ ConnectorWithoutMfa(t) = {})
      /\ SupportOf(e).SI4 = Supported(Monitored(t, e.probe))
  BY <1>1 DEF ControlSupport
<1>7. "critical_events" \in Scopes(e) <=> SupportOf(e).AU6 = "partial"
  BY <1>5, <1>6 DEF Supported
<1>8. "IA2" \in Scopes(e) => SupportOf(e).IA2 = "partial"
  BY <1>5, <1>6 DEF Supported
<1>9. ASSUME SupportOf(e).SI4 = "supported"
      PROVE  Scopes(e) \cap {"job_health", "critical_events"} = {}
  <2>1. Monitored(t, e.probe)
    BY <1>6, <1>9 DEF Supported
  <2> QED BY <1>5, <2>1 DEF Monitored
<1> QED BY <1>7, <1>8, <1>9

\* The two parts of the property.
RunsAgree == \A d \in drift : d.account \in accounts /\ d.run = posture[d.account].run
ScopesOf(a) == {d.scope : d \in {x \in drift : x.account = a}}
FitsTogether(a) ==
    Mode[a] = "internal" /\ posture[a] # NoValue =>
      /\ "critical_events" \in ScopesOf(a) <=> posture[a].status.AU6 = "partial"
      /\ "IA2" \in ScopesOf(a) => posture[a].status.IA2 = "partial"
      /\ posture[a].status.SI4 = "supported" => ScopesOf(a) \cap {"job_health", "critical_events"} = {}
OneSync == SyncInv /\ RunsAgree /\ \A a \in accounts : FitsTogether(a)

LEMMA OneSyncParts == RunsAgree /\ (\A a \in accounts : FitsTogether(a)) <=> PostureOfOneSync
<1>1. (\A a \in accounts : FitsTogether(a)) <=>
        \A a \in accounts : Mode[a] = "internal" /\ posture[a] # NoValue =>
         LET scopes == {d.scope : d \in {x \in drift : x.account = a}}
         IN  /\ "critical_events" \in scopes <=> posture[a].status.AU6 = "partial"
             /\ "IA2" \in scopes => posture[a].status.IA2 = "partial"
             /\ posture[a].status.SI4 = "supported"
                  => scopes \cap {"job_health", "critical_events"} = {}
  BY DEF FitsTogether, ScopesOf
<1> QED BY <1>1 DEF RunsAgree, PostureOfOneSync

LEMMA OneSyncInit == MInit => OneSync
  BY DEF MInit, OneSync, SyncInv, RunsAgree, FitsTogether, ScopesOf, HoldsPosture, Quiet

LEMMA OneSyncStep == MTypeOK /\ OneSync /\ [MNext]_mvars => OneSync'
<1> SUFFICES ASSUME MTypeOK, OneSync, [MNext]_mvars PROVE OneSync'
  OBVIOUS
<1>0. SyncInv /\ RunsAgree /\ (\A a \in accounts : FitsTogether(a)) /\ accounts \subseteq Account
  BY DEF OneSync, MTypeOK
<1>1. ASSUME UNCHANGED <<sync, accounts, posture, drift>> PROVE OneSync'
  BY <1>0, <1>1 DEF OneSync, SyncInv, RunsAgree, FitsTogether, ScopesOf, HoldsPosture
\* What only moves a sync on leaves the rows as they are.
<1>2. ASSUME UNCHANGED <<accounts, posture, drift>> PROVE RunsAgree' /\ \A a \in accounts' : FitsTogether(a)'
  BY <1>0, <1>2 DEF RunsAgree, FitsTogether, ScopesOf
\* A sync that has not written, or no longer holds, posture rows.
<1>3. ASSUME NEW s \in Syncer, \A p \in Syncer \ {s} : sync'[p] = sync[p],
             UNCHANGED <<accounts, posture, drift>>,
             sync'[s].at # "idle" => sync'[s].account \in accounts,
             \A p \in Syncer \ {s} : \A a \in Account : ~(HoldsPosture(p, a) /\ HoldsPosture(s, a)'),
             sync'[s].at = "commit" => sync'[s].old = {d \in drift : d.account = sync'[s].account}
      PROVE  OneSync'
  <2>1. ASSUME NEW p \in Syncer PROVE sync'[p].at # "idle" => sync'[p].account \in accounts'
    BY <2>1, <1>0, <1>3 DEF SyncInv
  <2>2. ASSUME NEW p \in Syncer, NEW r \in Syncer, NEW a \in Account, p # r
        PROVE  ~(HoldsPosture(p, a)' /\ HoldsPosture(r, a)')
    <3>1. ASSUME NEW x \in Syncer \ {s} PROVE HoldsPosture(x, a)' <=> HoldsPosture(x, a)
      BY <3>1, <1>3 DEF HoldsPosture
    <3>2. CASE p # s /\ r # s
      BY <3>1, <3>2, <2>2, <1>0 DEF SyncInv
    <3>3. CASE p = s
      BY <3>1, <3>3, <2>2, <1>3
    <3>4. CASE r = s
      BY <3>1, <3>4, <2>2, <1>3
    <3> QED BY <3>2, <3>3, <3>4
  <2>3. ASSUME NEW p \in Syncer, sync'[p].at = "commit"
        PROVE  sync'[p].old = {d \in drift' : d.account = sync'[p].account}
    BY <2>3, <1>0, <1>3 DEF SyncInv
  <2>4. SyncInv'
    BY <2>1, <2>2, <2>3 DEF SyncInv
  <2> QED BY <1>2, <1>3, <2>4 DEF OneSync
<1>4. ASSUME NEW s \in Syncer, NEW a \in Account, Begin(s, a) PROVE OneSync'
  <2> DEFINE e == [Quiet EXCEPT !.at = IF Mode[a] = "internal" THEN "count" ELSE "upsert",
                                !.account = a, !.run = syncs + 1]
  <2>1. e.account = a /\ e.at \in {"count", "upsert"}
    BY DEF Quiet
  <2>2. a \in accounts /\ sync' = [sync EXCEPT ![s] = e] /\ UNCHANGED <<accounts, posture, drift>>
    BY <1>4 DEF Begin
  <2> HIDE DEF e
  <2>3. sync'[s] = e /\ \A p \in Syncer \ {s} : sync'[p] = sync[p]
    BY <2>2, SyncMoves
  <2> QED BY <2>1, <2>2, <2>3, <1>3 DEF HoldsPosture
<1>5. ASSUME NEW s \in Syncer, Counting(s) PROVE OneSync'
  <2>1. /\ sync'[s].account = sync[s].account /\ sync[s].at # "idle"
        /\ \A p \in Syncer \ {s} : sync'[p] = sync[p]
        /\ sync'[s].at = "commit" => sync'[s].old = {d \in drift : d.account = sync[s].account}
        /\ ~UpsertPosture(s) => (sync'[s].at \in {"drift", "commit"} => sync[s].at \in {"drift", "commit"})
        /\ UNCHANGED <<accounts, posture, drift>>
    BY <1>5, CountingStep
  <2>2. ASSUME NEW p \in Syncer \ {s}, NEW a \in Account PROVE ~(HoldsPosture(p, a) /\ HoldsPosture(s, a)')
    <3>1. CASE UpsertPosture(s)
      BY <3>1, <2>1 DEF UpsertPosture, HoldsPosture
    <3>2. CASE ~UpsertPosture(s)
      BY <3>2, <2>1, <1>0 DEF HoldsPosture, SyncInv
    <3> QED BY <3>1, <3>2
  <2>3. sync'[s].account \in accounts
    BY <2>1, <1>0 DEF SyncInv
  <2> QED BY <2>1, <2>2, <2>3, <1>3
\* The commit: rows and drift of the account are this sync's.
<1>60. ASSUME NEW s \in Syncer, Finish(s), NEW e, NEW a, e = sync[s], a = e.account PROVE OneSync'
  <2> DEFINE row == [run |-> e.run, status |-> SupportOf(e)]
  <2>1. /\ e.at = "commit" /\ posture' = [posture EXCEPT ![a] = row]
        /\ drift' = (drift \ e.old) \cup {[account |-> a, run |-> e.run, scope |-> x] : x \in Scopes(e)}
        /\ sync' = [sync EXCEPT ![s] = Quiet] /\ UNCHANGED accounts
    BY <1>60 DEF Finish
  <2>2. a \in accounts /\ a \in Account /\ e.old = {d \in drift : d.account = a}
    BY <2>1, <1>0, <1>60 DEF SyncInv
  <2>3. posture'[a] = row /\ \A b \in Account \ {a} : posture'[b] = posture[b]
    BY <2>1, <2>2 DEF MTypeOK
  <2>4. sync'[s] = Quiet /\ \A p \in Syncer \ {s} : sync'[p] = sync[p]
    BY <2>1, SyncMoves
  <2>5. row.run = e.run /\ row.status = SupportOf(e) /\ Quiet.at = "idle"
    BY DEF Quiet
  <2> HIDE DEF row
  <2>6. \A d : d \in drift' <=>
              \/ d \in drift /\ d.account # a
              \/ \E x \in Scopes(e) : d = [account |-> a, run |-> e.run, scope |-> x]
    BY <2>1, <2>2
  <2>7. ASSUME NEW d \in drift' PROVE d.account \in accounts' /\ d.run = posture'[d.account].run
    <3>1. CASE d \in drift /\ d.account # a
      <4>1. d.account \in accounts /\ d.run = posture[d.account].run
        BY <3>1, <1>0 DEF RunsAgree
      <4> QED BY <4>1, <3>1, <2>1, <2>3, <1>0
    <3>2. CASE \E x \in Scopes(e) : d = [account |-> a, run |-> e.run, scope |-> x]
      <4>1. d.account = a /\ d.run = e.run
        BY <3>2
      <4> QED BY <4>1, <2>1, <2>2, <2>3, <2>5
    <3> QED BY <2>6, <3>1, <3>2
  <2>8. ScopesOf(a)' = Scopes(e)
    <3>1. ScopesOf(a)' = {d.scope : d \in {x \in drift' : x.account = a}}
      BY DEF ScopesOf
    <3>2. ASSUME NEW x \in Scopes(e) PROVE \E d \in drift' : d.account = a /\ d.scope = x
      <4> DEFINE d == [account |-> a, run |-> e.run, scope |-> x]
      <4>1. d \in drift' /\ d.account = a /\ d.scope = x
        BY <2>1
      <4> QED BY <4>1
    <3>3. ASSUME NEW d \in drift', d.account = a PROVE d.scope \in Scopes(e)
      <4>1. PICK x \in Scopes(e) : d = [account |-> a, run |-> e.run, scope |-> x]
        BY <2>6, <3>3
      <4> QED BY <4>1
    <3> QED BY <3>1, <3>2, <3>3
  <2>9. ASSUME NEW b \in accounts' PROVE FitsTogether(b)'
    <3>1. CASE b = a
      <4>1. ASSUME Mode[a] = "internal"
            PROVE  /\ "critical_events" \in Scopes(e) <=> row.status.AU6 = "partial"
                   /\ "IA2" \in Scopes(e) => row.status.IA2 = "partial"
                   /\ row.status.SI4 = "supported" => Scopes(e) \cap {"job_health", "critical_events"} = {}
        BY <4>1, <2>5, <1>60, ScopesFit
      <4>2. posture'[b] = row /\ ScopesOf(b)' = Scopes(e)
        <5>1. posture'[b] = row
          BY <3>1, <2>3
        <5>2. ScopesOf(b)' = ScopesOf(a)'
          BY <3>1 DEF ScopesOf
        <5> QED BY <5>1, <5>2, <2>8
      <4>3. ASSUME Mode[b] = "internal"
            PROVE  /\ "critical_events" \in ScopesOf(b)' <=> posture'[b].status.AU6 = "partial"
                   /\ "IA2" \in ScopesOf(b)' => posture'[b].status.IA2 = "partial"
                   /\ posture'[b].status.SI4 = "supported"
                        => ScopesOf(b)' \cap {"job_health", "critical_events"} = {}
        BY <4>1, <4>2, <4>3, <3>1, Zenon
      <4> QED BY <4>3 DEF FitsTogether
    <3>2. CASE b # a
      <4>1. b \in accounts /\ posture'[b] = posture[b] /\ FitsTogether(b)
        BY <3>2, <2>1, <2>3, <1>0
      <4>2. ScopesOf(b)' = ScopesOf(b)
        <5>1. {x \in drift' : x.account = b} = {x \in drift : x.account = b}
          BY <3>2, <2>6
        <5> QED BY <5>1 DEF ScopesOf
      <4> QED BY <4>1, <4>2 DEF FitsTogether
    <3> QED BY <3>1, <3>2
  <2>10. SyncInv'
    <3>1. ASSUME NEW p \in Syncer PROVE sync'[p].at # "idle" => sync'[p].account \in accounts'
      BY <3>1, <2>1, <2>4, <2>5, <1>0 DEF SyncInv
    <3>2. ASSUME NEW p \in Syncer, NEW r \in Syncer, NEW b \in Account, p # r
          PROVE  ~(HoldsPosture(p, b)' /\ HoldsPosture(r, b)')
      BY <3>2, <2>4, <2>5, <1>0 DEF SyncInv, HoldsPosture
    <3>3. ASSUME NEW p \in Syncer, sync'[p].at = "commit"
          PROVE  sync'[p].old = {d \in drift' : d.account = sync'[p].account}
      <4>1. p # s /\ sync'[p] = sync[p]
        BY <3>3, <2>4, <2>5
      <4>2. sync[p].account \in Account /\ sync[p].account # a
        BY <4>1, <3>3, <2>1, <2>2, <1>0, <1>60 DEF SyncInv, HoldsPosture
      <4>3. {d \in drift' : d.account = sync[p].account} = {d \in drift : d.account = sync[p].account}
        BY <4>2, <2>6
      <4> QED BY <4>1, <4>3, <3>3, <1>0 DEF SyncInv
    <3> QED BY <3>1, <3>2, <3>3 DEF SyncInv
  <2> QED BY <2>7, <2>9, <2>10 DEF OneSync, RunsAgree
<1>6. ASSUME NEW s \in Syncer, Finish(s) PROVE OneSync'
  BY <1>6, <1>60
<1>7. ASSUME NEW a \in Account, Delete(a) PROVE OneSync'
  <2>1. /\ a \in accounts /\ (\A s \in Syncer : sync[s].account # a) /\ accounts' = accounts \ {a}
        /\ drift' = {d \in drift : d.account # a} /\ UNCHANGED <<sync, posture>>
    BY <1>7 DEF Delete
  <2>2. RunsAgree'
    BY <2>1, <1>0 DEF RunsAgree
  <2>3. ASSUME NEW b \in accounts' PROVE FitsTogether(b)'
    <3>1. b \in accounts /\ b # a /\ FitsTogether(b)
      BY <2>1, <1>0
    <3>2. {x \in drift' : x.account = b} = {x \in drift : x.account = b}
      BY <3>1, <2>1
    <3> QED BY <3>1, <3>2, <2>1 DEF FitsTogether, ScopesOf
  <2>4. SyncInv'
    <3>1. ASSUME NEW p \in Syncer, sync[p].at = "commit"
          PROVE  sync[p].old = {d \in drift' : d.account = sync[p].account}
      <4>1. {d \in drift' : d.account = sync[p].account} = {d \in drift : d.account = sync[p].account}
        BY <2>1
      <4> QED BY <4>1, <3>1, <1>0 DEF SyncInv
    <3>2. ASSUME NEW p \in Syncer, sync[p].at # "idle" PROVE sync[p].account \in accounts'
      BY <2>1, <3>2, <1>0 DEF SyncInv
    <3> QED BY <3>1, <3>2, <2>1, <1>0 DEF SyncInv, HoldsPosture
  <2> QED BY <2>2, <2>3, <2>4 DEF OneSync
<1>8. ASSUME Broken PROVE OneSync'
  <2>1. UNCHANGED <<accounts, posture, drift>>
    BY <1>8 DEF Broken
  <2>2. ASSUME NEW s \in Syncer, sync' = [sync EXCEPT ![s] = Quiet] PROVE OneSync'
    <3>1. sync'[s] = Quiet /\ \A p \in Syncer \ {s} : sync'[p] = sync[p]
      BY <2>2, SyncMoves
    <3>2. Quiet.at = "idle"
      BY DEF Quiet
    <3> QED BY <2>1, <3>1, <3>2, <1>3 DEF HoldsPosture
  <2> QED BY <1>8, <2>1, <2>2, <1>1 DEF Broken
\* Everything else leaves the syncs alone.
<1>9. ASSUME \/ Ingest
             \/ \E t \in Tables : Change(t)
             \/ \E v \in Verifier : Verify(v) \/ StoreResults(v) \/ LoseResults(v)
      PROVE  OneSync'
  <2>1. UNCHANGED integration
    BY <1>9 DEF Ingest, Change, Verify, StoreResults, LoseResults
  <2> QED BY <2>1, <1>1 DEF integration
<1>10. ASSUME NEW v \in Verifier, ReadingStep(v) PROVE OneSync'
  BY <1>10, ReadingFrame, <1>1 DEF integration
<1>11. CASE UNCHANGED mvars
  BY <1>11, <1>1 DEF mvars, integration
<1> QED
  BY <1>4, <1>5, <1>6, <1>7, <1>8, <1>9, <1>10, <1>11, ReadingSteps DEF MNext, Counting

\* The posture rows of an account and its active drift are those of one and the same
\* sync, however many syncs overlap, end early, or race the deletion of the account.
THEOREM PostureIsOfOneSync == MSpec => []PostureOfOneSync
<1>1. MSpec => [](MTypeOK /\ OneSync)
  BY MTypeInit, MTypeStep, OneSyncInit, OneSyncStep, PTL DEF MSpec
<1>2. OneSync => PostureOfOneSync
  BY OneSyncParts DEF OneSync
<1> QED BY <1>1, <1>2, PTL

----------------------------------------------------------------------------
(* What the checks show.                                                   *)

\* The checks that every verification answers.
Identity == {"verify_privileged_mfa_coverage", "verify_refresh_token_hygiene",
             "verify_security_headers_emitted"}
Tabular == Identity \cup {"verify_ingestion_pipeline_health", "verify_evidence_storage_posture",
                          "verify_detection_backlog"}

LEMMA RuntimeKeys ==
  ASSUME NEW open
  PROVE  DOMAIN RuntimeResults(open)
           = {"verify_container_runtime_hardening"}
               \cup (IF "host_patching" \in open THEN {"verify_host_patch_backlog"} ELSE {})
<1> DEFINE hardened == [verify_container_runtime_hardening |-> Graded(open \cap Hardening # {}, FALSE)]
           host == [verify_host_patch_backlog |-> "fail"]
<1>1. /\ DOMAIN hardened = {"verify_container_runtime_hardening"}
      /\ DOMAIN host = {"verify_host_patch_backlog"}
  OBVIOUS
<1>2. RuntimeResults(open) = IF "host_patching" \in open THEN Updated(host, hardened) ELSE hardened
  BY DEF RuntimeResults
<1> HIDE DEF hardened, host
<1>3. DOMAIN Updated(host, hardened) = DOMAIN host \cup DOMAIN hardened
  BY DEF Updated
<1> QED BY <1>1, <1>2, <1>3

LEMMA TruthEntries ==
  /\ DOMAIN Truth = Tabular \cup DOMAIN RuntimeResults(OpenOf(newest.source))
  /\ Truth["verify_privileged_mfa_coverage"] = MfaCoverage(app)
  /\ Truth["verify_refresh_token_hygiene"] = TokenHygiene(app)
  /\ Truth["verify_security_headers_emitted"] = HeadersEmitted(app)
  /\ Truth["verify_ingestion_pipeline_health"] = PipelineHealth(app)
  /\ Truth["verify_evidence_storage_posture"] = StoragePosture(app)
  /\ Truth["verify_detection_backlog"] = DetectionBacklog(app)
  /\ \A k \in DOMAIN RuntimeResults(OpenOf(newest.source)) :
       Truth[k] = RuntimeResults(OpenOf(newest.source))[k]
<1> DEFINE f == [verify_privileged_mfa_coverage |-> MfaCoverage(app),
                 verify_refresh_token_hygiene |-> TokenHygiene(app),
                 verify_security_headers_emitted |-> HeadersEmitted(app),
                 verify_ingestion_pipeline_health |-> PipelineHealth(app),
                 verify_evidence_storage_posture |-> StoragePosture(app),
                 verify_detection_backlog |-> DetectionBacklog(app)]
           g == RuntimeResults(OpenOf(newest.source))
<1>1. /\ DOMAIN f = Tabular
      /\ f["verify_privileged_mfa_coverage"] = MfaCoverage(app)
      /\ f["verify_refresh_token_hygiene"] = TokenHygiene(app)
      /\ f["verify_security_headers_emitted"] = HeadersEmitted(app)
      /\ f["verify_ingestion_pipeline_health"] = PipelineHealth(app)
      /\ f["verify_evidence_storage_posture"] = StoragePosture(app)
      /\ f["verify_detection_backlog"] = DetectionBacklog(app)
  BY DEF Tabular, Identity
<1>2. Truth = Updated(f, g)
  BY DEF Truth
<1>3. DOMAIN g \cap Tabular = {}
  BY RuntimeKeys DEF Tabular, Identity
<1> HIDE DEF f, g
<1>4. /\ DOMAIN Truth = DOMAIN f \cup DOMAIN g
      /\ \A k \in DOMAIN f : Truth[k] = f[k]
      /\ \A k \in DOMAIN g \ DOMAIN f : Truth[k] = g[k]
  BY <1>2 DEF Updated
<1>5. \A k \in DOMAIN g : Truth[k] = g[k]
  BY <1>1, <1>3, <1>4
<1>6. DOMAIN Truth = Tabular \cup DOMAIN g
  BY <1>1, <1>4
<1>7. /\ Truth["verify_privileged_mfa_coverage"] = MfaCoverage(app)
      /\ Truth["verify_refresh_token_hygiene"] = TokenHygiene(app)
      /\ Truth["verify_security_headers_emitted"] = HeadersEmitted(app)
      /\ Truth["verify_ingestion_pipeline_health"] = PipelineHealth(app)
      /\ Truth["verify_evidence_storage_posture"] = StoragePosture(app)
      /\ Truth["verify_detection_backlog"] = DetectionBacklog(app)
  BY <1>1, <1>4 DEF Tabular, Identity
<1> QED BY <1>5, <1>6, <1>7 DEF g

\* As long as nothing changes that a verification reads, the truth stays.
LEMMA TruthStays == UNCHANGED <<app, newest, rows>> => UNCHANGED Truth
  BY DEF Truth, OpenOf

\* Reading what is true adds to the truth that is read.
Right(found) == \A k \in DOMAIN found : k \in DOMAIN Truth /\ found[k] = Truth[k]

LEMMA ReadsRight ==
  ASSUME NEW found, NEW f, Right(found), Right(f)
  PROVE  Right(Updated(found, f)) /\ DOMAIN Updated(found, f) = DOMAIN found \cup DOMAIN f
<1>1. DOMAIN Updated(found, f) = DOMAIN found \cup DOMAIN f
  BY UpdatedEntries
<1>2. ASSUME NEW k \in DOMAIN Updated(found, f)
      PROVE  k \in DOMAIN Truth /\ Updated(found, f)[k] = Truth[k]
  <2>1. CASE k \in DOMAIN found
    BY <2>1 DEF Right, Updated
  <2>2. CASE k \notin DOMAIN found
    BY <2>2, <1>1, <1>2 DEF Right, Updated
  <2> QED BY <2>1, <2>2
<1> QED BY <1>1, <1>2 DEF Right

\* What each step of a verification adds is true when it is added.
LEMMA FoundRight ==
  /\ Right([verify_privileged_mfa_coverage |-> MfaCoverage(app),
            verify_refresh_token_hygiene |-> TokenHygiene(app),
            verify_security_headers_emitted |-> HeadersEmitted(app)])
  /\ Right([verify_ingestion_pipeline_health |-> PipelineHealth(app)])
  /\ Right([verify_evidence_storage_posture |-> StoragePosture(app)])
  /\ Right([verify_detection_backlog |-> DetectionBacklog(app)])
  /\ Right(RuntimeResults(OpenOf(newest.source)))
<1>0. Tabular \subseteq DOMAIN Truth
  BY TruthEntries
<1>1. Right([verify_privileged_mfa_coverage |-> MfaCoverage(app),
             verify_refresh_token_hygiene |-> TokenHygiene(app),
             verify_security_headers_emitted |-> HeadersEmitted(app)])
  BY <1>0, TruthEntries DEF Right, Tabular, Identity
<1>2. Right([verify_ingestion_pipeline_health |-> PipelineHealth(app)])
  BY <1>0, TruthEntries DEF Right, Tabular, Identity
<1>3. Right([verify_evidence_storage_posture |-> StoragePosture(app)])
  BY <1>0, TruthEntries DEF Right, Tabular, Identity
<1>4. Right([verify_detection_backlog |-> DetectionBacklog(app)])
  BY <1>0, TruthEntries DEF Right, Tabular, Identity
<1>5. Right(RuntimeResults(OpenOf(newest.source)))
  BY TruthEntries DEF Right
<1> QED BY <1>1, <1>2, <1>3, <1>4, <1>5

\* Another verification, and one that has not moved, keep what they have.
LEMMA ReadTruthStays ==
  ASSUME UNCHANGED <<app, newest, rows>>, NEW v \in Verifier, verify'[v] = verify[v], ReadTruth(v)
  PROVE  ReadTruth(v)'
  BY TruthStays DEF ReadTruth, Behind

\* A step that reads what is true, all that the steps before it were to read being there.
LEMMA ReadTruthGrows ==
  ASSUME MTypeOK, UNCHANGED <<app, newest, rows>>, NEW v \in Verifier, ReadTruth(v),
         NEW step, NEW next, NEW found, Reads(v, step, next, found), Right(found)
  PROVE  /\ \A k \in DOMAIN verify'[v].results : k \in DOMAIN Truth' /\ verify'[v].results[k] = Truth'[k]
         /\ DOMAIN verify'[v].results = DOMAIN found \cup DOMAIN verify[v].results
         /\ verify[v].at = step /\ verify'[v].at = next
<1>1. Right(verify[v].results)
  BY DEF ReadTruth, Right
<1>2. verify'[v].results = Updated(found, verify[v].results) /\ verify'[v].at = next
  BY ReadsStep
<1>3. /\ Right(Updated(found, verify[v].results))
      /\ DOMAIN Updated(found, verify[v].results) = DOMAIN found \cup DOMAIN verify[v].results
  BY <1>1, ReadsRight
<1>4. Truth' = Truth
  BY TruthStays
<1>5. verify[v].at = step
  BY DEF Reads
<1>6. \A k \in DOMAIN verify'[v].results : k \in DOMAIN Truth' /\ verify'[v].results[k] = Truth'[k]
  BY <1>2, <1>3, <1>4 DEF Right
<1> QED BY <1>2, <1>3, <1>5, <1>6

LEMMA ReadTruthStep ==
  ASSUME MTypeOK, UNCHANGED <<app, newest, rows>>, NEW v \in Verifier, ReadTruth(v),
         \/ ReadIdentity(v) \/ ReadJobs(v) \/ ReadDocuments(v) \/ ReadDetections(v)
         \/ ReadSnapshot(v) \/ ReadRuntime(v) \/ Ensure(v)
  PROVE  ReadTruth(v)'
<1>1. CASE ReadIdentity(v)
  <2> DEFINE found == [verify_privileged_mfa_coverage |-> MfaCoverage(app),
                       verify_refresh_token_hygiene |-> TokenHygiene(app),
                       verify_security_headers_emitted |-> HeadersEmitted(app)]
  <2>1. Reads(v, "identity", "jobs", found) /\ Right(found)
    BY <1>1, FoundRight DEF ReadIdentity
  <2>2. DOMAIN found = Identity
    BY DEF Identity
  <2> HIDE DEF found
  <2>3. /\ \A k \in DOMAIN verify'[v].results : k \in DOMAIN Truth' /\ verify'[v].results[k] = Truth'[k]
        /\ DOMAIN verify'[v].results = DOMAIN found \cup DOMAIN verify[v].results
        /\ verify'[v].at = "jobs"
    BY <2>1, ReadTruthGrows
  <2> QED BY <2>2, <2>3 DEF ReadTruth, Behind, Identity
<1>2. CASE ReadJobs(v)
  <2> DEFINE found == [verify_ingestion_pipeline_health |-> PipelineHealth(app)]
  <2>1. Reads(v, "jobs", "documents", found) /\ Right(found)
    BY <1>2, FoundRight DEF ReadJobs
  <2>2. DOMAIN found = {"verify_ingestion_pipeline_health"}
    OBVIOUS
  <2> HIDE DEF found
  <2>3. /\ \A k \in DOMAIN verify'[v].results : k \in DOMAIN Truth' /\ verify'[v].results[k] = Truth'[k]
        /\ DOMAIN verify'[v].results = DOMAIN found \cup DOMAIN verify[v].results
        /\ verify[v].at = "jobs" /\ verify'[v].at = "documents"
    BY <2>1, ReadTruthGrows
  <2> QED BY <2>2, <2>3 DEF ReadTruth, Behind
<1>3. CASE ReadDocuments(v)
  <2> DEFINE found == [verify_evidence_storage_posture |-> StoragePosture(app)]
  <2>1. Reads(v, "documents", "detections", found) /\ Right(found)
    BY <1>3, FoundRight DEF ReadDocuments
  <2>2. DOMAIN found = {"verify_evidence_storage_posture"}
    OBVIOUS
  <2> HIDE DEF found
  <2>3. /\ \A k \in DOMAIN verify'[v].results : k \in DOMAIN Truth' /\ verify'[v].results[k] = Truth'[k]
        /\ DOMAIN verify'[v].results = DOMAIN found \cup DOMAIN verify[v].results
        /\ verify[v].at = "documents" /\ verify'[v].at = "detections"
    BY <2>1, ReadTruthGrows
  <2> QED BY <2>2, <2>3 DEF ReadTruth, Behind
<1>4. CASE ReadDetections(v)
  <2> DEFINE found == [verify_detection_backlog |-> DetectionBacklog(app)]
  <2>1. Reads(v, "detections", "snapshot", found) /\ Right(found)
    BY <1>4, FoundRight DEF ReadDetections
  <2>2. DOMAIN found = {"verify_detection_backlog"}
    OBVIOUS
  <2> HIDE DEF found
  <2>3. /\ \A k \in DOMAIN verify'[v].results : k \in DOMAIN Truth' /\ verify'[v].results[k] = Truth'[k]
        /\ DOMAIN verify'[v].results = DOMAIN found \cup DOMAIN verify[v].results
        /\ verify[v].at = "detections" /\ verify'[v].at = "snapshot"
    BY <2>1, ReadTruthGrows
  <2> QED BY <2>2, <2>3 DEF ReadTruth, Behind
\* The rest: the collector of the newest snapshot, and its findings.
<1>5. CASE ReadSnapshot(v)
  <2>1. /\ verify[v].at = "snapshot" /\ verify'[v].at = "runtime"
        /\ verify'[v].results = verify[v].results /\ verify'[v].source = newest'.source
    BY <1>5, LookStep DEF ReadSnapshot
  <2> QED BY <2>1, TruthStays DEF ReadTruth, Behind
<1>6. CASE ReadRuntime(v)
  <2> DEFINE found == RuntimeResults(OpenOf(verify[v].source))
  <2>1. verify[v].at = "runtime" /\ verify[v].source = newest.source
    BY <1>6 DEF ReadRuntime, Reads, ReadTruth
  <2>2. found = RuntimeResults(OpenOf(newest.source))
    BY <2>1
  <2>3. Reads(v, "runtime", "ensure", found) /\ Right(found)
    BY <1>6, <2>2, FoundRight DEF ReadRuntime
  <2>4. DOMAIN Truth = Tabular \cup DOMAIN found
    BY <2>2, TruthEntries
  <2> HIDE DEF found
  <2>5. /\ \A k \in DOMAIN verify'[v].results : k \in DOMAIN Truth' /\ verify'[v].results[k] = Truth'[k]
        /\ DOMAIN verify'[v].results = DOMAIN found \cup DOMAIN verify[v].results
        /\ verify'[v].at = "ensure"
    BY <2>3, ReadTruthGrows
  <2>6. Tabular \subseteq DOMAIN verify[v].results
    BY <2>1 DEF ReadTruth, Behind, Tabular, Identity
  <2>7. DOMAIN Truth' \subseteq DOMAIN verify'[v].results
    BY <2>4, <2>5, <2>6, TruthStays
  <2> QED BY <2>5, <2>6, <2>7 DEF ReadTruth, Behind, Tabular, Identity
<1>7. CASE Ensure(v)
  <2>1. /\ verify[v].at = "ensure" /\ verify'[v].at = "store" /\ verify'[v].results = verify[v].results
    BY <1>7, LookStep DEF Ensure
  <2> QED BY <2>1, TruthStays DEF ReadTruth, Behind
<1> QED BY <1>1, <1>2, <1>3, <1>4, <1>5, <1>6, <1>7

LEMMA ShownInit == MInit => ShownInv
<1> SUFFICES ASSUME MInit PROVE ShownInv
  OBVIOUS
<1>1. /\ \A v \in Verifier : verify[v].run = 0
      /\ since = 0 /\ finished = 0 /\ DOMAIN stored = {}
  BY DEF MInit, Resting
<1> QED BY <1>1 DEF ShownInv

LEMMA ShownStep == MTypeOK /\ ShownInv /\ [MNext]_mvars => ShownInv'
<1> SUFFICES ASSUME MTypeOK, ShownInv, [MNext]_mvars PROVE ShownInv'
  OBVIOUS
<1>0. /\ \A v \in Verifier : verify[v].run \in 0..runs
      /\ runs \in Nat /\ since \in 0..runs /\ finished \in 0..runs
      /\ \A k \in DOMAIN stored : stored[k].run \in 0..runs
  BY DEF MTypeOK
\* Everything that was read has changed: no verification that has begun counts.
<1>1. ASSUME since' = runs, UNCHANGED <<verify, stored, finished>> PROVE ShownInv'
  <2>1. \A v \in Verifier : ~(verify'[v].run > since')
    BY <1>0, <1>1
  <2>2. \A k \in DOMAIN stored' : ~(stored'[k].run > since')
    BY <1>0, <1>1
  <2>3. ~(finished' > since')
    BY <1>0, <1>1
  <2> QED BY <2>1, <2>2, <2>3 DEF ShownInv
\* Nothing of it has changed, and nothing is stored.
<1>2. ASSUME UNCHANGED <<app, newest, rows, stored, since, finished>>,
             \A v \in Verifier : verify'[v].run > since => ReadTruth(v)'
      PROVE  ShownInv'
  <2>1. Truth' = Truth
    BY <1>2, TruthStays
  <2> QED BY <1>2, <2>1 DEF ShownInv
<1>3. ASSUME UNCHANGED <<app, newest, rows, stored, since, finished>>, UNCHANGED verify
      PROVE  ShownInv'
  <2>1. \A v \in Verifier : verify[v].run > since => ReadTruth(v)'
    BY <1>3, ReadTruthStays DEF ShownInv
  <2> QED BY <1>2, <1>3, <2>1
\* One verification has moved.
<1>4. ASSUME UNCHANGED <<app, newest, rows, stored, since, finished>>, NEW v \in Verifier,
             \A w \in Verifier \ {v} : verify'[w] = verify[w],
             verify'[v].run > since => ReadTruth(v)'
      PROVE  ShownInv'
  <2>1. ASSUME NEW w \in Verifier, verify'[w].run > since PROVE ReadTruth(w)'
    <3>1. CASE w = v
      BY <3>1, <2>1, <1>4
    <3>2. CASE w # v
      <4>1. verify'[w] = verify[w] /\ ReadTruth(w)
        BY <3>2, <2>1, <1>4 DEF ShownInv
      <4> QED BY <4>1, <1>4, ReadTruthStays
    <3> QED BY <3>1, <3>2
  <2> QED BY <2>1, <1>2, <1>4
<1>5. ASSUME NEW t \in Tables, Change(t) PROVE ShownInv'
  BY <1>1, <1>5 DEF Change, verification
<1>6. ASSUME Ingest PROVE ShownInv'
  <2>1. UNCHANGED <<app, verify, stored, finished>>
    BY <1>6 DEF Ingest, verification
  <2>2. CASE <<rows', newest'>> = <<rows, newest>>
    BY <2>1, <2>2, <1>3, <1>6 DEF Ingest
  <2>3. CASE <<rows', newest'>> # <<rows, newest>>
    BY <2>1, <2>3, <1>1, <1>6 DEF Ingest
  <2> QED BY <2>2, <2>3
<1>7. ASSUME NEW v \in Verifier, Verify(v) PROVE ShownInv'
  <2>1. UNCHANGED <<app, newest, rows, stored, since, finished>>
    BY <1>7 DEF Verify, ledger, vars, tables
  <2>2. verify'[v].at = "identity" /\ verify'[v].results = <<>>
    <3>1. /\ [Resting EXCEPT !.at = "identity", !.run = runs + 1].at = "identity"
          /\ [Resting EXCEPT !.at = "identity", !.run = runs + 1].results = <<>>
      BY DEF Resting
    <3> QED BY <3>1, <1>7, AnewStep
  <2>3. ReadTruth(v)'
    BY <2>2 DEF ReadTruth, Behind
  <2> QED BY <2>1, <2>3, <1>4, <1>7, AnewStep
<1>8. ASSUME NEW v \in Verifier,
             \/ ReadIdentity(v) \/ ReadJobs(v) \/ ReadDocuments(v) \/ ReadDetections(v)
             \/ ReadSnapshot(v) \/ ReadRuntime(v) \/ Ensure(v)
      PROVE  ShownInv'
  <2>1. ReadingStep(v)
    BY <1>8, ReadingSteps
  <2>2. UNCHANGED <<app, newest, rows, stored, since, finished>>
    BY <2>1, ReadingFrame DEF ledger, vars, tables
  <2>3. verify'[v].run = verify[v].run /\ \A w \in Verifier \ {v} : verify'[w] = verify[w]
    BY <2>1, ReadingFrame
  <2>4. verify'[v].run > since => ReadTruth(v)'
    BY <2>2, <2>3, <1>8, ReadTruthStep DEF ShownInv
  <2> QED BY <2>2, <2>3, <2>4, <1>4
\* Results are stored.
<1>9. ASSUME NEW v \in Verifier, StoreResults(v) PROVE ShownInv'
  <2> DEFINE n == verify[v].run
  <2>1. /\ verify[v].at = "store" /\ UNCHANGED <<app, newest, rows, since>>
        /\ finished' = IF finished < n THEN n ELSE finished
    BY <1>9 DEF StoreResults, ledger, vars, tables
  <2>2. Truth' = Truth /\ n \in 0..runs
    BY <2>1, <1>0, TruthStays
  <2>3. verify'[v].run = 0 /\ \A w \in Verifier \ {v} : verify'[w] = verify[w]
    BY <1>9, AnewStep DEF Resting
  <2>4. ASSUME NEW w \in Verifier, verify'[w].run > since PROVE ReadTruth(w)'
    <3>1. w # v
      BY <2>3, <2>4, <1>0
    <3>2. verify'[w] = verify[w] /\ ReadTruth(w)
      BY <3>1, <2>3, <2>4 DEF ShownInv
    <3> QED BY <3>2, <2>1, ReadTruthStays
  <2>5. ASSUME n > since
        PROVE  /\ \A k \in DOMAIN verify[v].results : k \in DOMAIN Truth /\ verify[v].results[k] = Truth[k]
               /\ DOMAIN Truth \subseteq DOMAIN verify[v].results
    BY <2>1, <2>5 DEF ShownInv, ReadTruth
  <2>6. ASSUME NEW k \in DOMAIN stored', stored'[k].run > since
        PROVE  k \in DOMAIN Truth /\ stored'[k].result = Truth[k]
    <3>1. CASE k \in DOMAIN stored /\ stored'[k] = stored[k]
      BY <3>1, <2>6 DEF ShownInv
    <3>2. CASE /\ k \in DOMAIN verify[v].results
               /\ stored'[k] = [run |-> verify[v].run, result |-> verify[v].results[k]]
      <4>1. stored'[k].run = n /\ stored'[k].result = verify[v].results[k]
        BY <3>2
      <4> QED BY <4>1, <3>2, <2>5, <2>6
    <3> QED BY <3>1, <3>2, <1>9, StoredStep
  <2>7. ASSUME finished' > since, NEW k \in DOMAIN Truth
        PROVE  k \in DOMAIN stored' /\ stored'[k].run > since
    <3> DEFINE mine == k \in DOMAIN verify[v].results /\ Later(v, k)
    <3>1. mine => k \in DOMAIN stored' /\ stored'[k].run = n
      <4>1. ASSUME mine PROVE k \in DOMAIN stored'
        BY <4>1, <1>9 DEF StoreResults, Updated
      <4>2. ASSUME mine PROVE stored'[k] = [run |-> verify[v].run, result |-> verify[v].results[k]]
        BY <4>1, <4>2, <1>9, StoredStep
      <4> QED BY <4>1, <4>2
    <3>2. ~mine /\ k \in DOMAIN stored => k \in DOMAIN stored' /\ stored'[k] = stored[k]
      <4>1. ASSUME k \in DOMAIN stored PROVE k \in DOMAIN stored'
        BY <4>1, <1>9 DEF StoreResults, Updated
      <4> QED BY <4>1, <1>9, StoredStep
    <3>3. CASE n > since
      <4>1. k \in DOMAIN verify[v].results
        BY <3>3, <2>5, <2>7
      <4>2. ASSUME ~Later(v, k) PROVE k \in DOMAIN stored /\ stored[k].run > n
        BY <4>2, <1>0, <2>2 DEF Later
      <4>3. CASE Later(v, k)
        BY <4>1, <4>3, <3>1, <3>3
      <4>4. CASE ~Later(v, k)
        BY <4>2, <4>4, <3>2, <3>3, <1>0, <2>2
      <4> QED BY <4>3, <4>4
    <3>4. CASE ~(n > since)
      <4>1. finished > since
        BY <3>4, <2>7, <2>1, <2>2, <1>0
      <4>2. k \in DOMAIN stored /\ stored[k].run > since
        BY <4>1, <2>7 DEF ShownInv
      <4>3. ~Later(v, k)
        BY <4>2, <3>4, <1>0, <2>2 DEF Later
      <4> QED BY <4>2, <4>3, <3>2
    <3> QED BY <3>3, <3>4
  <2>8. since' = since
    BY <2>1
  <2> QED BY <2>2, <2>4, <2>6, <2>7, <2>8 DEF ShownInv
\* A verification whose results are lost.
<1>10. ASSUME NEW v \in Verifier, LoseResults(v) PROVE ShownInv'
  <2>1. UNCHANGED <<app, newest, rows, stored, since, finished>>
    BY <1>10 DEF LoseResults, ledger, vars, tables
  <2>2. verify'[v].run = 0 /\ \A w \in Verifier \ {v} : verify'[w] = verify[w]
    BY <1>10, AnewStep DEF Resting
  <2>3. ~(verify'[v].run > since)
    BY <2>2, <1>0
  <2> QED BY <2>1, <2>2, <2>3, <1>4
<1>11. ASSUME Broken PROVE ShownInv'
  <2>1. UNCHANGED <<app, newest, rows, stored, since, finished>>
    BY <1>11 DEF Broken, tables
  <2>2. ASSUME NEW v \in Verifier, verify' = [verify EXCEPT ![v] = Resting] PROVE ShownInv'
    <3>1. verify'[v].run = 0 /\ \A w \in Verifier \ {v} : verify'[w] = verify[w]
      BY <2>2, VerifyStep DEF Resting
    <3>2. ~(verify'[v].run > since)
      BY <3>1, <1>0
    <3> QED BY <2>1, <3>1, <3>2, <1>4
  <2> QED BY <1>11, <2>1, <2>2, <1>3 DEF Broken
\* The syncs touch nothing of it.
<1>12. ASSUME \/ \E s \in Syncer : (\E a \in Account : Begin(s, a)) \/ Counting(s) \/ Finish(s)
              \/ \E a \in Account : Delete(a)
       PROVE  ShownInv'
  <2>1. ASSUME NEW s \in Syncer, Counting(s)
        PROVE  UNCHANGED <<ledger, app, newest, verification, since>>
    BY <2>1, CountingStep
  <2>2. UNCHANGED <<ledger, app, newest, verification, since>>
    BY <1>12, <2>1 DEF Begin, Finish, Delete
  <2> QED BY <2>2, <1>3 DEF ledger, vars, tables, verification
<1>13. CASE UNCHANGED mvars
  BY <1>13, <1>3 DEF mvars, ledger, vars, tables, verification
<1> QED
  BY <1>5, <1>6, <1>7, <1>8, <1>9, <1>10, <1>11, <1>12, <1>13 DEF MNext, Counting

\* Answers added to answers are answers.
LEMMA AnswersAdded ==
  ASSUME NEW found, NEW f,
         \A k \in DOMAIN found : Answers(k, found[k]), \A k \in DOMAIN f : Answers(k, f[k])
  PROVE  \A k \in DOMAIN Updated(found, f) : Answers(k, Updated(found, f)[k])
<1>1. ASSUME NEW k \in DOMAIN Updated(found, f) PROVE Answers(k, Updated(found, f)[k])
  <2>1. CASE k \in DOMAIN found
    <3>1. Updated(found, f)[k] = found[k]
      BY <2>1, UpdatedEntries
    <3> QED BY <2>1, <3>1
  <2>2. CASE k \notin DOMAIN found
    <3>1. k \in DOMAIN f /\ Updated(found, f)[k] = f[k]
      BY <2>2, <1>1 DEF Updated
    <3> QED BY <3>1
  <2> QED BY <2>1, <2>2
<1> QED BY <1>1

\* What a verification adds are answers of the checks.
LEMMA FoundAnswers ==
  ASSUME NEW found,
         \/ DOMAIN found \subseteq Always
         \/ \E open : found = RuntimeResults(open)
  PROVE  \A k \in DOMAIN found : Answers(k, found[k])
<1>1. CASE DOMAIN found \subseteq Always
  BY <1>1 DEF Answers
<1>2. ASSUME NEW open, found = RuntimeResults(open)
      PROVE  \A k \in DOMAIN found : Answers(k, found[k])
  <2> DEFINE hardened == [verify_container_runtime_hardening |-> Graded(open \cap Hardening # {}, FALSE)]
             host == [verify_host_patch_backlog |-> "fail"]
  <2>1. /\ DOMAIN hardened = {"verify_container_runtime_hardening"}
        /\ DOMAIN host = {HostPatches} /\ host[HostPatches] = "fail"
    BY DEF HostPatches
  <2>2. found = IF "host_patching" \in open THEN Updated(host, hardened) ELSE hardened
    BY <1>2 DEF RuntimeResults
  <2> HIDE DEF hardened, host
  <2>3. /\ \A k \in DOMAIN hardened : Answers(k, hardened[k])
        /\ \A k \in DOMAIN host : Answers(k, host[k])
    BY <2>1 DEF Answers, Always
  <2>4. \A k \in DOMAIN Updated(host, hardened) : Answers(k, Updated(host, hardened)[k])
    BY <2>3, AnswersAdded
  <2> QED BY <2>2, <2>3, <2>4
<1> QED BY <1>1, <1>2

LEMMA KindInit == MInit => KindInv
<1> SUFFICES ASSUME MInit PROVE KindInv
  OBVIOUS
<1>1. (\A v \in Verifier : DOMAIN verify[v].results = {}) /\ DOMAIN stored = {}
  BY DEF MInit, Resting
<1> QED BY <1>1 DEF KindInv

LEMMA KindStep == MTypeOK /\ KindInv /\ [MNext]_mvars => KindInv'
<1> SUFFICES ASSUME MTypeOK, KindInv, [MNext]_mvars PROVE KindInv'
  OBVIOUS
<1>1. ASSUME UNCHANGED <<verify, stored>> PROVE KindInv'
  BY <1>1 DEF KindInv
\* One verification has moved, and has read nothing or answers.
<1>2. ASSUME UNCHANGED stored, NEW v \in Verifier,
             \A w \in Verifier \ {v} : verify'[w] = verify[w],
             \A k \in DOMAIN verify'[v].results : Answers(k, verify'[v].results[k])
      PROVE  KindInv'
  <2>1. ASSUME NEW w \in Verifier, NEW k \in DOMAIN verify'[w].results
        PROVE  Answers(k, verify'[w].results[k])
    <3>1. CASE w = v
      BY <3>1, <2>1, <1>2
    <3>2. CASE w # v
      BY <3>2, <2>1, <1>2 DEF KindInv
    <3> QED BY <3>1, <3>2
  <2> QED BY <2>1, <1>2 DEF KindInv
\* A verification that begins or has ended has no results.
<1>3. ASSUME UNCHANGED stored, NEW v \in Verifier,
             \A w \in Verifier \ {v} : verify'[w] = verify[w], verify'[v].results = <<>>
      PROVE  KindInv'
  <2>1. DOMAIN verify'[v].results = {}
    BY <1>3
  <2> QED BY <2>1, <1>2, <1>3
<1>4. ASSUME NEW v \in Verifier, Verify(v) PROVE KindInv'
  <2>1. [Resting EXCEPT !.at = "identity", !.run = runs + 1].results = <<>>
    BY DEF Resting
  <2>2. UNCHANGED stored
    BY <1>4 DEF Verify
  <2> QED BY <2>1, <2>2, <1>3, <1>4, AnewStep
<1>5. ASSUME NEW v \in Verifier, NEW step, NEW next, NEW found, Reads(v, step, next, found),
             \/ DOMAIN found \subseteq Always
             \/ \E open : found = RuntimeResults(open)
      PROVE  KindInv'
  <2>1. \A k \in DOMAIN found : Answers(k, found[k])
    BY <1>5, FoundAnswers
  <2>2. /\ verify'[v].results = Updated(found, verify[v].results)
        /\ \A w \in Verifier \ {v} : verify'[w] = verify[w]
    BY <1>5, ReadsStep
  <2>3. \A k \in DOMAIN verify[v].results : Answers(k, verify[v].results[k])
    BY DEF KindInv
  <2>4. \A k \in DOMAIN verify'[v].results : Answers(k, verify'[v].results[k])
    BY <2>1, <2>2, <2>3, AnswersAdded
  <2>5. UNCHANGED stored
    BY <1>5 DEF Reads
  <2> QED BY <2>2, <2>4, <2>5, <1>2
<1>6. ASSUME NEW v \in Verifier,
             ReadIdentity(v) \/ ReadJobs(v) \/ ReadDocuments(v) \/ ReadDetections(v)
      PROVE  KindInv'
  <2>1. CASE ReadIdentity(v)
    <3> DEFINE found == [verify_privileged_mfa_coverage |-> MfaCoverage(app),
                         verify_refresh_token_hygiene |-> TokenHygiene(app),
                         verify_security_headers_emitted |-> HeadersEmitted(app)]
    <3>1. Reads(v, "identity", "jobs", found) /\ DOMAIN found \subseteq Always
      BY <2>1 DEF ReadIdentity, Always
    <3> HIDE DEF found
    <3> QED BY <3>1, <1>5
  <2>2. CASE ReadJobs(v)
    <3> DEFINE found == [verify_ingestion_pipeline_health |-> PipelineHealth(app)]
    <3>1. Reads(v, "jobs", "documents", found) /\ DOMAIN found \subseteq Always
      BY <2>2 DEF ReadJobs, Always
    <3> HIDE DEF found
    <3> QED BY <3>1, <1>5
  <2>3. CASE ReadDocuments(v)
    <3> DEFINE found == [verify_evidence_storage_posture |-> StoragePosture(app)]
    <3>1. Reads(v, "documents", "detections", found) /\ DOMAIN found \subseteq Always
      BY <2>3 DEF ReadDocuments, Always
    <3> HIDE DEF found
    <3> QED BY <3>1, <1>5
  <2>4. CASE ReadDetections(v)
    <3> DEFINE found == [verify_detection_backlog |-> DetectionBacklog(app)]
    <3>1. Reads(v, "detections", "snapshot", found) /\ DOMAIN found \subseteq Always
      BY <2>4 DEF ReadDetections, Always
    <3> HIDE DEF found
    <3> QED BY <3>1, <1>5
  <2> QED BY <1>6, <2>1, <2>2, <2>3, <2>4
<1>7. ASSUME NEW v \in Verifier, ReadRuntime(v) PROVE KindInv'
  BY <1>5, <1>7 DEF ReadRuntime
<1>8. ASSUME NEW v \in Verifier, ReadSnapshot(v) \/ Ensure(v) PROVE KindInv'
  <2>1. /\ verify'[v].results = verify[v].results
        /\ \A w \in Verifier \ {v} : verify'[w] = verify[w]
    BY <1>8, LookStep
  <2>2. UNCHANGED stored
    BY <1>8 DEF ReadSnapshot, Ensure
  <2>3. \A k \in DOMAIN verify'[v].results : Answers(k, verify'[v].results[k])
    BY <2>1 DEF KindInv
  <2> QED BY <2>1, <2>2, <2>3, <1>2
<1>9. ASSUME NEW v \in Verifier, StoreResults(v) PROVE KindInv'
  <2>1. DOMAIN verify'[v].results = {} /\ \A w \in Verifier \ {v} : verify'[w] = verify[w]
    BY <1>9, AnewStep DEF Resting
  <2>2. ASSUME NEW w \in Verifier, NEW k \in DOMAIN verify'[w].results
        PROVE  Answers(k, verify'[w].results[k])
    BY <2>1, <2>2 DEF KindInv
  <2>3. ASSUME NEW k \in DOMAIN stored' PROVE Answers(k, stored'[k].result)
    <3>1. CASE k \in DOMAIN stored /\ stored'[k] = stored[k]
      BY <3>1 DEF KindInv
    <3>2. CASE /\ k \in DOMAIN verify[v].results
               /\ stored'[k] = [run |-> verify[v].run, result |-> verify[v].results[k]]
      <4>1. stored'[k].result = verify[v].results[k]
        BY <3>2
      <4> QED BY <4>1, <3>2 DEF KindInv
    <3> QED BY <3>1, <3>2, <1>9, StoredStep
  <2> QED BY <2>2, <2>3 DEF KindInv
<1>10. ASSUME NEW v \in Verifier, LoseResults(v) PROVE KindInv'
  <2>1. UNCHANGED stored
    BY <1>10 DEF LoseResults
  <2> QED BY <2>1, <1>3, <1>10, AnewStep DEF Resting
<1>11. ASSUME Broken PROVE KindInv'
  <2>1. ASSUME NEW v \in Verifier, verify' = [verify EXCEPT ![v] = Resting] PROVE KindInv'
    <3>1. verify'[v].results = <<>> /\ \A w \in Verifier \ {v} : verify'[w] = verify[w]
      BY <2>1, VerifyStep DEF Resting
    <3> QED BY <3>1, <1>3, <1>11 DEF Broken
  <2> QED BY <1>11, <2>1, <1>1 DEF Broken
\* Everything else leaves the verifications alone.
<1>12. ASSUME \/ Ingest
              \/ \E t \in Tables : Change(t)
              \/ \E s \in Syncer : (\E a \in Account : Begin(s, a)) \/ Counting(s) \/ Finish(s)
              \/ \E a \in Account : Delete(a)
       PROVE  KindInv'
  <2>1. ASSUME NEW s \in Syncer, Counting(s) PROVE UNCHANGED verification
    BY <2>1, CountingStep
  <2>2. UNCHANGED verification
    BY <1>12, <2>1 DEF Ingest, Change, Begin, Finish, Delete
  <2> QED BY <2>2, <1>1 DEF verification
<1>13. CASE UNCHANGED mvars
  BY <1>13, <1>1 DEF mvars, verification
<1> QED
  BY <1>4, <1>6, <1>7, <1>8, <1>9, <1>10, <1>11, <1>12, <1>13 DEF MNext, Counting

\* The checks that every verification runs are among the truth.
LEMMA AlwaysTrue == Always \subseteq DOMAIN Truth
  BY TruthEntries, RuntimeKeys DEF Always, Tabular, Identity

\* Once a verification that began after the last change has been committed, every check
\* that is run shows the truth, in whatever order verifications end and whoever is lost;
\* what is shown beside it is a backlog of host patches that has been worked off.
THEOREM ChecksShowTheTruth == MSpec => []ShownIsCurrent
<1>1. MSpec => [](MTypeOK /\ ShownInv /\ KindInv)
  BY MTypeInit, MTypeStep, ShownInit, ShownStep, KindInit, KindStep, PTL DEF MSpec
<1>2. MTypeOK /\ ShownInv /\ KindInv => ShownIsCurrent
  BY AlwaysTrue DEF MTypeOK, ShownInv, KindInv, Answers, ShownIsCurrent
<1> QED BY <1>1, <1>2, PTL
=============================================================================
