---------------------------- MODULE LiveDomains ----------------------------
(***************************************************************************)
(* The application as a source of evidence about itself: what its own      *)
(* tables and settings say to the domains of services/security_telemetry   *)
(* .py (findings, and the counts of each summary), to the verification     *)
(* checks of run_security_verifications, and to the internal connector of  *)
(* services/integrations.py.                                               *)
(*                                                                         *)
(* Three pieces of code count the same rows with conditions of their own;  *)
(* their results are stored side by side for the same controls.            *)
(*                                                                         *)
(* `t` holds the tables and settings.  Times are reduced to the windows    *)
(* the code asks for: an age is "day" (last 24 hours), "week" or "older".  *)
(* A finding is known by its type; severities of findings are left out.    *)
(***************************************************************************)
EXTENDS FiniteSets, PostureFindings

Day == {"day"}
Week == {"day", "week"}

----------------------------------------------------------------------------
(* _build_identity_domain                                                  *)

Privileged(t) == {u \in t.users : u.role \in {"admin", "assessor", "owner"} /\ u.active}
PrivilegedWithoutMfa(t) == {u \in Privileged(t) : ~u.mfa}
ActiveTokens(t) == {k \in t.tokens : ~k.revoked /\ ~k.expired}
ExpiredUnrevoked(t) == {k \in t.tokens : ~k.revoked /\ k.expired}
StaleSessions(t) == {k \in ActiveTokens(t) : k.stale}
SessionsOf(t, u) == {k \in ActiveTokens(t) : k.user = u.id}
FailedLogins(t) ==
    {e \in t.events : e.age \in Day
        /\ e.kind \in {"failed_login", "account_locked", "account_locked_attempt", "mfa_bypass_attempt"}}

AccountFindings(t) ==
    True([app_privileged_accounts_missing_mfa |-> PrivilegedWithoutMfa(t) # {},
          app_dormant_privileged_accounts |-> \E u \in Privileged(t) : u.dormant,
          app_failed_login_activity |-> Cardinality(FailedLogins(t)) >= 5,
          app_locked_accounts_present |-> \E u \in t.users : u.locked,
          app_recent_role_changes |-> \E a \in t.audit : a.age \in Week /\ a.about = "role"])

SessionFindings(t) ==
    True([app_privileged_concurrent_sessions |->
              \E u \in Privileged(t) : Cardinality(SessionsOf(t, u)) > 1,
          app_long_lived_refresh_sessions |-> StaleSessions(t) # {},
          app_expired_refresh_tokens_not_revoked |-> ExpiredUnrevoked(t) # {},
          app_recent_mfa_disable_activity |->
              \E a \in t.audit : a.age \in Week /\ a.about = "mfa_disable"])

IdentityFindings(t) == AccountFindings(t) \cup SessionFindings(t)

----------------------------------------------------------------------------
(* _build_configuration_domain: of the settings `t.config` only.           *)

WeakSession(t) == t.config.long_access_token \/ t.config.long_refresh_token

ConfigurationFindings(t) ==
    LET c == t.config
        credentialed == c.wildcard_cors /\ c.cors_credentials
    IN  True([app_credentialed_wildcard_cors |-> credentialed,
              app_non_tls_cors_origins |-> ~credentialed /\ c.http_origins,
              app_secret_key_posture |-> c.weak_secret,
              app_csp_unsafe_inline |-> c.csp_inline_scripts,
              app_csp_inline_styles |-> ~c.csp_inline_scripts /\ c.csp_inline_styles,
              app_login_protection_weak |-> c.weak_lockout,
              app_session_policy_weak |-> WeakSession(t)])

----------------------------------------------------------------------------
(* _build_jobs_domain                                                      *)

FailedIngestions(t) == {r \in t.runs : r.age \in Day /\ r.status = "failed"}
StuckIngestions(t) == {r \in t.runs : r.overdue /\ r.status = "running"}
FailedAssessments(t) == {a \in t.assessments : a.age \in Week /\ a.status = "failed"}
UnresolvedHigh(t) == {e \in t.events : ~e.resolved /\ e.severity \in {"critical", "high"}}
ParseFailures(t) == {r \in FailedIngestions(t) : r.stage = "parse"}

JobsFindings(t) ==
    True([app_ingestion_failures |-> FailedIngestions(t) # {},
          app_stuck_ingestion_jobs |-> StuckIngestions(t) # {},
          app_assessment_failures |-> FailedAssessments(t) # {},
          app_unresolved_security_events |-> UnresolvedHigh(t) # {},
          app_parser_failure_cluster |-> Cardinality(ParseFailures(t)) >= 3])

----------------------------------------------------------------------------
(* _build_data_protection_domain: no retention policy is ever exposed.     *)

FailedDocuments(t) == {d \in t.documents : d.status \in {"failed", "index_failed"}}
StalePending(t) ==
    {d \in t.documents : d.status \in {"pending", "processing", "indexing"} /\ d.age \notin Day}
SecretFallback(t) == t.config.database_fallback \/ t.config.redis_fallback
RetentionExposed == FALSE

DataFindings(t) ==
    True([app_data_store_default_secret_fallback |-> SecretFallback(t),
          app_local_evidence_storage |-> t.documents # {},
          app_evidence_retention_unknown |-> ~RetentionExposed /\ t.documents # {},
          app_protected_evidence_processing_failures |-> FailedDocuments(t) # {},
          app_evidence_processing_stalled |-> StalePending(t) # {}])

----------------------------------------------------------------------------
(* _build_change_events_domain, _build_detections_domain and               *)
(* _build_incidents_domain                                                 *)

ConfigChanges(t) == {c \in t.settings : c.age \in Week}
RecentChanges(t) == {c \in t.changes : c.age \in Week}

ChangeFindings(t) ==
    True([app_unexpected_security_drift |->
              \E c \in RecentChanges(t) : c.change_status = "needs_review",
          app_security_regressions_recently_detected |->
              \E c \in RecentChanges(t) : c.impact_direction = "negative",
          app_security_config_churn |-> Cardinality(ConfigChanges(t)) >= 5])

RecentEvents(t) == {e \in t.events : e.age \in Week}
OpenDetections(t) == {e \in RecentEvents(t) : ~e.resolved}
OpenHigh(t) == {e \in OpenDetections(t) : e.severity \in {"high", "critical"}}
Suspicious(t) ==
    {e \in RecentEvents(t) :
        e.kind \in {"privilege_escalation", "bulk_download", "off_hours_access", "mfa_bypass_attempt"}}

DetectionFindings(t) ==
    True([app_open_high_severity_detections |-> OpenHigh(t) # {},
          app_suspicious_detection_cluster |-> Cardinality(Suspicious(t)) >= 3])

OpenPoams(t) == {p \in t.poams : p.status \notin {"closed", "completed"}}
AcceptedRisks(t) ==
    {p \in t.poams : p.status = "accepted_risk"} \cup {o \in t.overrides : ~o.expired}

IncidentFindings(t) ==
    True([app_overdue_poam_actions |-> \E p \in OpenPoams(t) : p.overdue,
          app_open_critical_incidents |-> \E e \in t.events : ~e.resolved /\ e.severity = "critical",
          app_accepted_risk_inventory |-> AcceptedRisks(t) # {}])

----------------------------------------------------------------------------
(* run_security_verifications: the results of the checks on the domains.   *)

Graded(fails, degrades) == IF fails THEN "fail" ELSE IF degrades THEN "degraded" ELSE "pass"

MfaCoverage(t) == Graded(PrivilegedWithoutMfa(t) # {}, FALSE)
TokenHygiene(t) == Graded(ExpiredUnrevoked(t) # {}, StaleSessions(t) # {})
HeadersEmitted(t) ==
    Graded(t.config.wildcard_cors \/ t.config.csp_inline_scripts \/ t.config.weak_secret,
           t.config.csp_inline_styles \/ WeakSession(t))
PipelineHealth(t) ==
    Graded(StuckIngestions(t) # {} \/ UnresolvedHigh(t) # {},
           FailedIngestions(t) # {} \/ FailedAssessments(t) # {} \/ ParseFailures(t) # {})
StoragePosture(t) ==
    Graded(SecretFallback(t) \/ StalePending(t) # {} \/ FailedDocuments(t) # {}, ~RetentionExposed)
DetectionBacklog(t) ==
    Graded(OpenHigh(t) # {}, OpenDetections(t) # {} \/ Suspicious(t) # {})

----------------------------------------------------------------------------
(* _atobot_summary: what the internal connector says of the controls and   *)
(* which drift it records; `unreachable` and `degraded` services and       *)
(* `unhealthy` containers come from a probe, not from tables.              *)

ConnectorPrivileged(t) == {u \in t.users : u.role \in {"admin", "assessor"}}
ConnectorWithoutMfa(t) == {u \in ConnectorPrivileged(t) : u.active /\ ~u.mfa}
AuditEvents(t) == {a \in t.audit : a.age \in Day}
NothingSeen(t) ==
    t.users \cup AuditEvents(t) \cup {e \in t.events : ~e.resolved} \cup ConfigChanges(t) = {}

Supported(condition) == IF condition THEN "supported" ELSE "partial"
Monitored(t, probe) ==
    FailedIngestions(t) = {} /\ FailedAssessments(t) = {} /\ UnresolvedHigh(t) = {} /\ ~probe.unreachable

ControlSupport(t, probe) ==
    LET audited == AuditEvents(t) # {}
    IN  [IA2 |-> Supported(ConnectorPrivileged(t) # {} /\ ConnectorWithoutMfa(t) = {}),
         AC2 |-> Supported(\E u \in t.users : u.active),
         AU2 |-> Supported(audited),
         AU12 |-> Supported(audited),
         AU6 |-> Supported(UnresolvedHigh(t) = {}),
         CA7 |-> Supported(audited /\ Monitored(t, probe)),
         CM3 |-> Supported(ConfigChanges(t) # {}),
         SI4 |-> Supported(Monitored(t, probe)),
         SC5 |-> Supported(~probe.unreachable)]

ConnectorDrift(t, probe) ==
    True([IA2 |-> ConnectorWithoutMfa(t) # {},
          job_health |-> FailedIngestions(t) # {} \/ FailedAssessments(t) # {},
          critical_events |-> UnresolvedHigh(t) # {},
          service_health |-> probe.unreachable \/ probe.degraded,
          docker_runtime |-> probe.unhealthy])
=============================================================================
