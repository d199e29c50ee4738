-------------------------- MODULE PostureFindings --------------------------
(***************************************************************************)
(* What a security snapshot says (services/security_telemetry.py): the     *)
(* findings that _build_findings_from_payload makes of a payload, each     *)
(* named by its recommendation's key, the settings that are tracked of the *)
(* same payload, and the direction _change_impact gives to a change.       *)
(*                                                                         *)
(* Findings and tracked settings are computed by different code from the   *)
(* same fields; a reader of the change events takes it that whatever opens *)
(* a finding also shows as a regression.                                   *)
(*                                                                         *)
(* A published port is a "local" or an "open" one; an image reference is   *)
(* absent ("none"), "pinned" or "mutable"; an audit of dependencies is     *)
(* "missing", "clean" or "vulnerable"; the findings of all scanned images  *)
(* are added up.  Image digests, whose changes are always neutral, and     *)
(* severities are left out.                                                *)
(***************************************************************************)
EXTENDS Naturals

Container == [non_root : BOOLEAN, read_only_rootfs : BOOLEAN, privileged : BOOLEAN,
              ports : SUBSET {"local", "open"}, cap_drop : BOOLEAN, healthcheck : BOOLEAN,
              image : {"none", "pinned", "mutable"}]
Host == [missing_updates : Nat, reboot_required : BOOLEAN]
Audit == {"missing", "clean", "vulnerable"}
Scout == [available : BOOLEAN, authenticated : BOOLEAN, inventory : BOOLEAN, findings : Nat]
Supply == [npm : Audit, pip : Audit, scout : Scout]
App == [privileged_without_mfa : Nat, failed_jobs : Nat, critical_events : Nat]

True(conditions) == {k \in DOMAIN conditions : conditions[k]}

----------------------------------------------------------------------------
(* _build_findings_from_payload                                            *)

ContainerFindings(c) ==
    True([containers_non_root |-> ~c.non_root,
          containers_read_only |-> ~c.read_only_rootfs,
          containers_privileged |-> c.privileged,
          containers_port_exposure |-> "open" \in c.ports,
          containers_drop_caps |-> ~c.cap_drop,
          container_healthchecks |-> ~c.healthcheck,
          immutable_image_tags |-> c.image = "mutable"])

HostFindings(h) ==
    True([host_patching |-> h.missing_updates > 0, host_reboot |-> h.reboot_required])

AppFindings(a) ==
    True([privileged_mfa |-> a.privileged_without_mfa > 0,
          monitoring_pipeline |-> a.failed_jobs > 0,
          critical_security_events |-> a.critical_events > 0])

DependencyFindings(s) ==
    True([frontend_dependency_vulns |-> s.npm = "vulnerable",
          frontend_dependency_scan_coverage |-> s.npm = "missing",
          backend_dependency_vulns |-> s.pip = "vulnerable",
          backend_dependency_scan_coverage |-> s.pip = "missing"])

\* The first of the four states of image scanning that applies.
Scanned(d) == d.available /\ d.authenticated
ImageFindings(d) ==
    True([container_image_vulns |-> Scanned(d) /\ d.findings > 0,
          container_image_inventory_coverage |-> ~Scanned(d) /\ d.inventory,
          docker_scout_auth |-> d.available /\ ~d.authenticated /\ ~d.inventory,
          docker_image_scan_coverage |-> ~d.available /\ ~d.inventory])

SupplyFindings(s) == DependencyFindings(s) \cup ImageFindings(s.scout)

\* A collector's payload has containers, host, application and supply chain; that of
\* a build only the supply chain (the rest is empty).
Findings(p) ==
    UNION {ContainerFindings(c) : c \in p.containers}
      \cup HostFindings(p.host) \cup AppFindings(p.app) \cup SupplyFindings(p.supply)

----------------------------------------------------------------------------
(* _record_runtime_settings and _record_build_settings                     *)

ContainerSettings(c) ==
    [non_root |-> c.non_root, read_only_rootfs |-> c.read_only_rootfs,
     cap_drop_enabled |-> c.cap_drop, healthcheck_enabled |-> c.healthcheck,
     privileged |-> c.privileged, mutable_image_tag |-> c.image = "mutable",
     published_ports |-> c.ports]

HostSettings(h) ==
    [missing_security_updates |-> h.missing_updates, reboot_required |-> h.reboot_required]

BuildSettings(s) ==
    [frontend_dependency_scan_available |-> s.npm # "missing",
     frontend_dependency_vuln_count |-> IF s.npm = "vulnerable" THEN 1 ELSE 0,
     backend_dependency_scan_available |-> s.pip # "missing",
     backend_dependency_vuln_count |-> IF s.pip = "vulnerable" THEN 1 ELSE 0,
     image_scan_available |-> s.scout.available \/ s.scout.inventory,
     image_scan_authenticated |-> Scanned(s.scout),
     image_vuln_count |-> s.scout.findings]

----------------------------------------------------------------------------
(* _change_impact                                                          *)

Better == {"non_root", "read_only_rootfs", "cap_drop_enabled", "healthcheck_enabled",
           "backend_dependency_scan_available", "frontend_dependency_scan_available",
           "image_scan_available", "image_scan_authenticated"}
Worse == {"privileged", "mutable_image_tag", "reboot_required"}
Counts == {"missing_security_updates", "backend_dependency_vuln_count",
           "frontend_dependency_vuln_count", "image_vuln_count"}

Impact(key, old, new) ==
    CASE new = old -> "neutral"
      [] new # old /\ key \in Better -> IF new THEN "positive" ELSE "negative"
      [] new # old /\ key \in Worse -> IF new THEN "negative" ELSE "positive"
      [] new # old /\ key \in Counts -> IF new < old THEN "positive" ELSE "negative"
      [] OTHER -> IF new \subseteq old THEN "positive" ELSE "negative"

\* _change_status: what is asked of people about a change.
Status(kind, impact) ==
    IF impact = "negative" THEN "needs_review"
    ELSE IF kind = "build" THEN "expected" ELSE "observed"

\* Some setting of `new` is recorded as a regression over `old`.
Regressed(old, new) == \E k \in DOMAIN new : Impact(k, old[k], new[k]) = "negative"
=============================================================================
