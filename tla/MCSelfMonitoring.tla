------------------------- MODULE MCSelfMonitoring -------------------------
(* Constants of SelfMonitoring, and of the Posture in it, for model        *)
(* checking.                                                               *)
EXTENDS SelfMonitoring, TLC

CONSTANTS h, x, k1, k2, Self, Live

\* Requests, verifications and syncs differ in nothing but what they do.
Symmetry == Permutations(Request) \cup Permutations(Verifier) \cup Permutations(Syncer)

\* Payloads: containers hardened or writable, a host with or without patches, a clean
\* or a vulnerable frontend; no scanner finds anything in the images.
Payload(readonly, updates, npm) ==
    [containers |-> {[non_root |-> TRUE, read_only_rootfs |-> readonly, privileged |-> FALSE,
                      ports |-> {}, cap_drop |-> TRUE, healthcheck |-> TRUE, image |-> "pinned"]},
     host |-> [missing_updates |-> updates, reboot_required |-> FALSE],
     app |-> [privileged_without_mfa |-> 0, failed_jobs |-> 0, critical_events |-> 0],
     supply |-> [npm |-> npm, pip |-> "clean",
                 scout |-> [available |-> TRUE, authenticated |-> TRUE, inventory |-> TRUE,
                            findings |-> 0]]]

\* What is stored of a payload: h is the host, x the container.
Snap(s, kind, at, order, p, found) ==
    [source |-> s, kind |-> kind, collected_at |-> at, assets |-> order, keys |-> found,
     value |-> [a \in {h, x, Component} |->
                 IF a = h THEN HostSettings(p.host)
                 ELSE IF a = x THEN ContainerSettings(CHOOSE c \in p.containers : TRUE)
                 ELSE BuildSettings(p.supply)]]
Runtime(s, at, order, p) == Snap(s, "runtime", at, order, p, Findings(p))
Build(p) == Snap(NoValue, "build", 0, <<Component>>, p, SupplyFindings(p.supply))

\* Two collectors that see one host and one container, in different orders; a
\* snapshot is collected before one that arrives earlier; builds with the same and
\* without findings.
Sent == {Runtime(k1, 1, <<h, x>>, Payload(FALSE, 0, "vulnerable")),
         Runtime(k1, 3, <<h>>, Payload(TRUE, 0, "clean")),
         Runtime(k2, 2, <<x, h>>, Payload(FALSE, 1, "clean"))}
Posted == {Build(Payload(TRUE, 0, "vulnerable")), Build(Payload(TRUE, 0, "clean"))}

\* The application's tables: all well, an assessor without MFA, an unresolved event of
\* high severity, failed work.
Tables0 ==
    [users |-> {[id |-> 1, role |-> "assessor", active |-> TRUE, mfa |-> TRUE, locked |-> FALSE,
                 dormant |-> FALSE]},
     tokens |-> {}, events |-> {}, audit |-> {[id |-> 1, about |-> "other", age |-> "day"]},
     runs |-> {}, assessments |-> {}, documents |-> {}, changes |-> {}, settings |-> {},
     poams |-> {}, overrides |-> {},
     config |-> [wildcard_cors |-> FALSE, cors_credentials |-> TRUE, http_origins |-> FALSE,
                 weak_secret |-> FALSE, csp_inline_scripts |-> FALSE, csp_inline_styles |-> FALSE,
                 weak_lockout |-> FALSE, long_access_token |-> FALSE, long_refresh_token |-> FALSE,
                 database_fallback |-> FALSE, redis_fallback |-> FALSE]]
NoMfa == [Tables0 EXCEPT !.users = {[u EXCEPT !.mfa = FALSE] : u \in @}]
Alarm == [Tables0 EXCEPT !.events = {[id |-> 1, kind |-> "failed_login", severity |-> "high",
                                      resolved |-> FALSE, age |-> "day"]}]
Trouble == [Tables0 EXCEPT
    !.runs = {[id |-> 1, status |-> "failed", age |-> "day", overdue |-> TRUE, stage |-> "parse"]},
    !.documents = {[id |-> 1, status |-> "failed", age |-> "day"]}]
States == {Tables0, NoMfa, Alarm, Trouble}
First == {Tables0}

Well == [unreachable |-> FALSE, degraded |-> FALSE, unhealthy |-> FALSE]
Found == {Well, [Well EXCEPT !.unreachable = TRUE]}

\* One account of the application itself and one of a connector that is not configured.
Modes == [a \in {Self, Live} |-> IF a = Self THEN "internal" ELSE "live"]

\* Snapshots by themselves, verifications with a snapshot and a change or two snapshots
\* (a host found without patches, and patched), syncs with a change.
Bounds == {[scans |-> 4, runs |-> 0, syncs |-> 0, changes |-> 0],
           [scans |-> 1, runs |-> 2, syncs |-> 0, changes |-> 1],
           [scans |-> 2, runs |-> 2, syncs |-> 0, changes |-> 0],
           [scans |-> 0, runs |-> 3, syncs |-> 0, changes |-> 1],
           [scans |-> 0, runs |-> 0, syncs |-> 3, changes |-> 1]}
=============================================================================
