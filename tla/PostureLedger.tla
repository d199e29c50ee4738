---------------------------- MODULE PostureLedger ----------------------------
(***************************************************************************)
(* What the security-posture tables promise: every snapshot that is kept   *)
(* was taken in whole, one after the other.                                *)
(*                                                                         *)
(* A snapshot replaces the open findings of its source, moves the settings *)
(* of the assets it saw, and leaves a change event for each setting that   *)
(* had another value before.  One that a collector signed counts once.     *)
(***************************************************************************)
EXTENDS Sequences

CONSTANTS
    Snapshot,  \* [assets: Seq(Asset), value: [Asset -> Value], keys: SUBSET Key]
    Signed,    \* the snapshots that collectors send, each under its own nonce
    Asset,
    Source,    \* collectors
    Scan,      \* numbers of the snapshots taken
    NoValue    \* the value of a setting that nobody has observed

VARIABLES
    rows,      \* open findings: [source, key, scan]
    setting,   \* [Asset -> value or NoValue]
    events,    \* [Asset -> sequence of <<old value, new value>>]
    used       \* the signed snapshots that were taken

ledgerVars == <<rows, setting, events, used>>

Init ==
    /\ rows = {}
    /\ setting = [a \in Asset |-> NoValue]
    /\ events = [a \in Asset |-> <<>>]
    /\ used = {}

Seen(m) == {m.assets[i] : i \in DOMAIN m.assets}
Found(m, s, n) == {[source |-> s, key |-> k, scan |-> n] : k \in m.keys}
Changes(m, a) == setting[a] \notin {NoValue, m.value[a]}

Take(m, s, n) ==
    /\ m \notin used
    /\ rows' = {r \in rows : r.source # s} \cup Found(m, s, n)
    /\ setting' = [a \in Asset |-> IF a \in Seen(m) THEN m.value[a] ELSE setting[a]]
    /\ events' = [a \in Asset |-> IF a \in Seen(m) /\ Changes(m, a)
                                   THEN Append(events[a], <<setting[a], m.value[a]>>)
                                   ELSE events[a]]
    /\ used' = used \cup ({m} \cap Signed)

Next == \E m \in Snapshot, s \in Source, n \in Scan : Take(m, s, n)

Spec == Init /\ [][Next]_ledgerVars
=============================================================================
