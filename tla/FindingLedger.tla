--------------------------- MODULE FindingLedger ---------------------------
(***************************************************************************)
(* What an assessment promises to those who only read it (progress stream, *)
(* governance, reports): a set of findings that never shrinks while the    *)
(* assessment exists, and a mark "complete" that is set only when every    *)
(* control of the baseline has a finding.                                  *)
(***************************************************************************)
CONSTANTS Assessment, Control

VARIABLES
    shown,   \* "open", "complete" or "gone", per assessment
    held     \* the controls that have a finding, per assessment

vars == <<shown, held>>

Init ==
    /\ shown = [a \in Assessment |-> "open"]
    /\ held = [a \in Assessment |-> {}]

\* Findings of some controls are stored, even of controls that had one.
Record(a) ==
    /\ shown[a] # "gone"
    /\ \E C \in SUBSET Control : held' = [held EXCEPT ![a] = @ \cup C]
    /\ UNCHANGED shown

Publish(a) ==
    /\ shown[a] = "open"
    /\ held[a] = Control
    /\ shown' = [shown EXCEPT ![a] = "complete"]
    /\ UNCHANGED held

\* A pause, a failure or a resume that lands on a complete assessment.
Reopen(a) ==
    /\ shown[a] = "complete"
    /\ shown' = [shown EXCEPT ![a] = "open"]
    /\ UNCHANGED held

Erase(a) ==
    /\ shown[a] # "gone"
    /\ shown' = [shown EXCEPT ![a] = "gone"]
    /\ held' = [held EXCEPT ![a] = {}]

Next == \E a \in Assessment : Record(a) \/ Publish(a) \/ Reopen(a) \/ Erase(a)

Spec == Init /\ [][Next]_vars
============================================================================
