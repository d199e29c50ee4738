-------------------------- MODULE MCGenerationJobs --------------------------
(* Constants of GenerationJobs for model checking.                         *)
EXTENDS GenerationJobs

Ask(ids, stops, faults, dataset, guide, artifacts, test) ==
    [jobs |-> ids, cancels |-> stops, troubles |-> faults,
     plans |-> [kind \in Kinds |-> CASE kind = "dataset" -> dataset [] kind = "guide" -> guide
                                     [] kind = "artifacts" -> artifacts [] OTHER -> test]]

\* Three test packages of one bundle; two of up to two; an artifacts report of two
\* controls; two of one; a guide beside a test package and a report of the fourth kind.
Several == {Ask({1, 2, 3}, 0, 1, {{1}, {2}}, {}, {}, {}),
            Ask({1, 2}, 1, 1, {{1}, {1, 2}}, {}, {}, {}),
            Ask({1}, 1, 1, {}, {}, {{1, 2}}, {}),
            Ask({1, 2}, 1, 1, {}, {}, {{1}}, {}),
            Ask({1, 2}, 1, 1, {{1}}, {{1, 2}}, {}, {{1}})}
=============================================================================
