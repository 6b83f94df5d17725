------------------------------ MODULE MCSwarm -------------------------------
(* An instance of Swarm for TLC. *)
EXTENDS Swarm

(* A risky file, a plain one of two chunks, two that cannot be fetched     *)
(* (removed; no patch), one that is not reviewed and one whose source      *)
(* gives no chunk.                                                         *)
AFile(reviewable, priority, patch, changed, parts) ==
    [reviewable |-> reviewable, priority |-> priority, patch |-> patch,
     changed |-> changed, parts |-> parts, content |-> FALSE]
MCFiles == {AFile(TRUE, 7, TRUE, TRUE, 1), AFile(TRUE, 3, TRUE, TRUE, 2),
            AFile(TRUE, 4, TRUE, FALSE, 1), AFile(TRUE, 3, FALSE, TRUE, 1),
            AFile(FALSE, 8, TRUE, TRUE, 1), AFile(TRUE, 5, TRUE, TRUE, 0)}
MCFileLists == UNION {[1..n -> MCFiles] : n \in 0..3}

(* The coordinator names nobody, somebody unknown, an agent twice, the     *)
(* lowest priority alone, and more than the cap with the highest last.     *)
MCAnswers == {<<>>, <<"StyleAgent">>, <<"ReviewAgent", "ReviewAgent">>,
              <<"VerificationAgent">>,
              <<"PerformanceAgent", "ReviewAgent", "SecurityAgent">>}

AComment(line, severity, fix, length) ==
    [path |-> "a.py", line |-> line, severity |-> severity, fix |-> fix,
     length |-> length]
MCReports == {<<>>,
              <<AComment(1, 0, FALSE, 1), AComment(6, 1, FALSE, 1)>>,
              <<AComment(12, 1, TRUE, 2), AComment(11, 2, FALSE, 2),
                AComment(17, 1, FALSE, 2)>>}
=============================================================================
