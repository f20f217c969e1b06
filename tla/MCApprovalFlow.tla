--------------------------- MODULE MCApprovalFlow ---------------------------
(***************************************************************************)
(* Instances of ApprovalFlow for TLC.                                       *)
(***************************************************************************)
EXTENDS ApprovalFlow, TLC

CONSTANTS A, B, n1, q1

ClassSpec(res, allow, gate, suggest) ==
    [res |-> res, allow |-> allow, gate |-> gate, suggest |-> suggest]

Decision(approved, high, url) == [approved |-> approved, high |-> high, url |-> url]

\* A class that suggests rollbacks, behind the pull request gate and not.
GatedSpecs ==
    {ClassSpec("plain", FALSE, TRUE, TRUE), ClassSpec("plain", FALSE, FALSE, TRUE)}
OneSpec == {ClassSpec("plain", FALSE, TRUE, TRUE)}

ClassSymmetry == Permutations({A, B})

\* A request with a pull request but no leave for high-risk kinds, and one the
\* other way round; requests with both, and one that may come before approval.
MCRequestSpecs == {Decision(TRUE, FALSE, "ok"), Decision(TRUE, TRUE, "bad")}
OneRequest == {Decision(TRUE, TRUE, "ok")}
LateApproval == {Decision(FALSE, FALSE, "none"), Decision(TRUE, TRUE, "ok")}
=============================================================================
