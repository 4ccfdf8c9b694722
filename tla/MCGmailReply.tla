---------------------------- MODULE MCGmailReply ----------------------------
(* One mailbox, up to two enrollments and two executions of the scan.  A   *)
(* message references nothing we sent, one enrollment, or (a merged        *)
(* thread) both.                                                           *)
EXTENDS GmailReply, TLC

CONSTANTS e1, e2, w1, w2

WorkerSymmetry == Permutations(Workers)
OneEnrollment == {e1}
TwoEnrollments == {e1, e2}
OneWorker == {w1}
TwoWorkers == {w1, w2}
NoRefs == {<<>>}
RefsToOne == {<<e1>>}
RefsToBoth == {<<e1>>, <<e2, e1>>}
Waiting == {"waiting_reply"}
Baselined == {1}
Unset == {0}
=============================================================================
