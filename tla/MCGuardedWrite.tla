-------------------------- MODULE MCGuardedWrite ----------------------------
(* Two concurrent calls on one deal and one lead, sharing one key.         *)
EXTENDS GuardedWrite, TLC

CONSTANTS c1, c2, k1

CallSymmetry == Permutations(Calls)
TwoCalls == {c1, c2}
OneKey == {k1}
TwoStages == {"lead", "won"}

Req(kind, to, closing, key) == [kind |-> kind, to |-> to, closing |-> closing, key |-> key]

(* One key sent with a lead, a creation and a close on a date; a close     *)
(* asked as "now"; and a human moving the deal in the pipeline view.       *)
MixedRequests ==
  {Req("lead", "won", "no", k1), Req("post", "won", "no", k1), Req("advance", "won", "date", k1),
   Req("advance", "won", "now", NoKey), Req("transition", "lead", "no", NoKey)}
=============================================================================
