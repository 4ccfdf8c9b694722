----------------------------- MODULE Enrollment -----------------------------
(***************************************************************************)
(* What the sequences engine promises of its enrollments, whatever worker  *)
(* moves them: one transaction may move several enrollments at once, each  *)
(* along one legal edge; each move appends its row to the audit log in the *)
(* same commit; a finalize job appears only together with the move into a  *)
(* terminal state.  GmailReply is shown to implement this specification.   *)
(***************************************************************************)
EXTENDS EnrollmentStates, Integers, Sequences

CONSTANTS
  Enrollments,   \* enrollment ids
  InitStates     \* the non-terminal states enrollments start in

VARIABLES
  state,     \* enrollments.state
  audit,     \* enrollment -> states recorded by the transition audit rows
  finalize   \* enrollments a sequences.finalize job has been inserted for

vars == <<state, audit, finalize>>

Init == /\ state \in [Enrollments -> InitStates]
        /\ audit = [e \in Enrollments |-> <<state[e]>>]
        /\ finalize = {}

Moved == {e \in Enrollments : state'[e] # state[e]}

(* One transaction commits: every move is a legal edge and brings its      *)
(* audit row; finalize jobs come with moves into a terminal state.         *)
Next ==
  /\ state' \in [Enrollments -> States]
  /\ \A e \in Moved : CanTransition(state[e], state'[e])
  /\ audit' = [e \in Enrollments |->
                 IF e \in Moved THEN Append(audit[e], state'[e]) ELSE audit[e]]
  /\ \E F \in SUBSET {e \in Moved : Terminal(state'[e])} : finalize' = finalize \union F

Spec == Init /\ [][Next]_vars
-----------------------------------------------------------------------------
(* The audit log of an enrollment is a walk of the legal graph that ends   *)
(* in its current state: Transition's UPDATE and its audit row commit      *)
(* together (transition.go, steps 3 and 4).                                *)
AuditIsLegalWalk ==
  \A e \in Enrollments :
    /\ audit[e] # <<>>
    /\ audit[e][Len(audit[e])] = state[e]
    /\ \A i \in 1..(Len(audit[e]) - 1) : CanTransition(audit[e][i], audit[e][i+1])
=============================================================================
