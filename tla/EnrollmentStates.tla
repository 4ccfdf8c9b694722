-------------------------- MODULE EnrollmentStates --------------------------
(***************************************************************************)
(* The enrollment state graph of internal/sequences/state.go: the states,  *)
(* the terminal ones, and the legal edges that Transition validates        *)
(* against.  Static data and one predicate; no variables.                  *)
(***************************************************************************)

States == {"enrolled", "step_sent", "waiting_reply", "reply_received",
           "ooo_detected", "failed", "bounced", "unsubscribed", "suppressed",
           "completed"}

TerminalStates == {"reply_received", "failed", "bounced", "unsubscribed",
                   "suppressed", "completed"}

LegalEdges ==
  ({"enrolled"} \X {"step_sent", "suppressed", "failed"})
    \union ({"step_sent"} \X {"waiting_reply", "bounced", "unsubscribed",
                              "failed", "completed"})
    \union ({"waiting_reply"} \X {"reply_received", "ooo_detected",
                                  "enrolled", "completed"})
    \union ({"ooo_detected"} \X {"enrolled", "completed"})

CanTransition(from, to) == <<from, to>> \in LegalEdges

Terminal(s) == s \in TerminalStates
=============================================================================
