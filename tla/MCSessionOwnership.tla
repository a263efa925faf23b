------------------------- MODULE MCSessionOwnership -------------------------
(* Small instances of SessionOwnership: every session is on the same issue.  *)
EXTENDS SessionOwnership

OneIssue == [s \in Sessions |-> CHOOSE i \in Issues : TRUE]

=============================================================================
