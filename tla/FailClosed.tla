----------------------------- MODULE FailClosed -----------------------------
(***************************************************************************)
(* What Shield v3 promises the caller of one request: the members are      *)
(* heard once each, the answer is the most severe thing heard when all     *)
(* were heard, and until then the only answer is a denial.  A request may  *)
(* also end with no answer.                                                *)
(***************************************************************************)
CONSTANTS Members, Levels

VARIABLES
    heard,      \* the decision of each member, or "SILENT"
    answer      \* "UNDECIDED", "ALLOW", "ESCALATE", "DENY", or "NONE"

MostSevere(decisions) ==
    IF decisions = {"ALLOW"} THEN "ALLOW"
    ELSE IF decisions \subseteq {"ALLOW", "ESCALATE"} THEN "ESCALATE"
    ELSE "DENY"

Init ==
    /\ heard = [m \in Members |-> "SILENT"]
    /\ answer = "UNDECIDED"

Hear(m) ==
    /\ answer = "UNDECIDED"
    /\ heard[m] = "SILENT"
    /\ \E d \in Levels : heard' = [heard EXCEPT ![m] = d]
    /\ UNCHANGED answer

Decide ==
    /\ answer = "UNDECIDED"
    /\ \A m \in Members : heard[m] # "SILENT"
    /\ answer' = MostSevere({heard[m] : m \in Members})
    /\ UNCHANGED heard

Deny ==
    /\ answer = "UNDECIDED"
    /\ answer' \in {"DENY", "NONE"}
    /\ UNCHANGED heard

Next == (\E m \in Members : Hear(m)) \/ Decide \/ Deny

Spec == Init /\ [][Next]_<<heard, answer>>
=============================================================================
