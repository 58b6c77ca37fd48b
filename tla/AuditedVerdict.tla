-------------------------- MODULE AuditedVerdict --------------------------
(***************************************************************************)
(* What the audited boundary of Shield v4 promises its callers: a verdict  *)
(* on a receipt is announced only when durable evidence already states     *)
(* that verdict, evidence is never taken back, and a verdict once          *)
(* announced stands.  A call may also end without a verdict.               *)
(*                                                                         *)
(* A verdict is [result, hash, reason]: "accepted" with the signed payload *)
(* hash of the receipt, or "rejected" with a reason.                       *)
(***************************************************************************)
CONSTANTS
    Calls,
    Undecided,    \* the call has not ended
    Withheld      \* the call ended without a verdict

VARIABLES
    evidence,     \* the verdicts durable audit batches end with
    verdict       \* what each call told its caller

Init ==
    /\ evidence = {}
    /\ verdict = [c \in Calls |-> Undecided]

\* A batch becomes durable, whatever becomes of the call that offered it.
Record ==
    /\ evidence \subseteq evidence'
    /\ UNCHANGED verdict

Announce(c) ==
    /\ verdict[c] = Undecided
    /\ \E v \in evidence : verdict' = [verdict EXCEPT ![c] = v]
    /\ UNCHANGED evidence

Withhold(c) ==
    /\ verdict[c] = Undecided
    /\ verdict' = [verdict EXCEPT ![c] = Withheld]
    /\ UNCHANGED evidence

Next == Record \/ \E c \in Calls : Announce(c) \/ Withhold(c)

Spec == Init /\ [][Next]_<<evidence, verdict>>
=============================================================================
