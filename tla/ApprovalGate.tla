--------------------------- MODULE ApprovalGate ---------------------------
(***************************************************************************)
(* What the human-in-the-loop gate promises, whatever the server does:     *)
(* a gated remediation is performed only with parameters a human granted   *)
(* before, a free one only with no parameters, and nothing else is ever    *)
(* performed.  How often one is performed is not promised here.            *)
(***************************************************************************)
EXTENDS Naturals

CONSTANTS Keys,     \* remediations: records with fields action and params
          Free,     \* actions performed without a human
          NeedsYes, \* actions that need one
          NoParams

VARIABLES granted,  \* parameters humans approved
          performed \* how often each remediation was performed

Init ==
    /\ granted = {}
    /\ performed = [k \in Keys |-> 0]

Grant(p) ==
    /\ granted' = granted \cup {p}
    /\ UNCHANGED performed

Permitted(k) ==
    \/ k.action \in Free /\ k.params = NoParams
    \/ k.action \in NeedsYes /\ k.params \in granted

Perform(k) ==
    /\ Permitted(k)
    /\ performed' = [performed EXCEPT ![k] = @ + 1]
    /\ UNCHANGED granted

Next ==
    \/ \E k \in Keys : Perform(k) \/ Grant(k.params)

Spec == Init /\ [][Next]_<<granted, performed>>
=============================================================================
