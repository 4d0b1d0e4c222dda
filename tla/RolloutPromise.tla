--------------------------- MODULE RolloutPromise ---------------------------
(***************************************************************************)
(* What rollout control and candidate revocation promise together          *)
(* (docs/adr/0045, docs/ksa37-candidate-revocation.md): no files, no locks, *)
(* no commands.  One candidate is active; admissions to it are open or      *)
(* closed; a candidate may be revoked for several reasons.                  *)
(***************************************************************************)
CONSTANTS Candidate, Primary, Category

VARIABLES
  active,     \* the candidate in force
  open,       \* admissions are enabled
  reasons     \* per candidate, the reasons it stands revoked for

vars == <<active, open, reasons>>

Init ==
  /\ active = Primary
  /\ open = FALSE
  /\ reasons = [c \in Candidate |-> {}]

Open ==
  /\ open' = TRUE
  /\ UNCHANGED <<active, reasons>>

Close ==
  /\ open' = FALSE
  /\ UNCHANGED <<active, reasons>>

\* Another candidate always comes in force closed.
Switch ==
  /\ active' \in Candidate \ {active}
  /\ open' = FALSE
  /\ UNCHANGED reasons

Revoke(c) ==
  /\ \E r \in Category : reasons' = [reasons EXCEPT ![c] = @ \cup {r}]
  /\ UNCHANGED <<active, open>>

\* Only the primary candidate is ever recovered, and only while it is in force
\* and closed: its recovery admits nobody.
Recover ==
  /\ active = Primary /\ ~open
  /\ \E R \in (SUBSET reasons[Primary]) \ {{}} :
       reasons' = [reasons EXCEPT ![Primary] = @ \ R]
  /\ UNCHANGED <<active, open>>

Next == Open \/ Close \/ Switch \/ Recover \/ \E c \in Candidate : Revoke(c)

Spec == Init /\ [][Next]_vars
=============================================================================
