--------------------------- MODULE DeliveryContract ---------------------------
(***************************************************************************)
(* What the queue promises of a payload.  A job accepted grants a number   *)
(* of attempts and no more; each attempt leaves one row, which is recorded *)
(* as sent at most once; attempts may come to nothing at any time; a job   *)
(* completes only after something was recorded as sent, and is accepted    *)
(* anew only when the earlier one was settled and forgotten.  Where        *)
(* attempts are exclusive, none begins while another is under way, nor for *)
(* a job that is settled.                                                  *)
(***************************************************************************)
EXTENDS Naturals

CONSTANTS Messages,
          Grant      \* attempts that a job may cost

VARIABLES status,    \* of the job of each payload
          credit,    \* attempts that may still begin
          working,   \* attempts under way, whose row is not marked yet
          sent,      \* rows recorded as sent
          exclusive  \* attempts do not overtake each other

contractVars == <<status, credit, working, sent, exclusive>>

Init == /\ status  = [m \in Messages |-> "none"]
        /\ credit  = [m \in Messages |-> 0]
        /\ working = [m \in Messages |-> 0]
        /\ sent    = [m \in Messages |-> 0]
        /\ exclusive \in BOOLEAN

Accept(m) ==
  /\ status[m] = "none"
  /\ status' = [status EXCEPT ![m] = "open"]
  /\ credit' = [credit EXCEPT ![m] = @ + Grant]
  /\ UNCHANGED <<working, sent, exclusive>>

Attempt(m) ==
  /\ credit[m] > 0
  /\ exclusive => status[m] = "open" /\ working[m] = 0
  /\ credit'  = [credit EXCEPT ![m] = @ - 1]
  /\ working' = [working EXCEPT ![m] = @ + 1]
  /\ UNCHANGED <<status, sent, exclusive>>

Record(m) ==
  /\ working[m] > 0
  /\ working' = [working EXCEPT ![m] = @ - 1]
  /\ sent'    = [sent EXCEPT ![m] = @ + 1]
  /\ UNCHANGED <<status, credit, exclusive>>

\* Attempts fail or die, before their row or after it.
ComeToNothing ==
  /\ \A m \in Messages : credit'[m] <= credit[m] /\ working'[m] <= working[m]
  /\ UNCHANGED <<status, sent, exclusive>>

\* What was granted and not used is forfeited.
Settle(m, outcome) ==
  /\ status[m] = "open"
  /\ outcome = "completed" => sent[m] > 0
  /\ status' = [status EXCEPT ![m] = outcome]
  /\ \A n \in Messages : credit'[n] <= credit[n]
  /\ UNCHANGED <<working, sent, exclusive>>

Forget(m) ==
  /\ status[m] \in {"completed", "failed"}
  /\ status' = [status EXCEPT ![m] = "none"]
  /\ UNCHANGED <<credit, working, sent, exclusive>>

Next == \/ \E m \in Messages :
             \/ Accept(m) \/ Attempt(m) \/ Record(m) \/ Forget(m)
             \/ \E outcome \in {"completed", "failed"} : Settle(m, outcome)
        \/ ComeToNothing

Spec == Init /\ [][Next]_contractVars
=============================================================================
