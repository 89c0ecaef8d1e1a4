------------------------------- MODULE Disputes -------------------------------
(***************************************************************************)
(* Disputes about one awarded job: disputes.service.ts over                *)
(* disputes.repo.ts.  Either party raises, admins move a dispute along.    *)
(* The job's own status is read once and never written, so it is whether   *)
(* raising is allowed; reasons, evidence and notes are left out.           *)
(***************************************************************************)
EXTENDS Integers, Sequences, FiniteSets

CONSTANTS Requests,    \* calls under way, of the parties or of admins
          Resolutions, \* values of dispute_resolution
          MaxDisputes, \* bound on the disputes raised
          MaxReopened  \* bound on the resolved disputes a late write takes back

None == "none"
ResolutionAssumption == Resolutions # {} /\ None \notin Resolutions
DisputeAssumption    == {MaxDisputes, MaxReopened} \subseteq Nat

VARIABLES disputes, \* rows: who raised it, status and resolution
          call,     \* what each request is doing
          notices,  \* history: outcomes told to the parties of each dispute
          crowd,    \* history: most raises of a party ever past their check at once
          reopened  \* history: how often a dispute of a party went back from resolved

vars == <<disputes, call, notices, crowd, reopened>>

Parties == {"customer", "provider"}
Active(p) == {d \in DOMAIN disputes : /\ disputes[d].raisedBy = p
                                      /\ disputes[d].status \in {"open", "investigating"}}
Raising(p) == {r \in Requests : call[r].at = "create" /\ call[r].by = p}

ValidTransitions(status) ==
  CASE status = "open"          -> {"investigating"}
    [] status = "investigating" -> {"resolved"}
    [] OTHER                    -> {}

Idle == [at |-> "idle"]

Init == /\ disputes = <<>>
        /\ call     = [r \in Requests |-> Idle]
        /\ notices  = [d \in 1..MaxDisputes |-> 0]
        /\ crowd    = [p \in Parties |-> 0]
        /\ reopened = [p \in Parties |-> 0]

Goes(r, next) == call' = [call EXCEPT ![r] = next]

\* Mutant: a dispute under investigation does not count as active.
RaiseDisputeOverOpen(r) ==
  /\ call[r] = Idle /\ Len(disputes) < MaxDisputes
  /\ \E p \in Parties :
       /\ {d \in Active(p) : disputes[d].status = "open"} = {}
       /\ Goes(r, [at |-> "create", by |-> p])
       /\ crowd' = [crowd EXCEPT ![p] = IF @ <= Cardinality(Raising(p)) THEN @ + 1 ELSE @]
  /\ UNCHANGED <<disputes, notices, reopened>>

\* raiseDispute: findOpenDisputeByJobAndRaiser finds none of this party's.  The job and its
\* awarded quote, read before, decide who may call and are never asked again.
RaiseDispute(r) ==
  /\ call[r] = Idle /\ Len(disputes) < MaxDisputes
  /\ \E p \in Parties :
       /\ Active(p) = {}
       /\ Goes(r, [at |-> "create", by |-> p])
       /\ crowd' = [crowd EXCEPT ![p] = IF @ <= Cardinality(Raising(p)) THEN @ + 1 ELSE @]
  /\ UNCHANGED <<disputes, notices, reopened>>

\* The INSERT; no unique index stands behind the check.
CreateDispute(r) ==
  /\ call[r].at = "create" /\ Len(disputes) < MaxDisputes
  /\ disputes' = Append(disputes, [raisedBy |-> call[r].by, status |-> "open",
                                   resolution |-> None])
  /\ Goes(r, Idle)
  /\ UNCHANGED <<notices, crowd, reopened>>

\* updateDisputeStatus: findDisputeById, and the transition checked against what it read.
CheckTransition(r) ==
  /\ call[r] = Idle
  /\ \E d \in DOMAIN disputes : \E s \in ValidTransitions(disputes[d].status) :
     \E o \in IF s = "resolved" THEN Resolutions ELSE {None} :
       Goes(r, [at |-> "update", of |-> d, status |-> s, resolution |-> o])
  /\ UNCHANGED <<disputes, notices, crowd, reopened>>

\* The UPDATE by id alone: a resolution is written with "resolved" and never taken away.
UpdateDisputeStatus(r) ==
  /\ call[r].at = "update"
  /\ LET d == call[r].of
         p == disputes[d].raisedBy
         back == disputes[d].status = "resolved" /\ call[r].status # "resolved"
     IN  /\ back => reopened[p] < MaxReopened
         /\ disputes' = [disputes EXCEPT
              ![d].status = call[r].status,
              ![d].resolution = IF call[r].status = "resolved" THEN call[r].resolution ELSE @]
         /\ reopened' = [reopened EXCEPT ![p] = IF back THEN @ + 1 ELSE @]
         /\ Goes(r, IF call[r].status = "resolved" THEN [at |-> "notify", of |-> d] ELSE Idle)
  /\ UNCHANGED <<notices, crowd>>

\* Both parties are told, without the resolution.
NotifyParties(r) ==
  /\ call[r].at = "notify"
  /\ notices' = [notices EXCEPT ![call[r].of] = @ + 1]
  /\ Goes(r, Idle)
  /\ UNCHANGED <<disputes, crowd, reopened>>

\* A statement fails or the process dies: what was written stays.
Fail(r) ==
  /\ call[r] # Idle
  /\ Goes(r, Idle)
  /\ UNCHANGED <<disputes, notices, crowd, reopened>>

Next == \E r \in Requests :
          \/ RaiseDispute(r) \/ CreateDispute(r)
          \/ CheckTransition(r) \/ UpdateDisputeStatus(r) \/ NotifyParties(r)
          \/ Fail(r)

Spec == Init /\ [][Next]_vars

-----------------------------------------------------------------------------
\* A party is meant to have one active dispute about a job.  Two raises side by side, or an
\* admin's late "investigating" written over another's "resolved", give more: every
\* dispute too many has such a race behind it.  (disputes.service.ts:44, :121)
ActiveBounded ==
  \A p \in Parties :
    Cardinality(Active(p)) + Cardinality(Raising(p)) <= crowd[p] + reopened[p]

=============================================================================
