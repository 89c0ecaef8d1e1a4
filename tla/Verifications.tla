---------------------------- MODULE Verifications ----------------------------
(***************************************************************************)
(* Verification of one provider: verifications.service.ts over             *)
(* verifications.repo.ts and updateProviderVerificationFlags of            *)
(* profile.repo.ts.  Every statement commits by itself, so the handlers    *)
(* of several requests interleave between statements.                      *)
(*                                                                         *)
(* Documents, S3 keys, expiry dates and admin notes are left out; the      *)
(* cache invalidation that ends each handler is TagCache's.                *)
(***************************************************************************)
EXTENDS Integers, Sequences, FiniteSets

CONSTANTS Types,      \* verification types, "identity" among them
          Requests,   \* calls under way, of the provider or of admins
          MaxRows     \* bound on the verifications submitted

ASSUME TypeAssumption == "identity" \in Types
ASSUME RowAssumption  == MaxRows \in Nat

VARIABLES rows,     \* verifications in the order of created_at
          profile,  \* provider_profiles: verification_status and the *_verified flags set
          call,     \* what each request is doing
          approved, \* history: types of which an admin's approval was written
          crowd     \* history: most submissions of a type ever past their check at once

vars == <<rows, profile, call, approved, crowd>>

Decisions == {"verified", "rejected"}
Pending(t) == {i \in DOMAIN rows : rows[i].type = t /\ rows[i].status = "pending"}
Inserting(t) == {r \in Requests : call[r].at = "create" /\ call[r].type = t}

Idle == [at |-> "idle"]

TypeOK ==
  /\ rows \in Seq([type : Types, status : {"pending"} \cup Decisions])
  /\ profile \in [status : {"unverified", "pending"} \cup Decisions, flags : SUBSET Types]
  /\ call \in [Requests -> {Idle}
        \cup [at : {"create"}, type : Types]
        \cup [at : {"findProfile", "toPending"}]
        \cup [at : {"update"}, row : DOMAIN rows, status : Decisions]
        \cup [at : {"readProfile", "remaining", "toRejected"}, row : DOMAIN rows]
        \cup [at : {"setFlags"}, row : DOMAIN rows, status : {"verified", "pending"}]]
  /\ approved \in SUBSET Types
  /\ crowd \in [Types -> 0..Cardinality(Requests)]

Init == /\ rows = <<>>
        /\ profile = [status |-> "unverified", flags |-> {}]
        /\ call = [r \in Requests |-> Idle]
        /\ approved = {}
        /\ crowd = [t \in Types |-> 0]

Goes(r, next) == call' = [call EXCEPT ![r] = next]

-----------------------------------------------------------------------------
(* submitVerification.                                                     *)

\* Mutant: the check asks for a verified document, not for a pending one.
SubmitVerificationUnchecked(r) ==
  /\ call[r] = Idle /\ Len(rows) < MaxRows
  /\ \E t \in Types :
       /\ {i \in DOMAIN rows : rows[i].type = t /\ rows[i].status = "verified"} = {}
       /\ Goes(r, [at |-> "create", type |-> t])
       /\ crowd' = [crowd EXCEPT ![t] = IF @ <= Cardinality(Inserting(t)) THEN @ + 1 ELSE @]
  /\ UNCHANGED <<rows, profile, approved>>

\* hasPendingForType; a pending one refuses the call with 409.
SubmitVerification(r) ==
  /\ call[r] = Idle /\ Len(rows) < MaxRows
  /\ \E t \in Types :
       /\ Pending(t) = {}
       /\ Goes(r, [at |-> "create", type |-> t])
       /\ crowd' = [crowd EXCEPT ![t] = IF @ <= Cardinality(Inserting(t)) THEN @ + 1 ELSE @]
  /\ UNCHANGED <<rows, profile, approved>>

\* The INSERT; no unique index stands behind the check.
CreateVerification(r) ==
  /\ call[r].at = "create" /\ Len(rows) < MaxRows
  /\ rows' = Append(rows, [type |-> call[r].type, status |-> "pending"])
  /\ Goes(r, [at |-> "findProfile"])
  /\ UNCHANGED <<profile, approved, crowd>>

\* findProviderProfile: only an unverified provider becomes pending.
FindProviderProfile(r) ==
  /\ call[r].at = "findProfile"
  /\ Goes(r, IF profile.status = "unverified" THEN [at |-> "toPending"] ELSE Idle)
  /\ UNCHANGED <<rows, profile, approved, crowd>>

UpgradeToPending(r) ==
  /\ call[r].at = "toPending"
  /\ profile' = [profile EXCEPT !.status = "pending"]
  /\ Goes(r, Idle)
  /\ UNCHANGED <<rows, approved, crowd>>

-----------------------------------------------------------------------------
(* reviewVerification.                                                     *)

\* findById; a verification that is not pending refuses the call with 409.
ReviewVerification(r) ==
  /\ call[r] = Idle
  /\ \E i \in DOMAIN rows, d \in Decisions :
       /\ rows[i].status = "pending"
       /\ Goes(r, [at |-> "update", row |-> i, status |-> d])
  /\ UNCHANGED <<rows, profile, approved, crowd>>

\* updateVerificationStatus: by id alone, whatever the row has become.
UpdateVerificationStatus(r) ==
  /\ call[r].at = "update"
  /\ LET i == call[r].row
         d == call[r].status
     IN  /\ rows' = [rows EXCEPT ![i].status = d]
         /\ approved' = IF d = "verified" THEN approved \cup {rows[i].type} ELSE approved
         /\ Goes(r, [at |-> IF d = "verified" THEN "readProfile" ELSE "remaining", row |-> i])
  /\ UNCHANGED <<profile, crowd>>

\* Mutant: any approved document verifies the provider.
ReadProfileUngated(r) ==
  /\ call[r].at = "readProfile"
  /\ Goes(r, [at |-> "setFlags", row |-> call[r].row, status |-> "verified"])
  /\ UNCHANGED <<rows, profile, approved, crowd>>

\* Identity is the gate: of the document at hand, or as the profile now says.
ReadProfile(r) ==
  /\ call[r].at = "readProfile"
  /\ Goes(r, [at     |-> "setFlags",
              row    |-> call[r].row,
              status |-> IF rows[call[r].row].type = "identity" \/ "identity" \in profile.flags
                         THEN "verified" ELSE "pending"])
  /\ UNCHANGED <<rows, profile, approved, crowd>>

\* updateProviderVerificationFlags: flag and status in one UPDATE, then the notice.
SetFlags(r) ==
  /\ call[r].at = "setFlags"
  /\ profile' = [status |-> call[r].status, flags |-> profile.flags \cup {rows[call[r].row].type}]
  /\ Goes(r, Idle)
  /\ UNCHANGED <<rows, approved, crowd>>

\* listByProvider with limit 1 answers the newest row alone: the provider is spared if
\* that is another one and it is pending or verified.
FindRemaining(r) ==
  /\ call[r].at = "remaining"
  /\ LET newest == Len(rows)
     IN  Goes(r, IF newest # call[r].row /\ rows[newest].status \in {"pending", "verified"}
                 THEN Idle ELSE [at |-> "toRejected", row |-> call[r].row])
  /\ UNCHANGED <<rows, profile, approved, crowd>>

SetRejected(r) ==
  /\ call[r].at = "toRejected"
  /\ profile' = [profile EXCEPT !.status = "rejected"]
  /\ Goes(r, Idle)
  /\ UNCHANGED <<rows, approved, crowd>>

\* A statement fails or the process dies: what was written stays.
Fail(r) ==
  /\ call[r] # Idle
  /\ Goes(r, Idle)
  /\ UNCHANGED <<rows, profile, approved, crowd>>

Next == \E r \in Requests :
          \/ SubmitVerification(r) \/ CreateVerification(r)
          \/ FindProviderProfile(r) \/ UpgradeToPending(r)
          \/ ReviewVerification(r) \/ UpdateVerificationStatus(r)
          \/ ReadProfile(r) \/ SetFlags(r)
          \/ FindRemaining(r) \/ SetRejected(r)
          \/ Fail(r)

Spec == Init /\ [][Next]_vars

-----------------------------------------------------------------------------
\* However approvals, rejections, submissions and failures interleave, a provider shown
\* as verified has identity_verified, which requireIdentityVerified reads from the token,
\* and a flag is set only after an admin's approval of that type was written.
\* (verifications.service.ts:176-191)
VerificationIsEarned ==
  /\ profile.status = "verified" => "identity" \in profile.flags
  /\ profile.flags \subseteq approved
  /\ \A r \in Requests : call[r].at \in {"readProfile", "setFlags"} =>
       rows[call[r].row].type \in approved

\* hasPendingForType and the INSERT are two statements, so several verifications of a type
\* can be pending; there are never more than submissions of it once ran side by side, and
\* a provider who submits one at a time has one.  (verifications.service.ts:60)
PendingBounded ==
  \A t \in Types : Cardinality(Pending(t)) + Cardinality(Inserting(t)) <= crowd[t]

=============================================================================
