---------------------------- MODULE ModerationProofs ----------------------------
(***************************************************************************)
(* Proofs about verifications, disputes, reviews and seeds, for any number *)
(* of requests, documents, jobs and disputes.                              *)
(*                                                                         *)
(* Each component has an invariant of its own that adds what its handlers  *)
(* remember between their statements; the last section joins them over the *)
(* composition the runs check.  A count is bounded by counting what one    *)
(* step adds, which takes the counted sets to be finite: that is part of   *)
(* the invariant, the sets of requests may be infinite.                    *)
(***************************************************************************)
EXTENDS MCModeration, FiniteSetTheorems, TLAPS

-----------------------------------------------------------------------------
(* Counting.                                                               *)

\* A set that loses elements counts no more than before.
LEMMA Fewer ==
  ASSUME NEW A, IsFiniteSet(A), NEW B, B \subseteq A
  PROVE  IsFiniteSet(B) /\ Cardinality(B) \in Nat /\ Cardinality(A) \in Nat
         /\ Cardinality(B) <= Cardinality(A)
  BY FS_Subset, FS_CardinalityType

\* One that gains at most x counts at most one more.
LEMMA OneMore ==
  ASSUME NEW A, IsFiniteSet(A), NEW x, NEW B, B \subseteq A \cup {x}
  PROVE  IsFiniteSet(B) /\ Cardinality(B) \in Nat /\ Cardinality(A) \in Nat
         /\ Cardinality(B) <= Cardinality(A) + 1
<1>0. Cardinality(A) \in Nat
  BY FS_CardinalityType
<1>1. IsFiniteSet(A \cup {x}) /\ Cardinality(A \cup {x}) <= Cardinality(A) + 1
  <2>1. /\ IsFiniteSet(A \cup {x})
        /\ Cardinality(A \cup {x}) = IF x \in A THEN Cardinality(A) ELSE Cardinality(A) + 1
    BY FS_AddElement
  <2> QED BY <1>0, <2>1
<1> QED BY <1>1, FS_Subset, FS_CardinalityType

\* One that loses x, which it had, counts one less.
LEMMA OneLess ==
  ASSUME NEW A, IsFiniteSet(A), NEW x \in A, NEW B, B \subseteq A \ {x}
  PROVE  IsFiniteSet(B) /\ Cardinality(B) \in Nat /\ Cardinality(A) \in Nat
         /\ Cardinality(B) + 1 <= Cardinality(A)
<1>1. IsFiniteSet(A \ {x}) /\ Cardinality(A \ {x}) = Cardinality(A) - 1
  BY FS_RemoveElement
<1> QED BY <1>1, FS_Subset, FS_CardinalityType

-----------------------------------------------------------------------------
(* Verifications: who is verified was approved.                            *)

Working == {"update", "readProfile", "remaining", "toRejected", "setFlags"}

RowsOK == rows \in Seq([type : Types, status : {"pending"} \cup Decisions])

CallOK ==
  /\ call = [r \in Requests |-> call[r]]
  /\ \A r \in Requests :
       /\ call[r].at = "create" => call[r].type \in Types
       /\ call[r].at = "update" => call[r].status \in Decisions
       /\ call[r].at \in Working => call[r].row \in DOMAIN rows

ProfileOK == profile = [status |-> profile.status, flags |-> profile.flags]

\* Who is about to write "verified" has the identity document, or read its flag.
GateWasOpen ==
  \A r \in Requests : call[r].at = "setFlags" /\ call[r].status = "verified" =>
    rows[call[r].row].type = "identity" \/ "identity" \in profile.flags

EarnedInv == RowsOK /\ CallOK /\ ProfileOK /\ GateWasOpen /\ VerificationIsEarned

-----------------------------------------------------------------------------
LEMMA ElementOfSeq ==
  ASSUME NEW Element, NEW s \in Seq(Element), NEW i \in DOMAIN s PROVE s[i] \in Element
  OBVIOUS

\* An UPDATE or an INSERT leaves the rows there are, and their types.
RowsStay ==
  /\ RowsOK'
  /\ \A i \in DOMAIN rows : i \in DOMAIN rows' /\ rows'[i].type = rows[i].type

LEMMA RowsKept == RowsOK /\ CallOK /\ [Next]_vars => RowsStay
<1> SUFFICES ASSUME RowsOK, CallOK, [Next]_vars PROVE RowsStay
  OBVIOUS
<1> USE DEF RowsOK, RowsStay
<1>1. CASE UNCHANGED rows
  BY <1>1
<1>2. ASSUME NEW r \in Requests, CreateVerification(r) PROVE RowsStay
  <2>1. [type |-> call[r].type, status |-> "pending"]
          \in [type : Types, status : {"pending"} \cup Decisions]
    BY <1>2 DEF CreateVerification, CallOK
  <2> QED BY <1>2, <2>1 DEF CreateVerification
<1>3. ASSUME NEW r \in Requests, UpdateVerificationStatus(r) PROVE RowsStay
  <2>1. call[r].status \in Decisions /\ call[r].row \in DOMAIN rows
    BY <1>3 DEF UpdateVerificationStatus, CallOK, Working
  <2> DEFINE Row == [type : Types, status : {"pending"} \cup Decisions]
  <2> DEFINE i == call[r].row
  <2> DEFINE new == [rows[i] EXCEPT !.status = call[r].status]
  <2>2. rows[i] \in Row
    BY <2>1, ElementOfSeq
  <2>3. new \in Row /\ new.type = rows[i].type
    BY <2>1, <2>2
  <2>4. rows' = [rows EXCEPT ![i] = new]
    BY <1>3, <2>1 DEF UpdateVerificationStatus
  <2> HIDE DEF new, i
  <2> QED BY <2>1, <2>3, <2>4 DEF i
<1> QED
  BY <1>1, <1>2, <1>3
     DEF Next, vars, SubmitVerification, FindProviderProfile, UpgradeToPending,
         ReviewVerification, ReadProfile, SetFlags, FindRemaining, SetRejected, Fail

-----------------------------------------------------------------------------
LEMMA EarnedInit == Init => EarnedInv
  BY DEF Init, EarnedInv, RowsOK, CallOK, ProfileOK, GateWasOpen, VerificationIsEarned, Idle,
         Working

LEMMA EarnedStep == EarnedInv /\ [Next]_vars => EarnedInv'
<1> SUFFICES ASSUME EarnedInv, [Next]_vars PROVE EarnedInv'
  OBVIOUS
<1>0. RowsStay
  BY RowsKept DEF EarnedInv
<1> DEFINE Rest == CallOK /\ ProfileOK /\ GateWasOpen /\ VerificationIsEarned
<1> SUFFICES Rest'
  BY <1>0 DEF EarnedInv, RowsStay
<1> USE <1>0
<1> USE DEF EarnedInv, RowsStay, CallOK, ProfileOK, GateWasOpen, VerificationIsEarned, Goes,
            Working, Idle
<1>1. ASSUME NEW r \in Requests, SubmitVerification(r) PROVE Rest'
  BY <1>1 DEF SubmitVerification
<1>2. ASSUME NEW r \in Requests, CreateVerification(r) PROVE Rest'
  BY <1>2 DEF CreateVerification
<1>3. ASSUME NEW r \in Requests, FindProviderProfile(r) PROVE Rest'
  BY <1>3 DEF FindProviderProfile
<1>4. ASSUME NEW r \in Requests, UpgradeToPending(r) PROVE Rest'
  BY <1>4 DEF UpgradeToPending
<1>5. ASSUME NEW r \in Requests, ReviewVerification(r) PROVE Rest'
  BY <1>5 DEF ReviewVerification
<1>6. ASSUME NEW r \in Requests, UpdateVerificationStatus(r) PROVE Rest'
  BY <1>6 DEF UpdateVerificationStatus
<1>7. ASSUME NEW r \in Requests, ReadProfile(r) PROVE Rest'
  BY <1>7 DEF ReadProfile
<1>8. ASSUME NEW r \in Requests, SetFlags(r) PROVE Rest'
  BY <1>8 DEF SetFlags
<1>9. ASSUME NEW r \in Requests, FindRemaining(r) PROVE Rest'
  BY <1>9 DEF FindRemaining
<1>10. ASSUME NEW r \in Requests, SetRejected(r) PROVE Rest'
  BY <1>10 DEF SetRejected
<1>11. ASSUME NEW r \in Requests, Fail(r) PROVE Rest'
  BY <1>11 DEF Fail
<1>12. CASE UNCHANGED vars
  BY <1>12 DEF vars
<1> QED BY <1>1, <1>2, <1>3, <1>4, <1>5, <1>6, <1>7, <1>8, <1>9, <1>10, <1>11, <1>12 DEF Next

-----------------------------------------------------------------------------
(* Verifications: how many documents of a type are pending.                *)

PendingInv ==
  /\ RowsOK /\ CallOK
  /\ crowd \in [Types -> Nat]
  /\ \A t \in Types : IsFiniteSet(Inserting(t))
  /\ PendingBounded

LEMMA PendingFinite == RowsOK => \A t : IsFiniteSet(Pending(t))
<1> SUFFICES ASSUME RowsOK, NEW t PROVE IsFiniteSet(Pending(t))
  OBVIOUS
<1>1. IsFiniteSet(1..Len(rows)) /\ DOMAIN rows = 1..Len(rows)
  BY FS_Interval DEF RowsOK
<1> QED BY <1>1, Fewer DEF Pending

LEMMA PendingInit == Init => PendingInv
<1> SUFFICES ASSUME Init PROVE PendingInv
  OBVIOUS
<1>1. RowsOK /\ CallOK /\ crowd \in [Types -> Nat]
  BY DEF Init, RowsOK, CallOK, Idle, Working
<1>2. \A t : Pending(t) = {} /\ Inserting(t) = {}
  BY DEF Init, Pending, Inserting, Idle
<1>3. ASSUME NEW t \in Types
      PROVE  Cardinality(Pending(t)) + Cardinality(Inserting(t)) <= crowd[t]
  <2>1. Cardinality(Pending(t)) = 0 /\ Cardinality(Inserting(t)) = 0
    BY <1>2, FS_EmptySet
  <2> QED BY <2>1 DEF Init
<1> QED BY <1>1, <1>2, <1>3, FS_EmptySet DEF PendingInv, PendingBounded

\* What the handlers may rely on stays true.
LEMMA CallKept == RowsOK /\ CallOK /\ [Next]_vars => CallOK'
<1> SUFFICES ASSUME RowsOK, CallOK, [Next]_vars PROVE CallOK'
  OBVIOUS
<1>1. RowsStay
  BY RowsKept
<1> USE <1>1 DEF RowsStay, CallOK, Working, Idle, Goes
<1>2. CASE UNCHANGED vars
  BY <1>2 DEF vars
<1>3. ASSUME NEW r \in Requests, SubmitVerification(r) PROVE CallOK'
  BY <1>3 DEF SubmitVerification
<1>4. ASSUME NEW r \in Requests, CreateVerification(r) PROVE CallOK'
  BY <1>4 DEF CreateVerification
<1>5. ASSUME NEW r \in Requests, FindProviderProfile(r) \/ UpgradeToPending(r) PROVE CallOK'
  BY <1>5 DEF FindProviderProfile, UpgradeToPending
<1>6. ASSUME NEW r \in Requests, ReviewVerification(r) PROVE CallOK'
  BY <1>6 DEF ReviewVerification
<1>7. ASSUME NEW r \in Requests, UpdateVerificationStatus(r) PROVE CallOK'
  BY <1>7 DEF UpdateVerificationStatus
<1>8. ASSUME NEW r \in Requests, ReadProfile(r) \/ SetFlags(r) PROVE CallOK'
  BY <1>8 DEF ReadProfile, SetFlags
<1>9. ASSUME NEW r \in Requests, FindRemaining(r) \/ SetRejected(r) \/ Fail(r) PROVE CallOK'
  BY <1>9 DEF FindRemaining, SetRejected, Fail
<1> QED BY <1>2, <1>3, <1>4, <1>5, <1>6, <1>7, <1>8, <1>9 DEF Next

\* A step that adds no pending row and no INSERT to come.
LEMMA PendingShrinks ==
  ASSUME PendingInv, NEW t \in Types, crowd'[t] = crowd[t],
         Pending(t)' \subseteq Pending(t), Inserting(t)' \subseteq Inserting(t)
  PROVE  /\ IsFiniteSet(Inserting(t)')
         /\ Cardinality(Pending(t)') + Cardinality(Inserting(t)') <= crowd'[t]
<1>1. IsFiniteSet(Pending(t)) /\ IsFiniteSet(Inserting(t)) /\ crowd[t] \in Nat
  BY PendingFinite DEF PendingInv
<1>2. /\ Cardinality(Pending(t)) \in Nat /\ Cardinality(Pending(t)') \in Nat
      /\ Cardinality(Pending(t)') <= Cardinality(Pending(t))
  BY <1>1, Fewer
<1>3. /\ Cardinality(Inserting(t)) \in Nat /\ Cardinality(Inserting(t)') \in Nat
      /\ Cardinality(Inserting(t)') <= Cardinality(Inserting(t)) /\ IsFiniteSet(Inserting(t)')
  BY <1>1, Fewer
<1>4. Cardinality(Pending(t)) + Cardinality(Inserting(t)) <= crowd[t]
  BY DEF PendingInv, PendingBounded
<1> QED BY <1>1, <1>2, <1>3, <1>4

\* Past the check of a type no row of it is pending, and the crowd counts the request.
LEMMA SubmitCounted ==
  ASSUME PendingInv, NEW r \in Requests, SubmitVerification(r), NEW t \in Types
  PROVE  /\ crowd' \in [Types -> Nat] /\ IsFiniteSet(Inserting(t)')
         /\ Cardinality(Pending(t)') + Cardinality(Inserting(t)') <= crowd'[t]
<1>1. PICK u \in Types :
        /\ Pending(u) = {} /\ call' = [call EXCEPT ![r] = [at |-> "create", type |-> u]]
        /\ crowd' = [crowd EXCEPT ![u] = IF @ <= Cardinality(Inserting(u)) THEN @ + 1 ELSE @]
  BY DEF SubmitVerification, Goes
<1>2. rows' = rows /\ crowd \in [Types -> Nat] /\ call = [q \in Requests |-> call[q]]
  BY DEF SubmitVerification, PendingInv, CallOK
<1>3. crowd' \in [Types -> Nat]
  BY <1>1, <1>2
<1>4. CASE t # u
  <2>1. crowd'[t] = crowd[t] /\ Pending(t)' = Pending(t) /\ Inserting(t)' \subseteq Inserting(t)
    BY <1>1, <1>2, <1>4 DEF Pending, Inserting
  <2> QED BY <2>1, <1>3, PendingShrinks
<1>5. CASE t = u
  <2>1. Inserting(t)' \subseteq Inserting(t) \cup {r} /\ Pending(t)' = {}
    BY <1>1, <1>2, <1>5 DEF Pending, Inserting
  <2>2. /\ IsFiniteSet(Inserting(t)') /\ Cardinality(Inserting(t)') \in Nat
        /\ Cardinality(Inserting(t)) \in Nat
        /\ Cardinality(Inserting(t)') <= Cardinality(Inserting(t)) + 1
    BY <2>1, OneMore DEF PendingInv
  <2>3. Cardinality(Pending(t)') = 0
    BY <2>1, FS_EmptySet
  <2>4. Cardinality(Pending(t)) = 0 /\ Cardinality(Pending(t)) + Cardinality(Inserting(t)) <= crowd[t]
    BY <1>1, <1>5, FS_EmptySet DEF PendingInv, PendingBounded
  <2>5. crowd'[t] = (IF crowd[t] <= Cardinality(Inserting(t)) THEN crowd[t] + 1 ELSE crowd[t])
        /\ crowd[t] \in Nat
    BY <1>1, <1>2, <1>5
  <2> QED BY <2>2, <2>3, <2>4, <2>5, <1>3
<1> QED BY <1>4, <1>5

\* The INSERT turns one request into one pending row.
LEMMA CreateCounted ==
  ASSUME PendingInv, NEW r \in Requests, CreateVerification(r), NEW t \in Types
  PROVE  /\ IsFiniteSet(Inserting(t)')
         /\ Cardinality(Pending(t)') + Cardinality(Inserting(t)') <= crowd'[t]
<1> DEFINE new == [type |-> call[r].type, status |-> "pending"]
<1>1. /\ call[r].at = "create" /\ rows' = Append(rows, new) /\ crowd' = crowd
      /\ call' = [call EXCEPT ![r] = [at |-> "findProfile"]]
      /\ call = [q \in Requests |-> call[q]]
      /\ rows \in Seq([type : Types, status : {"pending"} \cup Decisions])
  BY DEF CreateVerification, Goes, PendingInv, CallOK, RowsOK
<1>2. /\ DOMAIN rows' = DOMAIN rows \cup {Len(rows) + 1} /\ rows'[Len(rows) + 1] = new
      /\ \A i \in DOMAIN rows : rows'[i] = rows[i]
  BY <1>1
<1>3. CASE t # call[r].type
  <2>1. Pending(t)' \subseteq Pending(t)
    BY <1>2, <1>3 DEF Pending
  <2>2. Inserting(t)' \subseteq Inserting(t)
    BY <1>1 DEF Inserting
  <2> QED BY <2>1, <2>2, <1>1, PendingShrinks
<1>4. CASE t = call[r].type
  <2>1. Pending(t)' \subseteq Pending(t) \cup {Len(rows) + 1}
    BY <1>2 DEF Pending
  <2>2. r \in Inserting(t) /\ Inserting(t)' \subseteq Inserting(t) \ {r}
    BY <1>1, <1>4 DEF Inserting
  <2>3. IsFiniteSet(Pending(t)) /\ IsFiniteSet(Inserting(t)) /\ crowd[t] \in Nat
    BY PendingFinite DEF PendingInv
  <2>4. /\ Cardinality(Pending(t)) \in Nat /\ Cardinality(Pending(t)') \in Nat
        /\ Cardinality(Pending(t)') <= Cardinality(Pending(t)) + 1
    BY <2>1, <2>3, OneMore
  <2>5. /\ Cardinality(Inserting(t)) \in Nat /\ Cardinality(Inserting(t)') \in Nat
        /\ Cardinality(Inserting(t)') + 1 <= Cardinality(Inserting(t)) /\ IsFiniteSet(Inserting(t)')
    BY <2>2, <2>3, OneLess
  <2>6. Cardinality(Pending(t)) + Cardinality(Inserting(t)) <= crowd[t] /\ crowd'[t] = crowd[t]
    BY <1>1 DEF PendingInv, PendingBounded
  <2> QED BY <2>3, <2>4, <2>5, <2>6
<1> QED BY <1>3, <1>4

\* A decision makes no row pending again.
LEMMA UpdateShrinks ==
  ASSUME PendingInv, NEW r \in Requests, UpdateVerificationStatus(r), NEW t
  PROVE  Pending(t)' \subseteq Pending(t)
<1> DEFINE i == call[r].row
<1> DEFINE d == call[r].status
<1>1. i \in DOMAIN rows /\ d \in Decisions /\ rows' = [rows EXCEPT ![i].status = d]
  BY DEF UpdateVerificationStatus, PendingInv, CallOK, Working
<1>2. /\ DOMAIN rows' = DOMAIN rows
      /\ \A k \in DOMAIN rows : k # i => rows'[k] = rows[k]
  BY <1>1 DEF PendingInv, RowsOK
<1>3. rows'[i].status # "pending"
  <2>1. rows[i] \in [type : Types, status : {"pending"} \cup Decisions]
    BY <1>1, ElementOfSeq DEF PendingInv, RowsOK
  <2>2. rows'[i] = [rows[i] EXCEPT !.status = d]
    BY <1>1 DEF PendingInv, RowsOK
  <2> HIDE DEF i, d
  <2>3. rows'[i].status = d
    BY <2>1, <2>2
  <2> QED BY <2>3, <1>1 DEF Decisions
<1> QED BY <1>2, <1>3 DEF Pending

LEMMA PendingStep == PendingInv /\ [Next]_vars => PendingInv'
<1> SUFFICES ASSUME PendingInv, [Next]_vars PROVE PendingInv'
  OBVIOUS
<1>1. RowsOK' /\ CallOK'
  BY RowsKept, CallKept DEF PendingInv, RowsStay
<1> DEFINE Counted(t) == /\ IsFiniteSet(Inserting(t)')
                         /\ Cardinality(Pending(t)') + Cardinality(Inserting(t)') <= crowd'[t]
<1> SUFFICES crowd' \in [Types -> Nat] /\ \A t \in Types : Counted(t)
  BY <1>1 DEF PendingInv, PendingBounded
<1>2. ASSUME NEW r \in Requests, SubmitVerification(r)
      PROVE  crowd' \in [Types -> Nat] /\ \A t \in Types : Counted(t)
  <2>1. CASE Types # {}
    BY <1>2, <2>1, SubmitCounted
  <2>2. CASE Types = {}
    BY <2>2, <1>2 DEF SubmitVerification
  <2> QED BY <2>1, <2>2
<1>3. ASSUME NEW r \in Requests, CreateVerification(r)
      PROVE  crowd' \in [Types -> Nat] /\ \A t \in Types : Counted(t)
  <2>1. \A t \in Types : Counted(t)
    BY <1>3, CreateCounted
  <2> QED BY <2>1, <1>3 DEF CreateVerification, PendingInv
<1>4. ASSUME crowd' = crowd,
             \A t \in Types : Pending(t)' \subseteq Pending(t)
                              /\ Inserting(t)' \subseteq Inserting(t)
      PROVE  crowd' \in [Types -> Nat] /\ \A t \in Types : Counted(t)
  <2>1. \A t \in Types : Counted(t)
    BY <1>4, PendingShrinks
  <2> QED BY <2>1, <1>4 DEF PendingInv
<1>5. ASSUME rows' = rows PROVE \A t \in Types : Pending(t)' \subseteq Pending(t)
  BY <1>5 DEF Pending
<1>6. CASE UNCHANGED vars
  BY <1>4, <1>5, <1>6 DEF vars, Inserting
<1>7. ASSUME NEW r \in Requests, UpdateVerificationStatus(r)
      PROVE  crowd' \in [Types -> Nat] /\ \A t \in Types : Counted(t)
  <2>1. crowd' = crowd /\ \A t \in Types : Inserting(t)' \subseteq Inserting(t)
    BY <1>7 DEF UpdateVerificationStatus, Goes, Inserting, PendingInv, CallOK
  <2> QED BY <2>1, <1>4, <1>7, UpdateShrinks
<1>8. ASSUME NEW r \in Requests,
             \/ FindProviderProfile(r) \/ UpgradeToPending(r) \/ ReviewVerification(r)
             \/ ReadProfile(r) \/ SetFlags(r) \/ FindRemaining(r) \/ SetRejected(r) \/ Fail(r)
      PROVE  crowd' \in [Types -> Nat] /\ \A t \in Types : Counted(t)
  <2>1. rows' = rows /\ crowd' = crowd
    BY <1>8 DEF FindProviderProfile, UpgradeToPending, ReviewVerification, ReadProfile, SetFlags,
                FindRemaining, SetRejected, Fail
  <2>2. PICK next : next.at # "create" /\ call' = [call EXCEPT ![r] = next]
    BY <1>8 DEF FindProviderProfile, UpgradeToPending, ReviewVerification, ReadProfile, SetFlags,
                FindRemaining, SetRejected, Fail, Goes, Idle
  <2>3. \A t \in Types : Inserting(t)' \subseteq Inserting(t)
    BY <2>2 DEF Inserting, PendingInv, CallOK
  <2> QED BY <2>1, <2>3, <1>4, <1>5
<1> HIDE DEF Counted
<1> QED BY <1>2, <1>3, <1>6, <1>7, <1>8 DEF Next

-----------------------------------------------------------------------------
(* Disputes: how many of a party are active.                               *)

DisputeRow == [raisedBy : D!Parties, status : {"open", "investigating", "resolved"},
               resolution : Resolutions \cup {"none"}]

\* What the handlers remember: the party that raises, the dispute an admin works on.
DisputeCallOK ==
  /\ dCall = [r \in Callers |-> dCall[r]]
  /\ \A r \in Callers :
       /\ dCall[r].at = "create" => dCall[r].by \in D!Parties
       /\ dCall[r].at = "update" => /\ dCall[r].of \in DOMAIN disputes
                                    /\ dCall[r].status \in {"investigating", "resolved"}
                                    /\ dCall[r].resolution \in Resolutions \cup {"none"}

DisputeTypeOK ==
  /\ disputes \in Seq(DisputeRow)
  /\ DisputeCallOK
  /\ dCrowd \in [D!Parties -> Nat] /\ reopened \in [D!Parties -> Nat]

\* The bound; the crowd alone bounds the raises, whatever was reopened meanwhile.
ActiveCounted(p) ==
  /\ Cardinality(D!Raising(p)) <= dCrowd[p]
  /\ Cardinality(D!Active(p)) + Cardinality(D!Raising(p)) <= dCrowd[p] + reopened[p]

ActiveInv ==
  /\ DisputeTypeOK
  /\ \A p \in D!Parties : IsFiniteSet(D!Raising(p)) /\ ActiveCounted(p)

LEMMA DisputeCardinality == \A A : D!Cardinality(A) = Cardinality(A)
  BY DEF D!Cardinality, Cardinality

LEMMA ActiveMeans == ActiveInv => ActiveBounded
  BY DisputeCardinality DEF ActiveBounded, D!ActiveBounded, ActiveCounted, ActiveInv

LEMMA ActiveFinite == ActiveInv => \A p : IsFiniteSet(D!Active(p))
<1> SUFFICES ASSUME ActiveInv, NEW p PROVE IsFiniteSet(D!Active(p))
  OBVIOUS
<1>1. IsFiniteSet(1..Len(disputes)) /\ DOMAIN disputes = 1..Len(disputes)
  BY FS_Interval DEF ActiveInv, DisputeTypeOK
<1> QED BY <1>1, Fewer DEF D!Active

LEMMA ActiveInit == D!Init => ActiveInv
<1> SUFFICES ASSUME D!Init PROVE ActiveInv
  OBVIOUS
<1>1. DisputeTypeOK
  BY DEF D!Init, DisputeTypeOK, DisputeCallOK, D!Idle
<1>2. \A p : D!Active(p) = {} /\ D!Raising(p) = {}
  BY DEF D!Init, D!Active, D!Raising, D!Idle
<1>3. ASSUME NEW p \in D!Parties PROVE ActiveCounted(p)
  <2>1. Cardinality(D!Active(p)) = 0 /\ Cardinality(D!Raising(p)) = 0
    BY <1>2, FS_EmptySet
  <2> QED BY <2>1 DEF D!Init, ActiveCounted
<1> QED BY <1>1, <1>2, <1>3, FS_EmptySet DEF ActiveInv

\* The rows written are well-formed, and no dispute changes hands.
DisputesStay ==
  /\ disputes' \in Seq(DisputeRow)
  /\ \A d \in DOMAIN disputes : d \in DOMAIN disputes' /\ disputes'[d].raisedBy = disputes[d].raisedBy

\* The UPDATE changes the status of its row as it was told, and no other row.
LEMMA UpdateWrites ==
  ASSUME ActiveInv, NEW r \in Callers, D!UpdateDisputeStatus(r)
  PROVE  LET d == dCall[r].of
         IN  /\ d \in DOMAIN disputes /\ DOMAIN disputes' = DOMAIN disputes
             /\ disputes' \in Seq(DisputeRow)
             /\ \A e \in DOMAIN disputes : e # d => disputes'[e] = disputes[e]
             /\ disputes[d].raisedBy \in D!Parties
             /\ disputes'[d].raisedBy = disputes[d].raisedBy
             /\ disputes'[d].status = dCall[r].status
             /\ disputes[d].status \in {"open", "investigating", "resolved"}
<1> DEFINE d == dCall[r].of
<1> DEFINE s == dCall[r].status
<1> DEFINE o == IF s = "resolved" THEN dCall[r].resolution ELSE disputes[d].resolution
<1> DEFINE row == disputes[d]
<1> DEFINE new == [row EXCEPT !.status = s, !.resolution = o]
<1>1. /\ d \in DOMAIN disputes /\ s \in {"investigating", "resolved"}
      /\ dCall[r].resolution \in Resolutions \cup {"none"}
  BY DEF D!UpdateDisputeStatus, ActiveInv, DisputeTypeOK, DisputeCallOK
<1>2. disputes \in Seq(DisputeRow)
  BY DEF ActiveInv, DisputeTypeOK
<1>3. row \in DisputeRow
  BY <1>1, <1>2, ElementOfSeq
<1>4. o \in Resolutions \cup {"none"}
  BY <1>1, <1>3 DEF DisputeRow
<1>5. disputes' = [disputes EXCEPT ![d] = new]
  BY <1>1, <1>2 DEF D!UpdateDisputeStatus
<1> HIDE DEF o, s, d, row
<1>6. new \in DisputeRow /\ new.status = s /\ new.raisedBy = row.raisedBy
  BY <1>1, <1>3, <1>4 DEF DisputeRow
<1> HIDE DEF new
<1>7. disputes' \in Seq(DisputeRow) /\ DOMAIN disputes' = DOMAIN disputes /\ disputes'[d] = new
      /\ \A e \in DOMAIN disputes : e # d => disputes'[e] = disputes[e]
  BY <1>1, <1>2, <1>5, <1>6
<1>8. row.raisedBy \in D!Parties /\ row.status \in {"open", "investigating", "resolved"}
  BY <1>3 DEF DisputeRow
<1> QED BY <1>1, <1>6, <1>7, <1>8 DEF d, s, row

LEMMA DisputesKept == ActiveInv /\ [D!Next]_(D!vars) => DisputesStay
<1> SUFFICES ASSUME ActiveInv, [D!Next]_(D!vars) PROVE DisputesStay
  OBVIOUS
<1>0. disputes \in Seq(DisputeRow)
  BY DEF ActiveInv, DisputeTypeOK
<1>1. CASE UNCHANGED disputes
  BY <1>0, <1>1 DEF DisputesStay
<1>2. ASSUME NEW r \in Callers, D!CreateDispute(r) PROVE DisputesStay
  <2>1. [raisedBy |-> dCall[r].by, status |-> "open", resolution |-> D!None] \in DisputeRow
    BY <1>2 DEF D!CreateDispute, ActiveInv, DisputeTypeOK, DisputeCallOK, DisputeRow, D!None
  <2> QED BY <1>0, <1>2, <2>1 DEF D!CreateDispute, DisputesStay
<1>3. ASSUME NEW r \in Callers, D!UpdateDisputeStatus(r) PROVE DisputesStay
  BY <1>3, UpdateWrites DEF DisputesStay
<1> QED
  BY <1>1, <1>2, <1>3
     DEF D!Next, D!vars, D!RaiseDispute, D!CheckTransition, D!NotifyParties, D!Fail

\* A step that adds no active dispute and no INSERT to come.
LEMMA ActiveShrinks ==
  ASSUME ActiveInv, NEW p \in D!Parties, dCrowd'[p] = dCrowd[p], reopened'[p] = reopened[p],
         D!Active(p)' \subseteq D!Active(p), D!Raising(p)' \subseteq D!Raising(p)
  PROVE  IsFiniteSet(D!Raising(p)') /\ ActiveCounted(p)'
<1>1. /\ IsFiniteSet(D!Active(p)) /\ IsFiniteSet(D!Raising(p))
      /\ dCrowd[p] \in Nat /\ reopened[p] \in Nat
  BY ActiveFinite DEF ActiveInv, DisputeTypeOK
<1>2. /\ Cardinality(D!Active(p)) \in Nat /\ Cardinality(D!Active(p)') \in Nat
      /\ Cardinality(D!Active(p)') <= Cardinality(D!Active(p))
  BY <1>1, Fewer
<1>3. /\ Cardinality(D!Raising(p)) \in Nat /\ Cardinality(D!Raising(p)') \in Nat
      /\ Cardinality(D!Raising(p)') <= Cardinality(D!Raising(p)) /\ IsFiniteSet(D!Raising(p)')
  BY <1>1, Fewer
<1>4. ActiveCounted(p)
  BY DEF ActiveInv
<1> QED BY <1>1, <1>2, <1>3, <1>4 DEF ActiveCounted

\* Past the check of a party none of its disputes is active, and the crowd counts the request.
LEMMA RaiseCounted ==
  ASSUME ActiveInv, NEW r \in Callers, D!RaiseDispute(r), NEW p \in D!Parties
  PROVE  /\ dCrowd' \in [D!Parties -> Nat]
         /\ IsFiniteSet(D!Raising(p)') /\ ActiveCounted(p)'
<1>1. PICK u \in D!Parties :
        /\ D!Active(u) = {} /\ dCall' = [dCall EXCEPT ![r] = [at |-> "create", by |-> u]]
        /\ dCrowd' = [dCrowd EXCEPT ![u] = IF @ <= Cardinality(D!Raising(u)) THEN @ + 1 ELSE @]
  BY DisputeCardinality DEF D!RaiseDispute, D!Goes
<1>2. /\ disputes' = disputes /\ reopened' = reopened /\ dCall = [q \in Callers |-> dCall[q]]
      /\ dCrowd \in [D!Parties -> Nat] /\ reopened \in [D!Parties -> Nat]
  BY DEF D!RaiseDispute, ActiveInv, DisputeTypeOK, DisputeCallOK
<1>3. dCrowd' \in [D!Parties -> Nat]
  BY <1>1, <1>2
<1>4. CASE p # u
  <2>1. /\ dCrowd'[p] = dCrowd[p] /\ reopened'[p] = reopened[p]
        /\ D!Active(p)' = D!Active(p) /\ D!Raising(p)' \subseteq D!Raising(p)
    BY <1>1, <1>2, <1>4 DEF D!Active, D!Raising
  <2> QED BY <2>1, <1>3, ActiveShrinks
<1>5. CASE p = u
  <2>1. D!Raising(p)' \subseteq D!Raising(p) \cup {r} /\ D!Active(p)' = {}
    BY <1>1, <1>2, <1>5 DEF D!Active, D!Raising
  <2>2. /\ IsFiniteSet(D!Raising(p)') /\ Cardinality(D!Raising(p)') \in Nat
        /\ Cardinality(D!Raising(p)) \in Nat
        /\ Cardinality(D!Raising(p)') <= Cardinality(D!Raising(p)) + 1
    BY <2>1, OneMore DEF ActiveInv
  <2>3. Cardinality(D!Active(p)') = 0
    BY <2>1, FS_EmptySet
  <2>4. dCrowd'[p] = (IF dCrowd[p] <= Cardinality(D!Raising(p)) THEN dCrowd[p] + 1 ELSE dCrowd[p])
        /\ dCrowd[p] \in Nat /\ reopened'[p] \in Nat /\ Cardinality(D!Raising(p)) <= dCrowd[p]
    BY <1>1, <1>2, <1>5 DEF ActiveInv, ActiveCounted
  <2>5. Cardinality(D!Raising(p)') <= dCrowd'[p]
    BY <2>2, <2>4
  <2> QED BY <2>2, <2>3, <2>4, <2>5, <1>3 DEF ActiveCounted
<1> QED BY <1>4, <1>5

\* The INSERT turns one request into one active dispute.
LEMMA InsertCounted ==
  ASSUME ActiveInv, NEW r \in Callers, D!CreateDispute(r), NEW p \in D!Parties
  PROVE  IsFiniteSet(D!Raising(p)') /\ ActiveCounted(p)'
<1> DEFINE new == [raisedBy |-> dCall[r].by, status |-> "open", resolution |-> D!None]
<1>1. /\ dCall[r].at = "create" /\ disputes' = Append(disputes, new)
      /\ dCrowd' = dCrowd /\ reopened' = reopened
      /\ dCall' = [dCall EXCEPT ![r] = D!Idle] /\ dCall = [q \in Callers |-> dCall[q]]
      /\ disputes \in Seq(DisputeRow)
  BY DEF D!CreateDispute, D!Goes, ActiveInv, DisputeTypeOK, DisputeCallOK
<1>2. /\ DOMAIN disputes' = DOMAIN disputes \cup {Len(disputes) + 1}
      /\ disputes'[Len(disputes) + 1] = new
      /\ \A d \in DOMAIN disputes : disputes'[d] = disputes[d]
  BY <1>1
<1>3. D!Raising(p)' \subseteq D!Raising(p)
  BY <1>1 DEF D!Raising, D!Idle
<1>4. CASE p # dCall[r].by
  <2>1. D!Active(p)' \subseteq D!Active(p)
    BY <1>2, <1>4 DEF D!Active
  <2> QED BY <2>1, <1>3, <1>1, ActiveShrinks
<1>5. CASE p = dCall[r].by
  <2>1. D!Active(p)' \subseteq D!Active(p) \cup {Len(disputes) + 1}
    BY <1>2 DEF D!Active
  <2>2. r \in D!Raising(p) /\ D!Raising(p)' \subseteq D!Raising(p) \ {r}
    BY <1>1, <1>5 DEF D!Raising, D!Idle
  <2>3. IsFiniteSet(D!Active(p)) /\ IsFiniteSet(D!Raising(p))
    BY ActiveFinite DEF ActiveInv
  <2>4. /\ Cardinality(D!Active(p)) \in Nat /\ Cardinality(D!Active(p)') \in Nat
        /\ Cardinality(D!Active(p)') <= Cardinality(D!Active(p)) + 1
    BY <2>1, <2>3, OneMore
  <2>5. /\ Cardinality(D!Raising(p)) \in Nat /\ Cardinality(D!Raising(p)') \in Nat
        /\ Cardinality(D!Raising(p)') + 1 <= Cardinality(D!Raising(p))
        /\ IsFiniteSet(D!Raising(p)')
    BY <2>2, <2>3, OneLess
  <2>6. /\ ActiveCounted(p) /\ dCrowd'[p] = dCrowd[p] /\ reopened'[p] = reopened[p]
        /\ dCrowd[p] \in Nat /\ reopened[p] \in Nat
    BY <1>1 DEF ActiveInv, DisputeTypeOK
  <2> QED BY <2>4, <2>5, <2>6 DEF ActiveCounted
<1> QED BY <1>4, <1>5

\* Only a write that takes a dispute back from "resolved" makes one active, and is counted.
LEMMA UpdateCounted ==
  ASSUME ActiveInv, NEW r \in Callers, D!UpdateDisputeStatus(r), NEW p \in D!Parties
  PROVE  /\ reopened' \in [D!Parties -> Nat]
         /\ IsFiniteSet(D!Raising(p)') /\ ActiveCounted(p)'
<1> DEFINE d == dCall[r].of
<1> DEFINE u == disputes[d].raisedBy
<1> DEFINE back == disputes[d].status = "resolved" /\ dCall[r].status # "resolved"
<1>1. /\ d \in DOMAIN disputes /\ DOMAIN disputes' = DOMAIN disputes
      /\ \A e \in DOMAIN disputes : e # d => disputes'[e] = disputes[e]
      /\ u \in D!Parties /\ disputes'[d].raisedBy = u /\ disputes'[d].status = dCall[r].status
      /\ disputes[d].status \in {"open", "investigating", "resolved"}
  BY UpdateWrites
<1>2. /\ reopened' = [reopened EXCEPT ![u] = IF back THEN @ + 1 ELSE @]
      /\ dCrowd' = dCrowd
      /\ reopened \in [D!Parties -> Nat] /\ dCrowd \in [D!Parties -> Nat]
  BY DEF D!UpdateDisputeStatus, ActiveInv, DisputeTypeOK
<1>3. D!Raising(p)' \subseteq D!Raising(p)
  BY DEF D!UpdateDisputeStatus, D!Goes, D!Raising, D!Idle, ActiveInv, DisputeTypeOK, DisputeCallOK
<1>4. reopened' \in [D!Parties -> Nat]
  BY <1>1, <1>2
<1>5. CASE p = u /\ back
  <2>1. D!Active(p)' \subseteq D!Active(p) \cup {d}
    BY <1>1 DEF D!Active
  <2>2. IsFiniteSet(D!Active(p)) /\ IsFiniteSet(D!Raising(p))
    BY ActiveFinite DEF ActiveInv
  <2>3. /\ Cardinality(D!Active(p)) \in Nat /\ Cardinality(D!Active(p)') \in Nat
        /\ Cardinality(D!Active(p)') <= Cardinality(D!Active(p)) + 1
    BY <2>1, <2>2, OneMore
  <2>4. /\ Cardinality(D!Raising(p)) \in Nat /\ Cardinality(D!Raising(p)') \in Nat
        /\ Cardinality(D!Raising(p)') <= Cardinality(D!Raising(p)) /\ IsFiniteSet(D!Raising(p)')
    BY <1>3, <2>2, Fewer
  <2>5. /\ reopened'[p] = reopened[p] + 1 /\ dCrowd'[p] = dCrowd[p] /\ ActiveCounted(p)
        /\ reopened[p] \in Nat /\ dCrowd[p] \in Nat
    BY <1>2, <1>5 DEF ActiveInv
  <2> QED BY <2>3, <2>4, <2>5, <1>4 DEF ActiveCounted
<1>6. CASE ~(p = u /\ back)
  <2>1. D!Active(p)' \subseteq D!Active(p)
    BY <1>1, <1>6 DEF D!Active
  <2>2. reopened'[p] = reopened[p] /\ dCrowd'[p] = dCrowd[p]
    BY <1>2, <1>6
  <2> QED BY <2>1, <2>2, <1>3, <1>4, ActiveShrinks
<1> QED BY <1>5, <1>6

LEMMA DisputeCallKept == ActiveInv /\ [D!Next]_(D!vars) => DisputeCallOK'
<1> SUFFICES ASSUME ActiveInv, [D!Next]_(D!vars) PROVE DisputeCallOK'
  OBVIOUS
<1>1. DisputesStay
  BY DisputesKept
<1>2. DisputeCallOK
  BY DEF ActiveInv, DisputeTypeOK
<1> USE <1>1, <1>2 DEF DisputesStay, DisputeCallOK, D!Idle, D!Goes
<1>3. CASE UNCHANGED D!vars
  BY <1>3 DEF D!vars
<1>4. ASSUME NEW r \in Callers, D!RaiseDispute(r) PROVE DisputeCallOK'
  BY <1>4 DEF D!RaiseDispute
<1>5. ASSUME NEW r \in Callers, D!CreateDispute(r) PROVE DisputeCallOK'
  BY <1>5 DEF D!CreateDispute
<1>6. ASSUME NEW r \in Callers, D!CheckTransition(r) PROVE DisputeCallOK'
  BY <1>6 DEF D!CheckTransition, D!ValidTransitions, D!None
<1>7. ASSUME NEW r \in Callers, D!UpdateDisputeStatus(r) PROVE DisputeCallOK'
  BY <1>7 DEF D!UpdateDisputeStatus
<1>8. ASSUME NEW r \in Callers, D!NotifyParties(r) \/ D!Fail(r) PROVE DisputeCallOK'
  BY <1>8 DEF D!NotifyParties, D!Fail
<1> QED BY <1>3, <1>4, <1>5, <1>6, <1>7, <1>8 DEF D!Next

LEMMA ActiveStep == ActiveInv /\ [D!Next]_(D!vars) => ActiveInv'
<1> SUFFICES ASSUME ActiveInv, [D!Next]_(D!vars) PROVE ActiveInv'
  OBVIOUS
<1>1. disputes' \in Seq(DisputeRow) /\ DisputeCallOK'
  BY DisputesKept, DisputeCallKept DEF DisputesStay
<1>2. dCrowd \in [D!Parties -> Nat] /\ reopened \in [D!Parties -> Nat]
  BY DEF ActiveInv, DisputeTypeOK
<1> DEFINE Counts == /\ dCrowd' \in [D!Parties -> Nat] /\ reopened' \in [D!Parties -> Nat]
                     /\ \A p \in D!Parties : IsFiniteSet(D!Raising(p)') /\ ActiveCounted(p)'
<1> SUFFICES Counts
  BY <1>1 DEF ActiveInv, DisputeTypeOK
<1>3. "customer" \in D!Parties
  BY DEF D!Parties
<1>4. ASSUME NEW r \in Callers, D!RaiseDispute(r) PROVE Counts
  <2>1. reopened' = reopened
    BY <1>4 DEF D!RaiseDispute
  <2> QED BY <1>2, <1>3, <1>4, <2>1, RaiseCounted
<1>5. ASSUME NEW r \in Callers, D!CreateDispute(r) PROVE Counts
  <2>1. reopened' = reopened /\ dCrowd' = dCrowd
    BY <1>5 DEF D!CreateDispute
  <2> QED BY <1>2, <1>5, <2>1, InsertCounted
<1>6. ASSUME NEW r \in Callers, D!UpdateDisputeStatus(r) PROVE Counts
  <2>1. dCrowd' = dCrowd
    BY <1>6 DEF D!UpdateDisputeStatus
  <2> QED BY <1>2, <1>3, <1>6, <2>1, UpdateCounted
<1>7. ASSUME disputes' = disputes, dCrowd' = dCrowd, reopened' = reopened,
             \A p \in D!Parties : D!Raising(p)' \subseteq D!Raising(p)
      PROVE  Counts
  <2>1. \A p \in D!Parties : D!Active(p)' \subseteq D!Active(p)
    BY <1>7 DEF D!Active
  <2> QED BY <2>1, <1>2, <1>7, ActiveShrinks
<1>8. CASE UNCHANGED D!vars
  BY <1>7, <1>8 DEF D!vars, D!Raising
<1>9. ASSUME NEW r \in Callers, D!CheckTransition(r) \/ D!NotifyParties(r) \/ D!Fail(r)
      PROVE  Counts
  <2>1. PICK next : next.at # "create" /\ dCall' = [dCall EXCEPT ![r] = next]
    BY <1>9 DEF D!CheckTransition, D!NotifyParties, D!Fail, D!Goes, D!Idle
  <2>2. \A p \in D!Parties : D!Raising(p)' \subseteq D!Raising(p)
    BY <2>1 DEF D!Raising, ActiveInv, DisputeTypeOK, DisputeCallOK
  <2>3. disputes' = disputes /\ dCrowd' = dCrowd /\ reopened' = reopened
    BY <1>9 DEF D!CheckTransition, D!NotifyParties, D!Fail
  <2> QED BY <2>2, <2>3, <1>7
<1> HIDE DEF Counts
<1> QED BY <1>4, <1>5, <1>6, <1>8, <1>9 DEF D!Next


-----------------------------------------------------------------------------
(* Reviews: the rating after transactions that overlap.                    *)

\* The reviews as they are once r commits.
WithOwn(r) == [reviews EXCEPT ![rCall[r].job] = R!Changed(@, rCall[r].kind)]

\* A transaction beside which no other was open is the only one open.
AloneOrBeside == \A r \in R!Open : rCall[r].beside \/ R!Open = {r}

\* What the trigger counted is what its commit makes visible, if it ran alone; in any case
\* it is right about the reviews nobody changed beside another change.
CountIsRight ==
  \A r \in Callers : rCall[r].at \in {"stats", "commit"} =>
    /\ ~rCall[r].beside => rCall[r].seen = R!Visible(WithOwn(r))
    /\ \A j \in Jobs : j \notin raced /\ j # rCall[r].job =>
         (j \in rCall[r].seen <=> j \in R!Visible(reviews))

RatingInv == R!TypeOK /\ AloneOrBeside /\ CountIsRight /\ R!RatingIsRight

LEMMA RatingInit == R!Init => RatingInv
  BY DEF R!Init, RatingInv, R!TypeOK, R!NoReview, R!Idle, AloneOrBeside, R!Open, CountIsRight,
         R!RatingIsRight, R!Visible

LEMMA ChangedType ==
  ASSUME NEW v \in [there : BOOLEAN, answered : BOOLEAN, hidden : BOOLEAN], NEW k \in R!Kinds
  PROVE  R!Changed(v, k) \in [there : BOOLEAN, answered : BOOLEAN, hidden : BOOLEAN]
  BY DEF R!Changed, R!Kinds, R!NoReview

\* The fields of a call under way.
LEMMA ReviewCall ==
  ASSUME R!TypeOK, NEW r \in Callers, rCall[r] # R!Idle
  PROVE  /\ rCall[r].at \in {"write", "trigger", "stats", "commit"}
         /\ rCall[r].kind \in R!Kinds /\ rCall[r].job \in Jobs /\ rCall[r].beside \in BOOLEAN
         /\ rCall[r].at \in {"stats", "commit"} => rCall[r].seen \subseteq Jobs
         /\ rCall[r] = IF rCall[r].at \in {"stats", "commit"}
                       THEN [at |-> rCall[r].at, kind |-> rCall[r].kind, job |-> rCall[r].job,
                             beside |-> rCall[r].beside, seen |-> rCall[r].seen]
                       ELSE [at |-> rCall[r].at, kind |-> rCall[r].kind, job |-> rCall[r].job,
                             beside |-> rCall[r].beside]
  BY DEF R!TypeOK, R!Idle

\* What a call may be.
Calls == {R!Idle}
  \cup [at : {"write", "trigger"}, kind : R!Kinds, job : Jobs, beside : BOOLEAN]
  \cup [at : {"stats", "commit"}, kind : R!Kinds, job : Jobs, beside : BOOLEAN, seen : SUBSET Jobs]

LEMMA RatingTypeKept == R!TypeOK /\ [R!Next]_(R!vars) => R!TypeOK'
<1> SUFFICES ASSUME R!TypeOK, [R!Next]_(R!vars) PROVE R!TypeOK'
  OBVIOUS
<1>1. CASE UNCHANGED R!vars
  BY <1>1 DEF R!vars, R!TypeOK
<1>2. ASSUME NEW r \in Callers, R!SubmitReview(r) \/ R!RespondToReview(r) \/ R!HideReview(r)
      PROVE  R!TypeOK'
  <2>1. PICK kind \in R!Kinds, j \in Jobs : R!Starts(r, kind, j)
    BY <1>2 DEF R!SubmitReview, R!RespondToReview, R!HideReview, R!Kinds
  <2>2. UNCHANGED <<reviews, counted, raced>>
    BY <1>2 DEF R!SubmitReview, R!RespondToReview, R!HideReview
  <2>3. [at |-> "write", kind |-> kind, job |-> j, beside |-> FALSE] \in Calls
    BY DEF Calls
  <2> QED BY <2>1, <2>2, <2>3 DEF R!Starts, R!TypeOK, Calls
<1>3. ASSUME NEW r \in Callers, R!AlreadyExists(r) \/ R!Fail(r) PROVE R!TypeOK'
  BY <1>3 DEF R!AlreadyExists, R!Fail, R!TypeOK
<1>4. ASSUME NEW r \in Callers, R!WriteReview(r) PROVE R!TypeOK'
  <2>1. rCall[r].at = "write" /\ UNCHANGED <<reviews, counted, raced>>
    BY <1>4 DEF R!WriteReview
  <2>2. /\ rCall[r].kind \in R!Kinds /\ rCall[r].job \in Jobs
        /\ rCall[r] = [at |-> "write", kind |-> rCall[r].kind, job |-> rCall[r].job,
                       beside |-> rCall[r].beside]
    <3>1. rCall[r] # R!Idle
      BY <2>1 DEF R!Idle
    <3> QED BY <2>1, <3>1, ReviewCall
  <2>3. [rCall[r] EXCEPT !.at = "trigger", !.beside = R!Open # {}] \in Calls
    BY <2>2 DEF Calls
  <2>4. ASSUME NEW q \in R!Open PROVE [rCall[q] EXCEPT !.beside = TRUE] \in Calls
    <3>1. q \in Callers /\ rCall[q].at \in {"trigger", "stats", "commit"}
      BY DEF R!Open
    <3>2. /\ rCall[q].kind \in R!Kinds /\ rCall[q].job \in Jobs
          /\ rCall[q].at \in {"stats", "commit"} => rCall[q].seen \subseteq Jobs
          /\ rCall[q] = IF rCall[q].at \in {"stats", "commit"}
                        THEN [at |-> rCall[q].at, kind |-> rCall[q].kind, job |-> rCall[q].job,
                              beside |-> rCall[q].beside, seen |-> rCall[q].seen]
                        ELSE [at |-> rCall[q].at, kind |-> rCall[q].kind, job |-> rCall[q].job,
                              beside |-> rCall[q].beside]
      BY <3>1, ReviewCall DEF R!Idle
    <3>3. CASE rCall[q].at = "trigger"
      BY <3>2, <3>3 DEF Calls
    <3>4. CASE rCall[q].at \in {"stats", "commit"}
      BY <3>2, <3>4 DEF Calls
    <3> QED BY <3>1, <3>3, <3>4
  <2>5. \A q \in Callers : rCall[q] \in Calls
    BY DEF R!TypeOK, Calls
  <2>6. rCall' = [q \in Callers |->
          IF q = r THEN [rCall[r] EXCEPT !.at = "trigger", !.beside = R!Open # {}]
          ELSE IF q \in R!Open THEN [rCall[q] EXCEPT !.beside = TRUE]
          ELSE rCall[q]]
    BY <1>4 DEF R!WriteReview
  <2>7. rCall' \in [Callers -> Calls]
    BY <2>3, <2>4, <2>5, <2>6
  <2> QED BY <2>1, <2>7 DEF R!TypeOK, Calls
<1>5. ASSUME NEW r \in Callers, R!Trigger(r) PROVE R!TypeOK'
  BY <1>5 DEF R!Trigger, R!TypeOK, R!Idle, R!Visible
<1>6. ASSUME NEW r \in Callers, R!UpdateStats(r) PROVE R!TypeOK'
  BY <1>6 DEF R!UpdateStats, R!TypeOK, R!Idle
<1>7. ASSUME NEW r \in Callers, R!Commit(r) PROVE R!TypeOK'
  <2>1. rCall[r].kind \in R!Kinds /\ rCall[r].job \in Jobs /\ rCall[r].seen \subseteq Jobs
    <3>1. rCall[r].at = "commit"
      BY <1>7 DEF R!Commit
    <3>2. rCall[r] # R!Idle
      BY <3>1 DEF R!Idle
    <3> QED BY <3>1, <3>2, ReviewCall
  <2>2. reviews' \in [Jobs -> [there : BOOLEAN, answered : BOOLEAN, hidden : BOOLEAN]]
    BY <1>7, <2>1, ChangedType DEF R!Commit, R!TypeOK
  <2>3. counted' \subseteq Jobs /\ raced' \subseteq Jobs
    BY <1>7, <2>1 DEF R!Commit, R!TypeOK
  <2>4. rCall' = [rCall EXCEPT ![r] = R!Idle]
    BY <1>7 DEF R!Commit
  <2> QED BY <2>2, <2>3, <2>4 DEF R!TypeOK
<1> QED BY <1>1, <1>2, <1>3, <1>4, <1>5, <1>6, <1>7 DEF R!Next

\* A step that opens no transaction and changes no review.
LEMMA RatingQuiet ==
  ASSUME RatingInv, NEW r \in Callers, NEW next, rCall' = [rCall EXCEPT ![r] = next],
         next.at \in {"idle", "write"}, UNCHANGED <<reviews, counted, raced>>
  PROVE  AloneOrBeside' /\ CountIsRight' /\ R!RatingIsRight'
<1>1. rCall'[r].at \in {"idle", "write"} /\ \A q \in Callers : q # r => rCall'[q] = rCall[q]
  BY DEF RatingInv, R!TypeOK
<1>2. AloneOrBeside'
  BY <1>1 DEF RatingInv, AloneOrBeside, R!Open
<1>3. CountIsRight'
  BY <1>1 DEF RatingInv, CountIsRight, WithOwn, R!Visible
<1> QED BY <1>2, <1>3 DEF RatingInv, R!RatingIsRight, R!Visible

LEMMA RatingStep == RatingInv /\ [R!Next]_(R!vars) => RatingInv'
<1> SUFFICES ASSUME RatingInv, [R!Next]_(R!vars)
             PROVE  AloneOrBeside' /\ CountIsRight' /\ R!RatingIsRight'
  BY RatingTypeKept DEF RatingInv
<1> DEFINE Goal == AloneOrBeside' /\ CountIsRight' /\ R!RatingIsRight'
<1>1. CASE UNCHANGED R!vars
  BY <1>1 DEF R!vars, RatingInv, AloneOrBeside, CountIsRight, R!RatingIsRight, R!Open, R!Visible,
              WithOwn
<1>2. ASSUME NEW r \in Callers,
             \/ R!SubmitReview(r) \/ R!RespondToReview(r) \/ R!HideReview(r)
             \/ R!AlreadyExists(r) \/ R!Fail(r)
      PROVE  Goal
  <2>1. UNCHANGED <<reviews, counted, raced>>
    BY <1>2 DEF R!SubmitReview, R!RespondToReview, R!HideReview, R!AlreadyExists, R!Fail
  <2>2. PICK next : next.at \in {"idle", "write"} /\ rCall' = [rCall EXCEPT ![r] = next]
    BY <1>2 DEF R!SubmitReview, R!RespondToReview, R!HideReview, R!AlreadyExists, R!Fail, R!Starts,
                R!Idle
  <2> QED BY <2>1, <2>2, RatingQuiet
<1>3. ASSUME NEW r \in Callers, R!WriteReview(r) PROVE Goal
  <2>1. UNCHANGED <<reviews, counted, raced>>
    BY <1>3 DEF R!WriteReview
  <2>2. rCall[r] # R!Idle /\ rCall[r].at = "write"
    <3>1. rCall[r].at = "write"
      BY <1>3 DEF R!WriteReview
    <3> QED BY <3>1 DEF R!Idle
  <2>3. /\ rCall'[r] = [rCall[r] EXCEPT !.at = "trigger", !.beside = R!Open # {}]
        /\ \A q \in R!Open : rCall'[q] = [rCall[q] EXCEPT !.beside = TRUE]
        /\ \A q \in Callers : q # r /\ q \notin R!Open => rCall'[q] = rCall[q]
        /\ r \notin R!Open
    BY <1>3 DEF R!WriteReview, R!Open
  <2>4. rCall'[r].at = "trigger" /\ rCall'[r].beside = (R!Open # {})
    <3>1. rCall[r] = [at |-> "write", kind |-> rCall[r].kind, job |-> rCall[r].job,
                      beside |-> rCall[r].beside]
      BY <2>2, ReviewCall DEF RatingInv
    <3> QED BY <3>1, <2>3
  <2>5. ASSUME NEW q \in R!Open
        PROVE  /\ rCall'[q].beside /\ rCall'[q].at = rCall[q].at /\ rCall'[q].job = rCall[q].job
               /\ rCall[q].at # "trigger" => rCall'[q].seen = rCall[q].seen
    <3>1. /\ q \in Callers /\ rCall[q] # R!Idle /\ rCall[q].at \in {"trigger", "stats", "commit"}
      BY DEF R!Open, R!Idle
    <3>2. rCall[q] = IF rCall[q].at \in {"stats", "commit"}
                     THEN [at |-> rCall[q].at, kind |-> rCall[q].kind, job |-> rCall[q].job,
                           beside |-> rCall[q].beside, seen |-> rCall[q].seen]
                     ELSE [at |-> rCall[q].at, kind |-> rCall[q].kind, job |-> rCall[q].job,
                           beside |-> rCall[q].beside]
      BY <3>1, ReviewCall DEF RatingInv
    <3>3. rCall'[q] = [rCall[q] EXCEPT !.beside = TRUE]
      BY <2>3
    <3> QED BY <3>1, <3>2, <3>3
  <2>6. (R!Open)' = R!Open \cup {r}
    BY <2>2, <2>3, <2>4, <2>5 DEF R!Open
  <2>7. AloneOrBeside'
    BY <2>4, <2>5, <2>6 DEF AloneOrBeside
  <2>8. CountIsRight'
    <3> SUFFICES ASSUME NEW q \in Callers, rCall'[q].at \in {"stats", "commit"}
                 PROVE  /\ rCall'[q].beside
                        /\ \A j \in Jobs : j \notin raced /\ j # rCall'[q].job =>
                             (j \in rCall'[q].seen <=> j \in R!Visible(reviews))
      BY <2>1 DEF CountIsRight, R!Visible
    <3>1. q # r /\ q \in R!Open
      BY <2>4, <2>6 DEF R!Open
    <3> QED BY <3>1, <2>5 DEF RatingInv, CountIsRight, R!Open
  <2> QED BY <2>1, <2>7, <2>8 DEF RatingInv, R!RatingIsRight, R!Visible
<1>4. ASSUME NEW r \in Callers, R!Trigger(r) PROVE Goal
  <2>1. /\ UNCHANGED <<reviews, counted, raced>> /\ rCall[r].at = "trigger" /\ r \in R!Open
        /\ rCall'[r] = [at |-> "stats", kind |-> rCall[r].kind, job |-> rCall[r].job,
                        beside |-> rCall[r].beside, seen |-> R!Visible(WithOwn(r))]
        /\ \A q \in Callers : q # r => rCall'[q] = rCall[q]
    BY <1>4 DEF R!Trigger, RatingInv, R!TypeOK, WithOwn, R!Open
  <2>2. (R!Open)' = R!Open
    BY <2>1 DEF R!Open
  <2>3. AloneOrBeside'
    BY <2>1, <2>2 DEF RatingInv, AloneOrBeside, R!Open
  <2>4. \A j \in Jobs : j # rCall[r].job =>
          (j \in R!Visible(WithOwn(r)) <=> j \in R!Visible(reviews))
    BY DEF WithOwn, R!Visible, RatingInv, R!TypeOK
  <2>5. WithOwn(r)' = WithOwn(r) /\ \A q \in Callers : q # r => WithOwn(q)' = WithOwn(q)
    BY <2>1 DEF WithOwn
  <2>6. CountIsRight'
    BY <2>1, <2>4, <2>5 DEF RatingInv, CountIsRight, R!Visible
  <2> QED BY <2>1, <2>3, <2>6 DEF RatingInv, R!RatingIsRight, R!Visible
<1>5. ASSUME NEW r \in Callers, R!UpdateStats(r) PROVE Goal
  <2>1. /\ UNCHANGED <<reviews, counted, raced>> /\ rCall[r].at = "stats" /\ r \in R!Open
        /\ rCall' = [rCall EXCEPT ![r].at = "commit"]
    BY <1>5 DEF R!UpdateStats, R!Open
  <2>2. rCall'[r] = [at |-> "commit", kind |-> rCall[r].kind, job |-> rCall[r].job,
                     beside |-> rCall[r].beside, seen |-> rCall[r].seen]
    BY <2>1, ReviewCall DEF RatingInv, R!TypeOK, R!Idle
  <2>3. \A q \in Callers : q # r => rCall'[q] = rCall[q]
    BY <2>1 DEF RatingInv, R!TypeOK
  <2>4. (R!Open)' = R!Open
    BY <2>1, <2>2, <2>3 DEF R!Open
  <2>5. AloneOrBeside'
    BY <2>1, <2>2, <2>3, <2>4 DEF RatingInv, AloneOrBeside, R!Open
  <2>6. \A q \in Callers : WithOwn(q)' = WithOwn(q)
    <3>1. ASSUME NEW q \in Callers PROVE rCall'[q].job = rCall[q].job /\ rCall'[q].kind = rCall[q].kind
      BY <2>2, <2>3
    <3> QED BY <3>1, <2>1 DEF WithOwn
  <2>7. CountIsRight'
    BY <2>1, <2>2, <2>3, <2>6 DEF RatingInv, CountIsRight, R!Visible
  <2> QED BY <2>1, <2>5, <2>7 DEF RatingInv, R!RatingIsRight, R!Visible
<1>6. ASSUME NEW r \in Callers, R!Commit(r) PROVE Goal
  <2>1. /\ rCall[r].at = "commit" /\ r \in R!Open
        /\ reviews' = WithOwn(r) /\ counted' = rCall[r].seen
        /\ raced' = IF rCall[r].beside THEN raced \cup {rCall[r].job} ELSE {}
        /\ rCall'[r] = R!Idle /\ \A q \in Callers : q # r => rCall'[q] = rCall[q]
    BY <1>6 DEF R!Commit, RatingInv, R!TypeOK, WithOwn, R!Open
  <2>2. (R!Open)' = R!Open \ {r}
    BY <2>1 DEF R!Open, R!Idle
  <2>3. AloneOrBeside'
    BY <2>1, <2>2 DEF RatingInv, AloneOrBeside, R!Open
  <2>4. \A j \in Jobs : j # rCall[r].job => (j \in R!Visible(reviews') <=> j \in R!Visible(reviews))
    BY <2>1 DEF WithOwn, R!Visible, RatingInv, R!TypeOK
  <2>5. CASE rCall[r].beside
    <3>1. R!RatingIsRight'
      BY <2>1, <2>4, <2>5 DEF RatingInv, CountIsRight, R!RatingIsRight, R!Visible
    <3>2. CountIsRight'
      <4> SUFFICES ASSUME NEW q \in Callers, rCall'[q].at \in {"stats", "commit"}
                   PROVE  /\ rCall'[q].beside
                          /\ \A j \in Jobs : j \notin raced' /\ j # rCall'[q].job =>
                               (j \in rCall'[q].seen <=> j \in R!Visible(reviews'))
        BY DEF CountIsRight, R!Visible
      <4>1. q # r /\ rCall'[q] = rCall[q] /\ q \in R!Open
        BY <2>1 DEF R!Open, R!Idle
      <4>2. rCall[q].beside
        BY <4>1, <2>1 DEF RatingInv, AloneOrBeside
      <4> QED BY <4>1, <4>2, <2>1, <2>4, <2>5 DEF RatingInv, CountIsRight
    <3> QED BY <2>3, <3>1, <3>2
  <2>6. CASE ~rCall[r].beside
    <3>1. R!Open = {r}
      BY <2>1, <2>6 DEF RatingInv, AloneOrBeside
    <3>2. CountIsRight'
      BY <3>1, <2>1 DEF CountIsRight, R!Open, R!Idle
    <3>3. counted' = R!Visible(reviews')
      BY <2>1, <2>6 DEF RatingInv, CountIsRight
    <3>4. R!RatingIsRight'
      BY <3>3 DEF R!RatingIsRight, R!Visible
    <3> QED BY <2>3, <3>2, <3>4
  <2> QED BY <2>5, <2>6
<1> QED BY <1>1, <1>2, <1>3, <1>4, <1>5, <1>6 DEF R!Next


-----------------------------------------------------------------------------
(* Seeds: the rating after runs that are named, skipped or rolled back.    *)

SeedRows == DOMAIN S!NothingYet

\* Seeds left: none of them twice after the rating was counted, and after the providers
\* the reviews, unless the run is of the providers alone.
TodoOK ==
  /\ seeder.todo \in Seq({"categories", "accounts", "providers", "reviews", "feed"})
  /\ \A i, j \in DOMAIN seeder.todo : i < j /\ seeder.todo[j] = "providers" =>
       seeder.todo[i] \notin {"providers", "reviews"}
  /\ seeder.only # "providers" =>
       \A i \in DOMAIN seeder.todo : seeder.todo[i] = "providers" =>
         \E j \in DOMAIN seeder.todo : i < j /\ seeder.todo[j] = "reviews"

\* Neither the rating nor a review was written yet.
RatingUntouched == {"rating", "seeded"} \cap DOMAIN seeder.mine = {}

\* The fixture was written, and the reviews are still to come or never will.
RatingFixed ==
  /\ "rating" \in DOMAIN seeder.mine /\ "seeded" \notin DOMAIN seeder.mine
  /\ seeder.only = "providers" \/ ( /\ env # "production"
                                    /\ \E i \in DOMAIN seeder.todo : seeder.todo[i] = "reviews")

\* The trigger counted what the transaction sees, and no fixture follows.
RatingCounted ==
  /\ {"rating", "seeded"} \subseteq DOMAIN seeder.mine
  /\ seeder.mine["rating"] = S!Recounted(S!Over(seeder.mine, db))
  /\ \A i \in DOMAIN seeder.todo : seeder.todo[i] # "providers"

Running ==
  /\ seeder = [at |-> "running", only |-> seeder.only, mine |-> seeder.mine, todo |-> seeder.todo]
  /\ DOMAIN seeder.mine \subseteq SeedRows \ {"written"}
  /\ TodoOK
  /\ RatingUntouched \/ RatingFixed \/ RatingCounted

SeedInv ==
  /\ db = [x \in SeedRows |-> db[x]]
  /\ S!SeededRatingIsRight
  /\ seeder = S!Idle \/ Running

LEMMA SeedRowsAre ==
  SeedRows = {"categories", "rating", "admin", "demo", "provider", "customer", "done", "open",
              "quoting", "seeded", "written"}
  BY DEF SeedRows, S!NothingYet, S!Accounts, S!SeedJobs, S!Reviews

\* The count depends on the rows of the reviews alone.
LEMMA RecountedSame ==
  ASSUME NEW old, NEW new, old["seeded"] = new["seeded"], old["written"] = new["written"]
  PROVE  S!Recounted(old) = S!Recounted(new)
  BY DEF S!Recounted, S!Reviews

\* What each seed writes of the rating and the reviews.
LEMMA OtherWrites ==
  ASSUME NEW seed \in {"categories", "accounts", "feed"}
  PROVE  DOMAIN S!Writes(seed) \subseteq SeedRows \ {"rating", "seeded", "written"}
<1>1. CASE seed = "categories"
  BY <1>1, SeedRowsAre DEF S!Writes, S!SeedCategories, S!Row
<1>2. CASE seed = "accounts"
  <2>1. DOMAIN S!UpsertUser("admin") = {"admin"} /\ DOMAIN S!SeedDemoUsers \subseteq {"demo"}
    BY DEF S!UpsertUser, S!SeedDemoUsers, S!NoRow, S!Row
  <2>2. DOMAIN S!SeedAdminAndDemoUsers \subseteq {"admin", "demo"}
    BY <2>1 DEF S!SeedAdminAndDemoUsers, S!Over
  <2> QED BY <1>2, <2>2, SeedRowsAre DEF S!Writes
<1>3. CASE seed = "feed"
  <2>1. DOMAIN S!SeedProviderFeedJobs = {"open", "quoting"}
    BY DEF S!SeedProviderFeedJobs, S!Over, S!Row
  <2> QED BY <1>3, <2>1, SeedRowsAre DEF S!Writes
<1> QED BY <1>1, <1>2, <1>3

LEMMA ProvidersWrites == DOMAIN S!Writes("providers") = {"provider", "rating"}
<1>1. DOMAIN S!SeedDummyProviders = {"provider", "rating"}
  BY DEF S!SeedDummyProviders, S!UpsertDummyUser, S!UpsertProviderProfile, S!Over, S!Row
<1> QED BY <1>1 DEF S!Writes

LEMMA ReviewsWrites ==
  /\ DOMAIN S!Writes("reviews") = {"customer", "done", "seeded", "rating"}
  /\ \E v : /\ S!Writes("reviews")["seeded"] = v
            /\ S!Writes("reviews")["rating"] = S!Recounted(S!Over(S!Row("seeded", v), S!Seen))
<1> DEFINE v == IF S!Seen["seeded"] = S!Absent THEN "visible" ELSE S!Seen["seeded"]
<1> DEFINE review == S!Row("seeded", v)
<1> DEFINE rating == S!Row("rating", S!Recounted(S!Over(review, S!Seen)))
<1>1. S!SeededReview = S!Over(review, rating)
  BY DEF S!SeededReview
<1>2. /\ DOMAIN review = {"seeded"} /\ review["seeded"] = v /\ DOMAIN rating = {"rating"}
      /\ rating["rating"] = S!Recounted(S!Over(review, S!Seen))
  BY DEF S!Row
<1> HIDE DEF rating
<1>3. /\ DOMAIN S!SeededReview = {"seeded", "rating"} /\ S!SeededReview["seeded"] = v
      /\ S!SeededReview["rating"] = S!Recounted(S!Over(review, S!Seen))
  BY <1>1, <1>2 DEF S!Over
<1>4. DOMAIN S!CompletedJob = {"done"} /\ DOMAIN S!UpsertCustomer = {"customer"}
  BY DEF S!CompletedJob, S!UpsertCustomer, S!UpsertDummyUser, S!Row
<1>5. S!Writes("reviews") = S!Over(S!UpsertCustomer, S!Over(S!CompletedJob, S!SeededReview))
  BY DEF S!Writes, S!SeedDummyCustomersAndReviews
<1> DEFINE inner == S!Over(S!CompletedJob, S!SeededReview)
<1>6. /\ DOMAIN inner = {"done", "seeded", "rating"}
      /\ inner["seeded"] = S!SeededReview["seeded"] /\ inner["rating"] = S!SeededReview["rating"]
  BY <1>3, <1>4 DEF S!Over
<1> HIDE DEF inner, v
<1>7. S!Writes("reviews") = S!Over(S!UpsertCustomer, inner)
  BY <1>5 DEF inner
<1>8. /\ DOMAIN S!Writes("reviews") = {"customer", "done", "seeded", "rating"}
      /\ S!Writes("reviews")["seeded"] = inner["seeded"]
      /\ S!Writes("reviews")["rating"] = inner["rating"]
  BY <1>4, <1>6, <1>7 DEF S!Over
<1> QED BY <1>3, <1>6, <1>8

LEMMA SeedInit == S!Init => SeedInv
<1> SUFFICES ASSUME S!Init PROVE SeedInv
  OBVIOUS
<1>1. db = S!NothingYet /\ lone = TRUE /\ seeder = S!Idle
  BY DEF S!Init
<1>2. db = [x \in SeedRows |-> db[x]]
  BY <1>1 DEF SeedRows, S!NothingYet
<1> QED BY <1>1, <1>2 DEF SeedInv, S!SeededRatingIsRight

\* A run begins with nothing written.
LEMMA BeginOK == SeedInv /\ S!Begin => SeedInv'
<1> SUFFICES ASSUME SeedInv, S!Begin PROVE SeedInv'
  OBVIOUS
<1>1. PICK only \in {"none"} \cup {S!SEEDS[i] : i \in DOMAIN S!SEEDS} :
        seeder' = [at |-> "running", only |-> only, mine |-> S!NoRow,
                   todo |-> IF only = "none" THEN S!SEEDS ELSE <<only>>]
  BY DEF S!Begin
<1>2. UNCHANGED <<db, env, lone>>
  BY DEF S!Begin
<1>3. only = "none" \/ only \in {"categories", "accounts", "providers", "reviews", "feed"}
  BY DEF S!SEEDS
<1>4. TodoOK'
  <2>1. CASE only = "none"
    BY <1>1, <2>1 DEF TodoOK, S!SEEDS
  <2>2. CASE only # "none"
    BY <1>1, <1>3, <2>2 DEF TodoOK
  <2> QED BY <2>1, <2>2
<1>5. Running'
  BY <1>1, <1>4 DEF Running, RatingUntouched, S!NoRow
<1> QED BY <1>2, <1>5 DEF SeedInv, S!SeededRatingIsRight

\* What is left after one seed is as the whole was.
LEMMA TodoTail ==
  ASSUME TodoOK, seeder.todo # <<>>, seeder'.todo = Tail(seeder.todo), seeder'.only = seeder.only
  PROVE  /\ TodoOK'
         /\ Head(seeder.todo) \in {"categories", "accounts", "providers", "reviews", "feed"}
         /\ Head(seeder.todo) = seeder.todo[1]
         /\ Head(seeder.todo) \in {"providers", "reviews"} =>
              \A i \in DOMAIN seeder'.todo : seeder'.todo[i] # "providers"
         /\ Head(seeder.todo) = "providers" /\ seeder.only # "providers" =>
              \E i \in DOMAIN seeder'.todo : seeder'.todo[i] = "reviews"
         /\ \A i \in DOMAIN seeder'.todo :
              i + 1 \in DOMAIN seeder.todo /\ seeder'.todo[i] = seeder.todo[i + 1]
         /\ \A k \in DOMAIN seeder.todo : k # 1 =>
              k - 1 \in DOMAIN seeder'.todo /\ seeder'.todo[k - 1] = seeder.todo[k]
<1> DEFINE Five == {"categories", "accounts", "providers", "reviews", "feed"}
<1> DEFINE t == seeder.todo
<1> DEFINE u == seeder'.todo
<1>1. /\ t \in Seq(Five) /\ t # <<>> /\ u = Tail(t)
  BY DEF TodoOK
<1> HIDE DEF t, u, Five
<1>2. /\ u \in Seq(Five) /\ Len(u) = Len(t) - 1 /\ Len(t) \in Nat \ {0} /\ Len(u) \in Nat
      /\ DOMAIN u = 1..Len(u) /\ DOMAIN t = 1..Len(t) /\ Head(t) = t[1] /\ t[1] \in Five
      /\ \A i \in DOMAIN u : u[i] = t[i + 1]
  BY <1>1
<1>3. /\ 1 \in DOMAIN t
      /\ \A i \in DOMAIN u : i \in Nat \ {0} /\ i + 1 \in DOMAIN t /\ u[i] = t[i + 1]
      /\ \A k \in DOMAIN t : k # 1 => k \in Nat /\ k - 1 \in DOMAIN u /\ u[k - 1] = t[k] /\ 1 < k
  BY <1>2
<1>4. /\ \A i, j \in DOMAIN t : i < j /\ t[j] = "providers" => t[i] \notin {"providers", "reviews"}
      /\ seeder.only # "providers" =>
           \A i \in DOMAIN t : t[i] = "providers" => \E j \in DOMAIN t : i < j /\ t[j] = "reviews"
  BY DEF TodoOK, t
<1>5. \A i, j \in DOMAIN u : i < j /\ u[j] = "providers" => u[i] \notin {"providers", "reviews"}
  <2> SUFFICES ASSUME NEW i \in DOMAIN u, NEW j \in DOMAIN u, i < j, u[j] = "providers"
               PROVE  u[i] \notin {"providers", "reviews"}
    OBVIOUS
  <2>1. /\ i + 1 \in DOMAIN t /\ j + 1 \in DOMAIN t /\ i + 1 < j + 1
        /\ u[i] = t[i + 1] /\ u[j] = t[j + 1]
    BY <1>3
  <2> QED BY <2>1, <1>4
<1>6. seeder.only # "providers" =>
        \A i \in DOMAIN u : u[i] = "providers" => \E j \in DOMAIN u : i < j /\ u[j] = "reviews"
  <2> SUFFICES ASSUME seeder.only # "providers", NEW i \in DOMAIN u, u[i] = "providers"
               PROVE  \E j \in DOMAIN u : i < j /\ u[j] = "reviews"
    OBVIOUS
  <2>1. i + 1 \in DOMAIN t /\ t[i + 1] = "providers" /\ i \in Nat \ {0}
    BY <1>3
  <2>2. PICK k \in DOMAIN t : i + 1 < k /\ t[k] = "reviews"
    BY <2>1, <1>4
  <2>3. k \in Nat
    BY <1>2
  <2>4. k - 1 \in DOMAIN u /\ u[k - 1] = "reviews" /\ i < k - 1
    BY <2>1, <2>2, <2>3, <1>3
  <2> QED BY <2>4
<1>7. TodoOK'
  BY <1>2, <1>5, <1>6 DEF TodoOK, u, Five
<1>8. Head(t) \in {"providers", "reviews"} => \A i \in DOMAIN u : u[i] # "providers"
  <2> SUFFICES ASSUME t[1] \in {"providers", "reviews"}, NEW i \in DOMAIN u, u[i] = "providers"
               PROVE  FALSE
    BY <1>2
  <2>1. i + 1 \in DOMAIN t /\ t[i + 1] = "providers" /\ 1 < i + 1 /\ 1 \in DOMAIN t
    BY <1>3
  <2> QED BY <2>1, <1>4
<1>9. Head(t) = "providers" /\ seeder.only # "providers" => \E i \in DOMAIN u : u[i] = "reviews"
  <2> SUFFICES ASSUME t[1] = "providers", seeder.only # "providers"
               PROVE  \E i \in DOMAIN u : u[i] = "reviews"
    BY <1>2
  <2>1. PICK k \in DOMAIN t : 1 < k /\ t[k] = "reviews"
    BY <1>3, <1>4
  <2> QED BY <2>1, <1>2, <1>3
<1> QED BY <1>2, <1>3, <1>7, <1>8, <1>9 DEF t, u, Five

\* One seed: skipped, away from the rating, over it, or counting.
LEMMA RunSeedOK == SeedInv /\ S!RunSeed => SeedInv'
<1> SUFFICES ASSUME SeedInv, S!RunSeed PROVE SeedInv'
  OBVIOUS
<1> DEFINE seed == Head(seeder.todo)
<1> DEFINE W == S!Writes(seed)
<1>1. /\ seeder.at = "running" /\ seeder.todo # <<>> /\ UNCHANGED <<db, env, lone>>
      /\ seeder' = [seeder EXCEPT !.todo = Tail(@),
                                  !.mine = IF S!Skipped(seed) THEN @ ELSE S!Over(W, @)]
  BY DEF S!RunSeed
<1>2. Running
  BY <1>1 DEF SeedInv, S!Idle
<1> DEFINE mine == IF S!Skipped(seed) THEN seeder.mine ELSE S!Over(W, seeder.mine)
<1>3. seeder' = [at |-> "running", only |-> seeder.only, mine |-> mine, todo |-> Tail(seeder.todo)]
  BY <1>1, <1>2 DEF Running
<1>4. /\ seeder'.only = seeder.only /\ seeder'.mine = mine /\ seeder'.todo = Tail(seeder.todo)
      /\ seeder' = [at |-> "running", only |-> seeder'.only, mine |-> seeder'.mine,
                    todo |-> seeder'.todo]
  BY <1>3
<1>5. /\ TodoOK' /\ seed \in {"categories", "accounts", "providers", "reviews", "feed"}
      /\ seed = seeder.todo[1]
      /\ seed \in {"providers", "reviews"} =>
           \A i \in DOMAIN seeder'.todo : seeder'.todo[i] # "providers"
      /\ seed = "providers" /\ seeder.only # "providers" =>
           \E i \in DOMAIN seeder'.todo : seeder'.todo[i] = "reviews"
      /\ \A i \in DOMAIN seeder'.todo :
           i + 1 \in DOMAIN seeder.todo /\ seeder'.todo[i] = seeder.todo[i + 1]
      /\ \A k \in DOMAIN seeder.todo : k # 1 =>
           k - 1 \in DOMAIN seeder'.todo /\ seeder'.todo[k - 1] = seeder.todo[k]
  BY <1>1, <1>2, <1>4, TodoTail DEF Running
<1> SUFFICES /\ DOMAIN seeder'.mine \subseteq SeedRows \ {"written"}
             /\ RatingUntouched' \/ RatingFixed' \/ RatingCounted'
  BY <1>1, <1>4, <1>5 DEF SeedInv, Running, S!SeededRatingIsRight
<1>6. env # "production" \/ seed \notin {"providers", "reviews"} \/ S!Skipped(seed)
  BY DEF S!Skipped, S!RunInProduction
\* Nothing of the rating is written.
<1>7. ASSUME S!Skipped(seed) \/ seed \in {"categories", "accounts", "feed"}
      PROVE  /\ DOMAIN mine \subseteq SeedRows \ {"written"}
             /\ {"rating", "seeded"} \cap DOMAIN mine = {"rating", "seeded"} \cap DOMAIN seeder.mine
             /\ {"rating", "seeded"} \subseteq DOMAIN mine =>
                  /\ mine["rating"] = seeder.mine["rating"]
                  /\ S!Recounted(S!Over(mine, db)) = S!Recounted(S!Over(seeder.mine, db))
  <2>1. CASE S!Skipped(seed)
    <3>1. mine = seeder.mine
      BY <2>1
    <3> QED BY <3>1, <1>2 DEF Running
  <2>2. CASE ~S!Skipped(seed) /\ seed \in {"categories", "accounts", "feed"}
    <3>1. mine = S!Over(W, seeder.mine)
      BY <2>2
    <3>2. DOMAIN W \subseteq SeedRows \ {"rating", "seeded", "written"}
      BY <2>2, OtherWrites
    <3> HIDE DEF mine, W, seed
    <3>3. /\ DOMAIN mine = DOMAIN W \cup DOMAIN seeder.mine
          /\ \A x \in DOMAIN seeder.mine : x \notin DOMAIN W => mine[x] = seeder.mine[x]
      BY <3>1 DEF S!Over
    <3>4. ASSUME {"rating", "seeded"} \subseteq DOMAIN mine
          PROVE  /\ mine["rating"] = seeder.mine["rating"]
                 /\ S!Recounted(S!Over(mine, db)) = S!Recounted(S!Over(seeder.mine, db))
      <4>1. "seeded" \in DOMAIN seeder.mine /\ "rating" \in DOMAIN seeder.mine
        BY <3>2, <3>3, <3>4
      <4>2. mine["rating"] = seeder.mine["rating"] /\ mine["seeded"] = seeder.mine["seeded"]
        BY <4>1, <3>2, <3>3
      <4>3. "written" \notin DOMAIN mine /\ "written" \notin DOMAIN seeder.mine
        BY <3>2, <3>3, <1>2 DEF Running
      <4>4. DOMAIN db = SeedRows /\ "written" \in SeedRows
        BY SeedRowsAre DEF SeedInv
      <4>5. /\ S!Over(mine, db)["seeded"] = mine["seeded"]
            /\ S!Over(mine, db)["written"] = db["written"]
        BY <4>3, <4>4, <3>4 DEF S!Over
      <4>6. /\ S!Over(seeder.mine, db)["seeded"] = seeder.mine["seeded"]
            /\ S!Over(seeder.mine, db)["written"] = db["written"]
        BY <4>1, <4>3, <4>4 DEF S!Over
      <4> QED BY <4>2, <4>5, <4>6, RecountedSame
    <3>5. DOMAIN mine \subseteq SeedRows \ {"written"}
      BY <3>2, <3>3, <1>2 DEF Running
    <3>6. {"rating", "seeded"} \cap DOMAIN mine = {"rating", "seeded"} \cap DOMAIN seeder.mine
      BY <3>2, <3>3
    <3> QED BY <3>4, <3>5, <3>6
  <2> QED BY <1>7, <2>1, <2>2
<1> HIDE DEF seed
<1>8. CASE S!Skipped(seed) \/ seed \in {"categories", "accounts", "feed"}
  <2>2. /\ DOMAIN mine \subseteq SeedRows \ {"written"}
        /\ {"rating", "seeded"} \cap DOMAIN mine = {"rating", "seeded"} \cap DOMAIN seeder.mine
        /\ {"rating", "seeded"} \subseteq DOMAIN mine =>
             /\ mine["rating"] = seeder.mine["rating"]
             /\ S!Recounted(S!Over(mine, db)) = S!Recounted(S!Over(seeder.mine, db))
    BY <1>7, <1>8
  <2> HIDE DEF mine
  <2>3. CASE RatingUntouched
    BY <2>2, <2>3, <1>4 DEF RatingUntouched
  <2>4. CASE RatingFixed
    <3>1. "rating" \in DOMAIN mine /\ "seeded" \notin DOMAIN mine
      BY <2>2, <2>4 DEF RatingFixed
    <3>2. CASE seeder.only = "providers"
      BY <3>1, <3>2, <2>2, <1>4 DEF RatingFixed
    <3>3. CASE seeder.only # "providers"
      <4>1. env # "production" /\ seed # "reviews"
        BY <2>4, <3>3, <1>8 DEF RatingFixed, S!Skipped
      <4>2. PICK k \in DOMAIN seeder.todo : seeder.todo[k] = "reviews"
        BY <2>4, <3>3 DEF RatingFixed
      <4>3. k - 1 \in DOMAIN seeder'.todo /\ seeder'.todo[k - 1] = "reviews"
        BY <4>1, <4>2, <1>5
      <4> QED BY <3>1, <4>1, <4>3, <2>2, <1>1, <1>4 DEF RatingFixed
    <3> QED BY <3>2, <3>3
  <2>5. CASE RatingCounted
    BY <2>2, <2>5, <1>1, <1>4, <1>5 DEF RatingCounted
  <2> QED BY <2>3, <2>4, <2>5, <1>2 DEF Running
<1>9. CASE ~S!Skipped(seed) /\ seed = "providers"
  <2>1. mine = S!Over(W, seeder.mine) /\ DOMAIN W = {"provider", "rating"}
    BY <1>9, ProvidersWrites
  <2>2. DOMAIN mine = {"provider", "rating"} \cup DOMAIN seeder.mine
    BY <2>1 DEF S!Over
  <2> HIDE DEF mine, W
  <2>3. DOMAIN mine \subseteq SeedRows \ {"written"} /\ "rating" \in DOMAIN mine
    BY <2>2, <1>2, SeedRowsAre DEF Running
  <2>4. "seeded" \notin DOMAIN seeder.mine
    <3>1. ~RatingCounted
      <4>1. 1 \in DOMAIN seeder.todo
        BY <1>1, <1>2 DEF Running, TodoOK
      <4> QED BY <4>1, <1>5, <1>9 DEF RatingCounted
    <3> QED BY <3>1, <1>2 DEF Running, RatingUntouched, RatingFixed
  <2>5. "seeded" \notin DOMAIN mine
    BY <2>2, <2>4
  <2>6. env # "production" /\ env' = env
    BY <1>1, <1>6, <1>9
  <2>7. RatingFixed'
    BY <2>3, <2>5, <2>6, <1>4, <1>5, <1>9 DEF RatingFixed
  <2> QED BY <2>3, <2>7, <1>4
<1>10. CASE ~S!Skipped(seed) /\ seed = "reviews"
  <2>1. PICK v : /\ DOMAIN W = {"customer", "done", "seeded", "rating"} /\ W["seeded"] = v
                 /\ W["rating"] = S!Recounted(S!Over(S!Row("seeded", v), S!Seen))
    BY <1>10, ReviewsWrites
  <2>2. mine = S!Over(W, seeder.mine) /\ S!Seen = S!Over(seeder.mine, db)
    BY <1>1, <1>10 DEF S!Seen, S!Idle
  <2> HIDE DEF mine, W
  <2>3. /\ DOMAIN mine = {"customer", "done", "seeded", "rating"} \cup DOMAIN seeder.mine
        /\ mine["seeded"] = v /\ mine["rating"] = W["rating"]
    BY <2>1, <2>2 DEF S!Over
  <2>4. DOMAIN mine \subseteq SeedRows \ {"written"} /\ {"rating", "seeded"} \subseteq DOMAIN mine
    BY <2>3, <1>2, SeedRowsAre DEF Running
  <2>5. DOMAIN db = SeedRows /\ "written" \in SeedRows /\ "written" \notin DOMAIN seeder.mine
    BY <1>2, SeedRowsAre DEF SeedInv, Running
  <2>6. /\ DOMAIN S!Seen = DOMAIN seeder.mine \cup SeedRows /\ S!Seen["written"] = db["written"]
    BY <2>2, <2>5 DEF S!Over
  <2>7. DOMAIN S!Row("seeded", v) = {"seeded"} /\ S!Row("seeded", v)["seeded"] = v
    BY DEF S!Row
  <2> DEFINE counted0 == S!Over(S!Row("seeded", v), S!Seen)
  <2>8. counted0["seeded"] = v /\ counted0["written"] = db["written"]
    BY <2>5, <2>6, <2>7 DEF S!Over
  <2> DEFINE seen == S!Over(mine, db)
  <2>9. seen["seeded"] = v /\ seen["written"] = db["written"]
    BY <2>3, <2>4, <2>5 DEF S!Over
  <2> HIDE DEF counted0, seen
  <2>10. S!Recounted(counted0) = S!Recounted(seen)
    BY <2>8, <2>9, RecountedSame
  <2>11. mine["rating"] = S!Recounted(S!Over(mine, db))
    BY <2>1, <2>3, <2>10 DEF counted0, seen
  <2>12. \A i \in DOMAIN seeder'.todo : seeder'.todo[i] # "providers"
    BY <1>5, <1>10
  <2>13. RatingCounted'
    BY <2>4, <2>11, <2>12, <1>1, <1>4 DEF RatingCounted
  <2> QED BY <2>4, <2>13, <1>4
<1> QED BY <1>5, <1>8, <1>9, <1>10

\* The COMMIT shows a counted rating, or the fixture of a run of the providers alone.
LEMMA SeedCommitOK == SeedInv /\ S!Commit => SeedInv'
<1> SUFFICES ASSUME SeedInv, S!Commit PROVE SeedInv'
  OBVIOUS
<1>1. /\ seeder.at = "running" /\ seeder.todo = <<>> /\ db' = S!Over(seeder.mine, db)
      /\ lone' = (IF "rating" \in DOMAIN seeder.mine THEN seeder.only = "providers" ELSE lone)
      /\ seeder' = S!Idle
  BY DEF S!Commit, S!Seen, S!Written, S!Idle
<1>2. Running
  BY <1>1 DEF SeedInv, S!Idle
<1>3. /\ DOMAIN seeder.mine \subseteq SeedRows \ {"written"} /\ DOMAIN db = SeedRows
      /\ {"rating", "seeded", "written"} \subseteq SeedRows
  BY <1>2, SeedRowsAre DEF Running, SeedInv
<1>4. /\ db' = [x \in SeedRows |-> db'[x]]
      /\ \A x \in DOMAIN seeder.mine : db'[x] = seeder.mine[x]
      /\ \A x \in SeedRows : x \notin DOMAIN seeder.mine => db'[x] = db[x]
  <2>1. DOMAIN seeder.mine \cup DOMAIN db = SeedRows
    BY <1>3
  <2> QED BY <1>1, <1>3, <2>1 DEF S!Over
<1>5. S!SeededRatingIsRight'
  <2>1. CASE RatingUntouched
    <3>1. db'["rating"] = db["rating"] /\ S!Recounted(db') = S!Recounted(db)
      BY <2>1, <1>3, <1>4, RecountedSame DEF RatingUntouched
    <3> QED BY <3>1, <2>1, <1>1 DEF RatingUntouched, SeedInv, S!SeededRatingIsRight, S!Recounted
  <2>2. CASE RatingFixed
    <3>1. seeder.only = "providers" /\ "rating" \in DOMAIN seeder.mine
      BY <2>2, <1>1 DEF RatingFixed
    <3>2. lone'
      BY <1>1, <3>1
    <3> QED BY <3>2 DEF S!SeededRatingIsRight
  <2>3. CASE RatingCounted
    BY <2>3, <1>1, <1>4 DEF RatingCounted, S!SeededRatingIsRight, S!Recounted
  <2> QED BY <2>1, <2>2, <2>3, <1>2 DEF Running
<1> QED BY <1>1, <1>4, <1>5 DEF SeedInv

\* A row the application changes besides the rating and the reviews.
LEMMA ChangeOK ==
  ASSUME SeedInv, NEW x \in SeedRows \ {"rating", "seeded", "written"}, NEW value,
         db' = [db EXCEPT ![x] = value], UNCHANGED <<env, seeder, lone>>
  PROVE  SeedInv'
<1>1. /\ db' = [y \in SeedRows |-> db'[y]]
      /\ \A y \in SeedRows : y # x => db'[y] = db[y]
      /\ {"rating", "seeded", "written"} \subseteq SeedRows
  BY SeedRowsAre DEF SeedInv
<1>2. db'["rating"] = db["rating"] /\ S!Recounted(db') = S!Recounted(db)
  BY <1>1, RecountedSame
<1>3. S!SeededRatingIsRight'
  BY <1>2 DEF SeedInv, S!SeededRatingIsRight, S!Recounted
<1>4. ASSUME Running PROVE Running'
  <2>1. ASSUME RatingCounted PROVE RatingCounted'
    <3>1. "seeded" \in DOMAIN seeder.mine /\ "written" \notin DOMAIN seeder.mine
      BY <1>4, <2>1 DEF Running, RatingCounted
    <3>2. DOMAIN db = SeedRows /\ DOMAIN db' = SeedRows
      BY <1>1 DEF SeedInv
    <3>3. /\ S!Over(seeder.mine, db)["seeded"] = S!Over(seeder.mine, db')["seeded"]
          /\ S!Over(seeder.mine, db)["written"] = S!Over(seeder.mine, db')["written"]
      BY <3>1, <3>2, <1>1 DEF S!Over
    <3>4. S!Recounted(S!Over(seeder.mine, db)) = S!Recounted(S!Over(seeder.mine, db'))
      BY <3>3, RecountedSame
    <3> QED BY <2>1, <3>4 DEF RatingCounted
  <2>2. ASSUME RatingUntouched \/ RatingFixed PROVE RatingUntouched' \/ RatingFixed'
    BY <2>2 DEF RatingUntouched, RatingFixed
  <2> QED BY <1>4, <2>1, <2>2 DEF Running, TodoOK
<1> QED BY <1>1, <1>3, <1>4 DEF SeedInv

LEMMA SeedStep == SeedInv /\ [S!Next]_(S!vars) => SeedInv'
<1> SUFFICES ASSUME SeedInv, [S!Next]_(S!vars) PROVE SeedInv'
  OBVIOUS
<1>1. ASSUME UNCHANGED <<db, env, seeder, lone>> PROVE SeedInv'
  <2>1. S!SeededRatingIsRight'
    BY <1>1 DEF SeedInv, S!SeededRatingIsRight, S!Recounted
  <2>2. Running => Running'
    BY <1>1 DEF Running, TodoOK, RatingUntouched, RatingFixed, RatingCounted, S!Recounted, S!Over
  <2> QED BY <1>1, <2>1, <2>2 DEF SeedInv
<1>2. CASE S!Rollback
  BY <1>2 DEF S!Rollback, SeedInv, S!SeededRatingIsRight, S!Recounted
<1>3. CASE S!SuspendUser
  <2>1. PICK u \in S!Accounts : S!Change(u, "suspended")
    BY <1>3 DEF S!SuspendUser
  <2>2. u \in SeedRows \ {"rating", "seeded", "written"}
    BY SeedRowsAre DEF S!Accounts
  <2> QED BY <2>1, <2>2, <1>3, ChangeOK DEF S!Change, S!SuspendUser
<1>4. CASE S!MoveJob
  <2>1. PICK j \in S!SeedJobs, t \in S!Transitions : S!Change(j, t[2])
    BY <1>4 DEF S!MoveJob
  <2>2. j \in SeedRows \ {"rating", "seeded", "written"}
    BY SeedRowsAre DEF S!SeedJobs
  <2> QED BY <2>1, <2>2, <1>4, ChangeOK DEF S!Change, S!MoveJob
<1>5. CASE S!ChangeReview
  <2>1. PICK v \in S!Reviews :
          LET rows1 == [db EXCEPT ![v] = IF db[v] = S!Absent THEN "visible" ELSE "hidden"]
          IN  db' = [rows1 EXCEPT !["rating"] = S!Recounted(rows1)]
    BY <1>5 DEF S!ChangeReview
  <2> DEFINE rows1 == [db EXCEPT ![v] = IF db[v] = S!Absent THEN "visible" ELSE "hidden"]
  <2>2. /\ {"seeded", "written", "rating"} \cap S!Written = {} /\ UNCHANGED <<env, seeder>>
        /\ db' = [rows1 EXCEPT !["rating"] = S!Recounted(rows1)]
    BY <1>5, <2>1 DEF S!ChangeReview
  <2>3. rows1 = [x \in SeedRows |-> rows1[x]] /\ {"rating", "seeded", "written"} \subseteq SeedRows
    BY SeedRowsAre DEF SeedInv
  <2> HIDE DEF rows1
  <2>4. /\ db' = [x \in SeedRows |-> db'[x]] /\ db'["rating"] = S!Recounted(rows1)
        /\ db'["seeded"] = rows1["seeded"] /\ db'["written"] = rows1["written"]
    BY <2>2, <2>3
  <2>5. db'["rating"] = S!Recounted(db')
    BY <2>4, RecountedSame
  <2>6. S!SeededRatingIsRight'
    BY <2>5 DEF S!SeededRatingIsRight, S!Recounted
  <2>7. ASSUME Running PROVE Running'
    <3>1. RatingUntouched
      BY <2>2, <2>7 DEF Running, RatingUntouched, RatingFixed, RatingCounted, S!Written, S!Idle
    <3> QED BY <3>1, <2>2, <2>7 DEF Running, TodoOK, RatingUntouched
  <2> QED BY <2>2, <2>4, <2>6, <2>7 DEF SeedInv
<1> QED
  BY <1>1, <1>2, <1>3, <1>4, <1>5, BeginOK, RunSeedOK, SeedCommitOK DEF S!Next, S!Register, S!vars


-----------------------------------------------------------------------------
(* The composition the runs check.                                         *)

\* A behaviour is about one component, so each takes its own step or none.
LEMMA OneComponentSteps ==
  ModerationNext \/ UNCHANGED allVars =>
    [Next]_vars /\ [D!Next]_(D!vars) /\ [R!Next]_(R!vars) /\ [S!Next]_(S!vars)
  BY DEF ModerationNext, allVars, vVars, dVars, rVars, sVars, vars, D!vars, R!vars, S!vars

LEMMA ComponentInits == ModerationInit => Init /\ D!Init /\ R!Init /\ S!Init
  BY DEF ModerationInit

\* A provider shown as verified has the identity flag, and each flag set, or about to be,
\* was approved, however the handlers of any number of requests interleave or fail.
\* (verifications.service.ts:176-191)
THEOREM VerificationEarned == ModerationSpec => []VerificationIsEarned
<1>1. ModerationInit => EarnedInv
  BY ComponentInits, EarnedInit
<1>2. EarnedInv /\ [ModerationNext]_allVars => EarnedInv'
  BY OneComponentSteps, EarnedStep
<1>3. EarnedInv => VerificationIsEarned
  BY DEF EarnedInv
<1> QED BY <1>1, <1>2, <1>3, PTL DEF ModerationSpec

\* However many submissions run side by side, no more documents of a type are pending or
\* about to be than submissions were past their check at once.  (verifications.service.ts:60)
THEOREM PendingIsBounded == ModerationSpec => []PendingBounded
<1>1. ModerationInit => PendingInv
  BY ComponentInits, PendingInit
<1>2. PendingInv /\ [ModerationNext]_allVars => PendingInv'
  BY OneComponentSteps, PendingStep
<1>3. PendingInv => PendingBounded
  BY DEF PendingInv
<1> QED BY <1>1, <1>2, <1>3, PTL DEF ModerationSpec

\* Every active dispute of a party too many was raised beside another, or taken back from
\* resolved by a late write.  (disputes.service.ts:44, :121)
THEOREM ActiveIsBounded == ModerationSpec => []ActiveBounded
<1>1. ModerationInit => ActiveInv
  BY ComponentInits, ActiveInit
<1>2. ActiveInv /\ [ModerationNext]_allVars => ActiveInv'
  BY OneComponentSteps, ActiveStep
<1>3. ActiveInv => ActiveBounded
  BY ActiveMeans
<1> QED BY <1>1, <1>2, <1>3, PTL DEF ModerationSpec

\* The rating counts the visible reviews, but for those changed beside another change and
\* for a run of the provider seed alone, for any number of jobs and overlapping
\* transactions.  (004_messaging_moderation.ts:200-227, 03_dummy_providers.ts:251)
THEOREM RatingStaysRight == ModerationSpec => []RatingIsRight
<1>1. ModerationInit => RatingInv /\ SeedInv
  BY ComponentInits, RatingInit, SeedInit
<1>2. RatingInv /\ SeedInv /\ [ModerationNext]_allVars => (RatingInv /\ SeedInv)'
  BY OneComponentSteps, RatingStep, SeedStep
<1>3. RatingInv /\ SeedInv => RatingIsRight
  BY DEF RatingInv, SeedInv, RatingIsRight
<1> QED BY <1>1, <1>2, <1>3, PTL DEF ModerationSpec


=============================================================================
