----------------------------- MODULE AccountProofs -----------------------------
(***************************************************************************)
(* Proofs about registration, passwords, sessions, reset links and the     *)
(* limit kept in Redis, for any number of requests, links and telephones   *)
(* and any limit.                                                          *)
(***************************************************************************)
EXTENDS MCAccounts, FiniteSetTheorems, TLAPS

-----------------------------------------------------------------------------
(* Counting.                                                               *)

\* A set that loses elements counts no more than before.
LEMMA Fewer ==
  ASSUME NEW A, IsFiniteSet(A), NEW B, B \subseteq A
  PROVE  IsFiniteSet(B) /\ Cardinality(B) \in Nat /\ Cardinality(A) \in Nat
         /\ Cardinality(B) <= Cardinality(A)
  BY FS_Subset, FS_CardinalityType

\* One that gains at most x counts at most one more.
LEMMA OneMore ==
  ASSUME NEW A, IsFiniteSet(A), NEW x, NEW B, B \subseteq A \cup {x}
  PROVE  IsFiniteSet(B) /\ Cardinality(B) \in Nat /\ Cardinality(A) \in Nat
         /\ Cardinality(B) <= Cardinality(A) + 1
<1>0. Cardinality(A) \in Nat
  BY FS_CardinalityType
<1>1. IsFiniteSet(A \cup {x}) /\ Cardinality(A \cup {x}) <= Cardinality(A) + 1
  <2>1. /\ IsFiniteSet(A \cup {x})
        /\ Cardinality(A \cup {x}) = IF x \in A THEN Cardinality(A) ELSE Cardinality(A) + 1
    BY FS_AddElement
  <2> QED BY <1>0, <2>1
<1> QED BY <1>1, FS_Subset, FS_CardinalityType

\* One that loses x, which it had, counts one less.
LEMMA OneLess ==
  ASSUME NEW A, IsFiniteSet(A), NEW x \in A, NEW B, B \subseteq A \ {x}
  PROVE  IsFiniteSet(B) /\ Cardinality(B) \in Nat /\ Cardinality(A) \in Nat
         /\ Cardinality(B) + 1 <= Cardinality(A)
<1>1. IsFiniteSet(A \ {x}) /\ Cardinality(A \ {x}) = Cardinality(A) - 1
  BY FS_RemoveElement
<1> QED BY <1>1, FS_Subset, FS_CardinalityType

-----------------------------------------------------------------------------
(* Registration.  A stored code was sent to the phone of its key; a        *)
(* verification between its GET and its last UPDATE carries a phone that   *)
(* was proved, and, until its DEL, of which no code is promised.           *)

UserOK ==
  \/ user = NoUser
  \/ user = [exists |-> TRUE, email |-> user.email, phone |-> user.phone,
             phoneVerified |-> user.phoneVerified]

CallOK ==
  /\ call = [r \in Requests |-> call[r]]
  /\ \A r \in Requests : call[r].at \in {"forget", "update"} => call[r].phone \in proved

\* A code is stored under the phone it was sent to.
CodesOK ==
  /\ sentTo \in Seq(Phones)
  /\ newest = [p \in Phones |-> newest[p]]
  /\ stored \in [Phones -> 0..Len(sentTo)]
  /\ \A p \in Phones : stored[p] # 0 => sentTo[stored[p]] = p

\* Of a phone whose key is about to be deleted no code is promised.
NothingPromised ==
  \A r \in Requests : call[r].at = "forget" =>
    call[r].phone \in Phones /\ newest[call[r].phone] = 0

PhoneInv == UserOK /\ CallOK /\ CodesOK /\ NothingPromised /\ PhoneIsProved /\ CodeWorksUntilUsed

LEMMA PhoneInit == Init => PhoneInv
<1> SUFFICES ASSUME Init PROVE PhoneInv
  OBVIOUS
<1>1. UserOK /\ CallOK /\ NothingPromised /\ PhoneIsProved
  BY DEF Init, UserOK, CallOK, NothingPromised, PhoneIsProved, NoUser, Idle
<1>2. CodesOK /\ CodeWorksUntilUsed
  BY DEF Init, CodesOK, CodeWorksUntilUsed
<1> QED BY <1>1, <1>2 DEF PhoneInv

\* The steps that leave codes alone.
Quiet(r) ==
  \/ Register(r) \/ CreateUser(r) \/ CreateProfile(r) \/ AutoVerify(r)
  \/ ResendVerification(r) \/ SendEmailVerification(r)
  \/ VerifyEmail(r) \/ ConfirmEmail(r) \/ Fail(r)

LEMMA PhoneStep == PhoneInv /\ [Next]_vars => PhoneInv'
<1> SUFFICES ASSUME PhoneInv, [Next]_vars PROVE PhoneInv'
  OBVIOUS
<1> USE DEF PhoneInv, UserOK, CallOK, CodesOK, NothingPromised, PhoneIsProved,
            CodeWorksUntilUsed, Goes, Idle, NoUser
<1>1. ASSUME NEW r \in Requests, Quiet(r) PROVE PhoneInv'
  <2>1. UNCHANGED <<stored, sentTo, proved, newest>>
    BY <1>1 DEF Quiet, Register, CreateUser, CreateProfile, AutoVerify, ResendVerification,
                SendEmailVerification, VerifyEmail, ConfirmEmail, Fail
  <2>2. \E c : call' = [call EXCEPT ![r] = c] /\ c.at \notin {"forget", "update"}
    BY <1>1 DEF Quiet, Register, CreateUser, CreateProfile, AutoVerify, ResendVerification,
                SendEmailVerification, VerifyEmail, ConfirmEmail, Fail
  <2>3. \/ UNCHANGED user
        \/ user' = [user EXCEPT !.email = TRUE]
        \/ \E p : user' = [exists |-> TRUE, email |-> FALSE, phone |-> p,
                           phoneVerified |-> FALSE]
    BY <1>1 DEF Quiet, Register, CreateUser, CreateProfile, AutoVerify, ResendVerification,
                SendEmailVerification, VerifyEmail, ConfirmEmail, Fail
  <2>4. (UserOK /\ PhoneIsProved)'
    BY <2>1, <2>3
  <2>5. (CallOK /\ NothingPromised)'
    BY <2>1, <2>2
  <2> QED BY <2>1, <2>4, <2>5
<1>2. ASSUME NEW r \in Requests, RequestPhoneOTP(r) PROVE PhoneInv'
  <2>1. PICK p \in Phones :
          /\ sentTo' = Append(sentTo, p)
          /\ stored' = [stored EXCEPT ![p] = Len(sentTo) + 1]
          /\ newest' = [newest EXCEPT ![p] = IF Forgetting(p) THEN 0 ELSE Len(sentTo) + 1]
    BY <1>2 DEF RequestPhoneOTP
  <2>2. UNCHANGED <<user, proved, call>>
    BY <1>2 DEF RequestPhoneOTP
  <2>3. CodesOK'
    <3>1. /\ sentTo' \in Seq(Phones) /\ Len(sentTo') = Len(sentTo) + 1
          /\ sentTo'[Len(sentTo) + 1] = p
          /\ \A i \in 1..Len(sentTo) : sentTo'[i] = sentTo[i]
      BY <2>1
    <3>2. stored' \in [Phones -> 0..Len(sentTo')]
      BY <2>1, <3>1
    <3>3. newest' = [q \in Phones |-> newest'[q]]
      BY <2>1
    <3>4. \A q \in Phones : stored'[q] # 0 => sentTo'[stored'[q]] = q
      BY <2>1, <3>1
    <3> QED BY <3>1, <3>2, <3>3, <3>4
  <2>4. NothingPromised'
    BY <2>1, <2>2 DEF Forgetting
  <2>5. CodeWorksUntilUsed'
    BY <2>1
  <2> QED BY <2>2, <2>3, <2>4, <2>5
<1>3. ASSUME NEW r \in Requests, VerifyPhoneOTP(r) PROVE PhoneInv'
  <2>1. PICK p \in Phones, c \in DOMAIN sentTo :
          /\ stored[p] = c
          /\ call' = [call EXCEPT ![r] = [at |-> "forget", phone |-> p]]
          /\ proved' = proved \cup {sentTo[c]}
          /\ newest' = [newest EXCEPT ![p] = 0]
    BY <1>3 DEF VerifyPhoneOTP
  <2>2. UNCHANGED <<user, stored, sentTo>>
    BY <1>3 DEF VerifyPhoneOTP
  <2>3. p \in proved'
    BY <2>1
  <2>4. (CallOK /\ NothingPromised)'
    BY <2>1, <2>3
  <2> QED BY <2>1, <2>2, <2>4
<1>4. ASSUME NEW r \in Requests, ForgetCode(r) PROVE PhoneInv'
  <2>1. /\ stored' = [stored EXCEPT ![call[r].phone] = 0]
        /\ call' = [call EXCEPT ![r] = [at |-> "update", phone |-> call[r].phone]]
        /\ UNCHANGED <<user, sentTo, proved, newest>>
        /\ call[r].phone \in proved /\ call[r].phone \in Phones /\ newest[call[r].phone] = 0
    BY <1>4 DEF ForgetCode
  <2>2. CodesOK'
    BY <2>1
  <2>3. (CallOK /\ NothingPromised)'
    BY <2>1
  <2>4. CodeWorksUntilUsed'
    BY <2>1
  <2> QED BY <2>1, <2>2, <2>3, <2>4
<1>5. ASSUME NEW r \in Requests, UpdateUser(r) PROVE PhoneInv'
  <2>1. /\ user' = [user EXCEPT !.phoneVerified = TRUE, !.phone = call[r].phone]
        /\ call' = [call EXCEPT ![r] = [at |-> "idle"]]
        /\ UNCHANGED <<stored, sentTo, proved, newest>>
        /\ call[r].phone \in proved
    BY <1>5 DEF UpdateUser
  <2>2. CASE user = NoUser
    <3>1. user' = NoUser
      BY <2>1, <2>2
    <3> QED BY <2>1, <3>1
  <2>3. CASE user # NoUser
    <3>1. PICK e, f, v : user = [exists |-> TRUE, email |-> e, phone |-> f,
                                 phoneVerified |-> v]
      BY <2>3
    <3>2. user' = [exists |-> TRUE, email |-> e, phone |-> call[r].phone,
                   phoneVerified |-> TRUE]
      BY <2>1, <3>1
    <3>3. UserOK'
      BY <3>2
    <3>4. PhoneIsProved'
      BY <2>1, <3>2
    <3>5. (CallOK /\ NothingPromised /\ CodesOK /\ CodeWorksUntilUsed)'
      BY <2>1
    <3> QED BY <3>3, <3>4, <3>5
  <2> QED BY <2>1, <2>2, <2>3
<1>6. ASSUME NEW l \in DOMAIN links, ExpireLink(l) PROVE PhoneInv'
  BY <1>6 DEF ExpireLink
<1>7. ASSUME NEW p \in Phones, ExpireCode(p) PROVE PhoneInv'
  <2>1. /\ stored' = [stored EXCEPT ![p] = 0] /\ newest' = [newest EXCEPT ![p] = 0]
        /\ UNCHANGED <<user, sentTo, proved, call>>
    BY <1>7 DEF ExpireCode
  <2>2. CodesOK'
    BY <2>1
  <2> QED BY <2>1, <2>2
<1>8. CASE UNCHANGED vars
  BY <1>8 DEF vars
<1> QED BY <1>1, <1>2, <1>3, <1>4, <1>5, <1>6, <1>7, <1>8 DEF Next, Quiet

-----------------------------------------------------------------------------
(* Limits.  A request between INCR and EXPIRE has not been counted as let  *)
(* through, but will be: there is at most one, the key does not run out    *)
(* meanwhile, and room for it is left below the limit.                     *)

First(r) == limited[r] = "first"

LimitTypeOK ==
  /\ count \in Nat /\ ttl \in Nat /\ passed \in Nat
  /\ limited \in [Requests -> {"idle", "first"}]

\* The one who makes the key, and the key while it has no expiry yet.
FirstIsAlone ==
  \A r \in Requests : First(r) =>
    /\ count > 0 /\ ttl = 0
    /\ passed < count /\ passed < MaxRequests
    /\ \A q \in Requests : First(q) => q = r

\* A request is let through only after it was counted.
PassedAreCounted == passed <= count /\ (ttl > 0 => count > 0)

LimitInv == LimitTypeOK /\ FirstIsAlone /\ PassedAreCounted /\ L!LimitHolds

LEMMA LimitInit == ASSUME L!LimitAssumption PROVE L!Init => LimitInv
<1> SUFFICES ASSUME L!Init PROVE LimitInv
  OBVIOUS
<1>1. LimitTypeOK
  BY DEF L!Init, LimitTypeOK
<1>2. FirstIsAlone
  BY DEF L!Init, FirstIsAlone, First
<1>3. PassedAreCounted /\ L!LimitHolds
  BY DEF L!LimitAssumption, L!Init, PassedAreCounted, L!LimitHolds
<1> QED BY <1>1, <1>2, <1>3 DEF LimitInv

LEMMA LimitStep == ASSUME L!LimitAssumption PROVE LimitInv /\ [L!Next]_(L!vars) => LimitInv'
<1> SUFFICES ASSUME LimitInv, [L!Next]_(L!vars) PROVE LimitInv'
  OBVIOUS
<1> USE DEF L!LimitAssumption, LimitInv, LimitTypeOK, FirstIsAlone, First, PassedAreCounted,
                            L!LimitHolds
<1>1. ASSUME NEW r \in Requests, L!IncrAndTtl(r) PROVE LimitInv'
  <2>1. CASE count = 0
    BY <1>1, <2>1 DEF L!IncrAndTtl
  <2>2. CASE count # 0
    BY <1>1, <2>2 DEF L!IncrAndTtl, L!Answers
  <2> QED BY <2>1, <2>2
<1>2. ASSUME NEW r \in Requests, L!IncrFails(r) PROVE LimitInv'
  <2>1. /\ UNCHANGED <<ttl, limited, passed>> /\ count' \in Nat /\ count' >= count
        /\ \/ count' = count /\ accident' = accident
           \/ accident' = (accident \/ count = 0)
    BY <1>2 DEF L!IncrFails, L!Answers
  <2>2. accident => accident'
    BY <2>1, Zenon
  <2>3. count = 0 => count' = 0 \/ accident'
    BY <2>1, Zenon
  <2> HIDE DEF L!LimitHolds, LimitInv
  <2>4. L!LimitHolds'
    BY <2>1, <2>2, <2>3 DEF L!LimitHolds, LimitInv
  <2>5. FirstIsAlone' /\ PassedAreCounted' /\ LimitTypeOK'
    BY <2>1 DEF LimitInv
  <2> QED BY <2>4, <2>5 DEF LimitInv
<1>3. ASSUME NEW r \in Requests, L!Expire(r) PROVE LimitInv'
  <2>1. /\ limited' = [limited EXCEPT ![r] = "idle"] /\ passed' = passed + 1 /\ count' = count
        /\ \/ ttl' = Window /\ accident' = accident
           \/ ttl' = ttl /\ accident' = TRUE
    BY <1>3 DEF L!Expire, L!Answers
  <2>2. First(r) /\ passed < count /\ passed < MaxRequests /\ count > 0
    BY <1>3 DEF L!Expire
  <2>3. \A q \in Requests : limited'[q] = "idle"
    BY <2>1, <2>2
  <2>4. LimitTypeOK'
    BY <2>1
  <2>5. FirstIsAlone'
    BY <2>3
  <2>6. PassedAreCounted' /\ L!LimitHolds'
    BY <2>1, <2>2
  <2> QED BY <2>4, <2>5, <2>6
<1>4. CASE L!Tick
  BY <1>4 DEF L!Tick
<1>5. CASE L!Connection
  BY <1>5 DEF L!Connection
<1>6. CASE L!Restart
  BY <1>6 DEF L!Restart
<1>7. CASE L!DbRateLimit
  BY <1>7 DEF L!DbRateLimit
<1>8. CASE UNCHANGED L!vars
  BY <1>8 DEF L!vars
<1> QED BY <1>1, <1>2, <1>3, <1>4, <1>5, <1>6, <1>7, <1>8 DEF L!Next

-----------------------------------------------------------------------------
(* Passwords: sessions that the password or the status has outdated.       *)

LinkRow    == [used : BOOLEAN, revoked : BOOLEAN, expired : BOOLEAN, uses : Nat, readers : Nat]
LoginCall  == [at : {"sign"}, password : Nat, banned : BOOLEAN, missed : BOOLEAN]
SessionRow == [password : Nat, banned : BOOLEAN, revoked : BOOLEAN, missed : BOOLEAN]

\* What the handlers remember: a login its password, a reset its link.
PasswordCallOK ==
  /\ pCall = [r \in Requests |-> pCall[r]]
  /\ \A r \in Requests :
       /\ pCall[r].at = "sign" => pCall[r] \in LoginCall
       /\ pCall[r].at = "write" => pCall[r].link \in DOMAIN resets
       /\ pCall[r].at = "setStatus" => pCall[r].status \in P!Statuses

PasswordTypeOK ==
  /\ status \in P!Statuses /\ password \in Nat
  /\ resets \in Seq(LinkRow) /\ sessions \in Seq(SessionRow)
  /\ PasswordCallOK
  /\ crowd \in Nat

Ending == \E r \in Requests : pCall[r].at = "endSessions"

\* A login under way is known to be outdated, or a revocation will find out.
LoginsKnown ==
  \A r \in Requests :
    pCall[r].at = "sign" /\ P!Outdated(pCall[r]) => pCall[r].missed \/ Ending

SessionInv == PasswordTypeOK /\ LoginsKnown /\ OldSessionsEnd

LEMMA ElementOfSeq ==
  ASSUME NEW Element, NEW s \in Seq(Element), NEW i \in DOMAIN s PROVE s[i] \in Element
  OBVIOUS

\* A function over the indices of a sequence is a sequence again.
LEMMA RewrittenSeq ==
  ASSUME NEW Element, NEW Other, NEW s \in Seq(Element), NEW t,
         t = [i \in DOMAIN s |-> t[i]], \A i \in DOMAIN s : t[i] \in Other
  PROVE  t \in Seq(Other) /\ DOMAIN t = DOMAIN s
<1>1. DOMAIN s = 1..Len(s) /\ Len(s) \in Nat
  OBVIOUS
<1>2. t \in [1..Len(s) -> Other]
  BY <1>1
<1> QED BY <1>1, <1>2

LEMMA SessionInit == P!Init => SessionInv
<1> SUFFICES ASSUME P!Init PROVE SessionInv
  OBVIOUS
<1>1. PasswordTypeOK
  BY DEF P!Init, PasswordTypeOK, PasswordCallOK, P!Statuses, P!Idle
<1>2. LoginsKnown
  BY DEF P!Init, LoginsKnown, P!Outdated, P!Idle
<1>3. OldSessionsEnd
  BY DEF P!Init, OldSessionsEnd, P!OldSessionsEnd
<1> QED BY <1>1, <1>2, <1>3 DEF SessionInv

\* The links keep their type, and there are as many or one more.
LinksStay == resets' \in Seq(LinkRow) /\ DOMAIN resets \subseteq DOMAIN resets'

\* What each step does to the links, row by row.
LEMMA RevokeRows ==
  ASSUME PasswordTypeOK, NEW r \in Requests, P!RevokeLinks(r)
  PROVE  /\ resets' \in Seq(LinkRow) /\ DOMAIN resets' = DOMAIN resets
         /\ \A l \in DOMAIN resets :
              resets'[l].revoked /\ resets'[l].used = resets[l].used
              /\ resets'[l].uses = resets[l].uses /\ resets'[l].readers = resets[l].readers
<1>1. resets' = [l \in DOMAIN resets |-> [resets[l] EXCEPT !.revoked = TRUE]]
      /\ resets \in Seq(LinkRow)
  BY DEF P!RevokeLinks, PasswordTypeOK
<1>2. ASSUME NEW l \in DOMAIN resets
      PROVE  /\ resets'[l] \in LinkRow /\ resets'[l].revoked
             /\ resets'[l].used = resets[l].used /\ resets'[l].uses = resets[l].uses
             /\ resets'[l].readers = resets[l].readers
  <2>1. resets[l] \in LinkRow /\ resets'[l] = [resets[l] EXCEPT !.revoked = TRUE]
    BY <1>1, ElementOfSeq
  <2> QED BY <2>1 DEF LinkRow
<1>3. resets' \in Seq(LinkRow) /\ DOMAIN resets' = DOMAIN resets
  BY <1>1, <1>2, RewrittenSeq
<1> QED BY <1>2, <1>3

LEMMA InsertRows ==
  ASSUME PasswordTypeOK, NEW r \in Requests, P!InsertLink(r)
  PROVE  LET n == Len(resets) + 1
         IN  /\ resets' \in Seq(LinkRow) /\ DOMAIN resets' = DOMAIN resets \cup {n}
             /\ n \notin DOMAIN resets
             /\ \A l \in DOMAIN resets : resets'[l] = resets[l]
             /\ resets'[n].uses = 0 /\ resets'[n].readers = 0 /\ ~resets'[n].used
<1> DEFINE new == [used |-> FALSE, revoked |-> FALSE, expired |-> FALSE, uses |-> 0, readers |-> 0]
<1>1. new \in LinkRow /\ resets' = Append(resets, new) /\ resets \in Seq(LinkRow)
  BY DEF P!InsertLink, PasswordTypeOK, LinkRow
<1> QED BY <1>1

LEMMA ExpireRows ==
  ASSUME PasswordTypeOK, NEW k \in DOMAIN resets, P!ExpireLink(k)
  PROVE  /\ resets' \in Seq(LinkRow) /\ DOMAIN resets' = DOMAIN resets
         /\ \A l \in DOMAIN resets :
              /\ resets'[l].used = resets[l].used /\ resets'[l].revoked = resets[l].revoked
              /\ resets'[l].uses = resets[l].uses /\ resets'[l].readers = resets[l].readers
<1> DEFINE new == [resets[k] EXCEPT !.expired = TRUE]
<1>1. resets' = [resets EXCEPT ![k] = new] /\ resets \in Seq(LinkRow) /\ resets[k] \in LinkRow
  BY ElementOfSeq DEF P!ExpireLink, PasswordTypeOK
<1>2. /\ new \in LinkRow /\ new.used = resets[k].used /\ new.revoked = resets[k].revoked
      /\ new.uses = resets[k].uses /\ new.readers = resets[k].readers
  BY <1>1 DEF LinkRow
<1> HIDE DEF new
<1> QED BY <1>1, <1>2

\* A reset that reads link k as good: the link is live and counts one more reader, if it must.
LEMMA ReadRows ==
  ASSUME PasswordTypeOK, NEW r \in Requests, P!ResetPassword(r)
  PROVE  \E k \in P!Live :
           /\ k \in DOMAIN resets /\ ~resets[k].used
           /\ pCall' = [pCall EXCEPT ![r] = [at |-> "write", link |-> k]]
           /\ resets' \in Seq(LinkRow) /\ DOMAIN resets' = DOMAIN resets
           /\ \A l \in DOMAIN resets :
                /\ resets'[l].used = resets[l].used /\ resets'[l].revoked = resets[l].revoked
                /\ resets'[l].uses = resets[l].uses
                /\ resets'[l].readers =
                     IF l = k /\ resets[l].readers <= P!Cardinality(P!Reading(l))
                     THEN resets[l].readers + 1 ELSE resets[l].readers
<1>1. PICK k \in P!Live :
        /\ pCall' = [pCall EXCEPT ![r] = [at |-> "write", link |-> k]]
        /\ resets' = [resets EXCEPT ![k].readers =
                        IF @ <= P!Cardinality(P!Reading(k)) THEN @ + 1 ELSE @]
  BY DEF P!ResetPassword, P!Goes
<1>2. k \in DOMAIN resets /\ ~resets[k].used /\ resets \in Seq(LinkRow)
  BY DEF P!Live, PasswordTypeOK
<1> DEFINE row == resets[k]
<1> DEFINE n == IF row.readers <= P!Cardinality(P!Reading(k)) THEN row.readers + 1 ELSE row.readers
<1> DEFINE new == [row EXCEPT !.readers = n]
<1>3. row \in LinkRow
  BY <1>2, ElementOfSeq
<1>4. n \in Nat
  BY <1>3 DEF LinkRow
<1>5. resets' = [resets EXCEPT ![k] = new]
  BY <1>1, <1>2
<1> HIDE DEF n, row
<1>6. /\ new \in LinkRow /\ new.used = row.used /\ new.revoked = row.revoked
      /\ new.uses = row.uses /\ new.readers = n
  BY <1>3, <1>4 DEF LinkRow
<1> HIDE DEF new
<1>7. /\ resets' \in Seq(LinkRow) /\ DOMAIN resets' = DOMAIN resets
      /\ resets'[k] = new /\ \A l \in DOMAIN resets : l # k => resets'[l] = resets[l]
  BY <1>2, <1>5, <1>6
<1>8. \A l \in DOMAIN resets :
        /\ resets'[l].used = resets[l].used /\ resets'[l].revoked = resets[l].revoked
        /\ resets'[l].uses = resets[l].uses
        /\ resets'[l].readers = IF l = k /\ resets[l].readers <= P!Cardinality(P!Reading(l))
                                THEN resets[l].readers + 1 ELSE resets[l].readers
  BY <1>6, <1>7 DEF row, n
<1> QED BY <1>1, <1>2, <1>7, <1>8

\* The write uses its link up.
LEMMA WriteRows ==
  ASSUME PasswordTypeOK, NEW r \in Requests, P!WritePassword(r)
  PROVE  LET k == pCall[r].link
         IN  /\ k \in DOMAIN resets
             /\ resets' \in Seq(LinkRow) /\ DOMAIN resets' = DOMAIN resets
             /\ \A l \in DOMAIN resets : l # k => resets'[l] = resets[l]
             /\ resets'[k].used /\ resets'[k].uses = resets[k].uses + 1
             /\ resets'[k].readers = resets[k].readers
<1> DEFINE k == pCall[r].link
<1> DEFINE row == resets[k]
<1> DEFINE n == row.uses + 1
<1> DEFINE new == [row EXCEPT !.used = TRUE, !.uses = n]
<1>1. k \in DOMAIN resets /\ resets \in Seq(LinkRow)
  BY DEF P!WritePassword, PasswordTypeOK, PasswordCallOK
<1>2. row \in LinkRow
  BY <1>1, ElementOfSeq
<1>3. resets' = [resets EXCEPT ![k] = new]
  BY <1>1 DEF P!WritePassword
<1>6. n \in Nat
  BY <1>2 DEF LinkRow
<1> HIDE DEF row, k, n
<1>4. new \in LinkRow /\ new.used /\ new.uses = n /\ new.readers = row.readers
  BY <1>2, <1>6 DEF LinkRow
<1> HIDE DEF new
<1>5. /\ resets' \in Seq(LinkRow) /\ DOMAIN resets' = DOMAIN resets
      /\ resets'[k] = new /\ \A l \in DOMAIN resets : l # k => resets'[l] = resets[l]
  BY <1>1, <1>3, <1>4
<1> QED BY <1>1, <1>4, <1>5 DEF k, row, n

LEMMA LinksKept == PasswordTypeOK /\ [P!Next]_(P!vars) => LinksStay
<1> SUFFICES ASSUME PasswordTypeOK, [P!Next]_(P!vars) PROVE LinksStay
  OBVIOUS
<1> USE DEF LinksStay
<1>1. CASE UNCHANGED resets
  BY <1>1 DEF PasswordTypeOK
<1>2. ASSUME NEW r \in Requests, P!RevokeLinks(r) PROVE LinksStay
  BY <1>2, RevokeRows
<1>3. ASSUME NEW r \in Requests, P!InsertLink(r) PROVE LinksStay
  BY <1>3, InsertRows
<1>4. ASSUME NEW k \in DOMAIN resets, P!ExpireLink(k) PROVE LinksStay
  BY <1>4, ExpireRows
<1>5. ASSUME NEW r \in Requests, P!ResetPassword(r) PROVE LinksStay
  BY <1>5, ReadRows
<1>6. ASSUME NEW r \in Requests, P!WritePassword(r) PROVE LinksStay
  BY <1>6, WriteRows
<1> QED
  BY <1>1, <1>2, <1>3, <1>4, <1>5, <1>6
     DEF P!Next, P!vars, P!Login, P!SignRefreshToken, P!ForgotPassword, P!UpdateUserStatus,
         P!SetStatus, P!EndSessions, P!Fail

\* A step that leaves every session and password alone, and ends no revocation.
LEMMA SessionsQuiet ==
  ASSUME SessionInv, NEW r \in Requests, NEW next, pCall' = [pCall EXCEPT ![r] = next],
         pCall[r].at # "endSessions", next.at \notin {"sign", "endSessions"},
         UNCHANGED <<status, password, sessions>>
  PROVE  LoginsKnown' /\ OldSessionsEnd'
<1>1. pCall'[r] = next /\ \A q \in Requests : q # r => pCall'[q] = pCall[q]
  BY DEF SessionInv, PasswordTypeOK, PasswordCallOK
<1>2. Ending => Ending'
  BY <1>1 DEF Ending
<1> QED BY <1>1, <1>2
        DEF SessionInv, LoginsKnown, OldSessionsEnd, P!OldSessionsEnd, P!Outdated, Ending

\* The revocation reaches every session there is and marks every login under way; so does,
\* as missed, one that is cut short.
LEMMA SessionsEnded ==
  ASSUME SessionInv, NEW r \in Requests, P!EndSessions(r) \/ (P!Fail(r) /\ pCall[r].at = "endSessions")
  PROVE  /\ sessions' \in Seq(SessionRow) /\ PasswordCallOK'
         /\ LoginsKnown' /\ OldSessionsEnd'
<1>1. /\ \/ sessions' = [s \in DOMAIN sessions |-> [sessions[s] EXCEPT !.revoked = TRUE]]
         \/ sessions' = [s \in DOMAIN sessions |-> [sessions[s] EXCEPT !.missed = TRUE]]
      /\ pCall' = [s \in Requests |->
                     IF s = r THEN P!Idle
                     ELSE IF pCall[s].at = "sign" THEN [pCall[s] EXCEPT !.missed = TRUE]
                     ELSE pCall[s]]
      /\ UNCHANGED <<status, password, resets, crowd>>
  BY DEF P!EndSessions, P!Fail
<1>2. ASSUME NEW s \in DOMAIN sessions
      PROVE  sessions'[s] \in SessionRow /\ (sessions'[s].revoked \/ sessions'[s].missed)
  <2>1. sessions[s] \in SessionRow
    BY ElementOfSeq DEF SessionInv, PasswordTypeOK
  <2>2. \/ sessions'[s] = [sessions[s] EXCEPT !.revoked = TRUE]
        \/ sessions'[s] = [sessions[s] EXCEPT !.missed = TRUE]
    BY <1>1
  <2> QED BY <2>1, <2>2 DEF SessionRow
<1>3. sessions' \in Seq(SessionRow) /\ DOMAIN sessions' = DOMAIN sessions
  <2>1. sessions' = [s \in DOMAIN sessions |-> sessions'[s]]
    BY <1>1
  <2> QED BY <1>2, <2>1, RewrittenSeq DEF SessionInv, PasswordTypeOK
<1>4. ASSUME NEW q \in Requests
      PROVE  /\ pCall'[q].at = "sign" => pCall'[q] \in LoginCall /\ pCall'[q].missed
             /\ pCall'[q].at = "write" => pCall'[q].link \in DOMAIN resets
             /\ pCall'[q].at = "setStatus" => pCall'[q].status \in P!Statuses
  <2>1. CASE q = r
    BY <1>1, <2>1 DEF P!Idle
  <2>2. CASE q # r /\ pCall[q].at = "sign"
    <3>1. pCall'[q] = [pCall[q] EXCEPT !.missed = TRUE]
      BY <1>1, <2>2
    <3>2. pCall[q] \in LoginCall
      BY <2>2 DEF SessionInv, PasswordTypeOK, PasswordCallOK
    <3> QED BY <3>1, <3>2 DEF LoginCall
  <2>3. CASE q # r /\ pCall[q].at # "sign"
    BY <1>1, <2>3 DEF SessionInv, PasswordTypeOK, PasswordCallOK
  <2> QED BY <2>1, <2>2, <2>3
<1>5. PasswordCallOK'
  BY <1>1, <1>4 DEF PasswordCallOK
<1> QED BY <1>2, <1>3, <1>4, <1>5 DEF LoginsKnown, OldSessionsEnd, P!OldSessionsEnd

LEMMA SessionStep == SessionInv /\ [P!Next]_(P!vars) => SessionInv'
<1> SUFFICES ASSUME SessionInv, [P!Next]_(P!vars) PROVE SessionInv'
  OBVIOUS
<1>0. LinksStay
  BY LinksKept DEF SessionInv
<1> DEFINE Goal == /\ status' \in P!Statuses /\ password' \in Nat /\ sessions' \in Seq(SessionRow)
                   /\ PasswordCallOK' /\ crowd' \in Nat
                   /\ LoginsKnown' /\ OldSessionsEnd'
<1> SUFFICES Goal
  BY <1>0 DEF LinksStay, SessionInv, PasswordTypeOK
<1>1. /\ status \in P!Statuses /\ password \in Nat /\ sessions \in Seq(SessionRow)
      /\ PasswordCallOK /\ crowd \in Nat
  BY DEF SessionInv, PasswordTypeOK
\* Requests that neither log in nor end sessions, and leave both alone.
<1>2. ASSUME NEW r \in Requests, UNCHANGED <<status, password, sessions>>, crowd' \in Nat,
             NEW next, pCall' = [pCall EXCEPT ![r] = next],
             pCall[r].at # "endSessions", next.at \notin {"sign", "endSessions"},
             next.at = "write" => next.link \in DOMAIN resets,
             next.at = "setStatus" => next.status \in P!Statuses
      PROVE  Goal
  <2>1. LoginsKnown' /\ OldSessionsEnd'
    BY <1>2, SessionsQuiet
  <2>2. PasswordCallOK'
    BY <1>0, <1>1, <1>2 DEF PasswordCallOK, LinksStay
  <2> QED BY <1>1, <1>2, <2>1, <2>2
<1>3. CASE UNCHANGED P!vars
  BY <1>3 DEF P!vars, SessionInv, PasswordTypeOK, PasswordCallOK, LoginsKnown, OldSessionsEnd,
              P!OldSessionsEnd, P!Outdated, Ending
<1>4. ASSUME NEW k \in DOMAIN resets, P!ExpireLink(k) PROVE Goal
  BY <1>0, <1>1, <1>4
     DEF P!ExpireLink, LinksStay, SessionInv, PasswordCallOK, LoginsKnown, OldSessionsEnd,
         P!OldSessionsEnd, P!Outdated, Ending
<1>5. ASSUME NEW r \in Requests, P!Login(r) PROVE Goal
  <2> DEFINE new == P!LoggingIn
  <2>1. /\ UNCHANGED <<status, password, resets, sessions, crowd>>
        /\ pCall' = [pCall EXCEPT ![r] = new] /\ pCall[r] = P!Idle
    BY <1>5 DEF P!Login, P!Goes
  <2>2. new.at = "sign" /\ new \in LoginCall /\ ~P!Outdated(new)
    BY <1>1, <1>5 DEF P!Login, P!LoggingIn, P!Outdated, LoginCall
  <2> HIDE DEF new
  <2>3. PasswordCallOK'
    BY <1>1, <2>1, <2>2 DEF PasswordCallOK
  <2>4. Ending => Ending'
    BY <1>1, <2>1 DEF Ending, PasswordCallOK, P!Idle
  <2>5. LoginsKnown' /\ OldSessionsEnd'
    BY <1>1, <2>1, <2>4, <2>2
       DEF SessionInv, LoginsKnown, OldSessionsEnd, P!OldSessionsEnd, P!Outdated, PasswordCallOK,
           Ending
  <2> QED BY <1>1, <2>1, <2>3, <2>5
<1>6. ASSUME NEW r \in Requests, P!SignRefreshToken(r) PROVE Goal
  <2> DEFINE new == [password |-> pCall[r].password, banned |-> pCall[r].banned,
                     revoked  |-> FALSE,             missed |-> pCall[r].missed]
  <2>1. /\ UNCHANGED <<status, password, resets, crowd>> /\ pCall[r].at = "sign"
        /\ sessions' = Append(sessions, new) /\ pCall' = [pCall EXCEPT ![r] = P!Idle]
    BY <1>6 DEF P!SignRefreshToken, P!Goes
  <2>2. new \in SessionRow
    BY <1>1, <2>1 DEF PasswordCallOK, LoginCall, SessionRow
  <2>3. Ending => Ending'
    BY <1>1, <2>1 DEF Ending, PasswordCallOK, P!Idle
  <2>4. PasswordCallOK'
    BY <1>1, <2>1 DEF PasswordCallOK, P!Idle
  <2>5. LoginsKnown'
    BY <1>1, <2>1, <2>3 DEF SessionInv, LoginsKnown, P!Outdated, PasswordCallOK, P!Idle
  <2>6. P!Outdated(new) => new.missed \/ Ending
    BY <2>1 DEF SessionInv, LoginsKnown, P!Outdated
  <2>7. new.password = new.password /\ \A s \in DOMAIN sessions' :
          \/ s \in DOMAIN sessions /\ sessions'[s] = sessions[s]
          \/ sessions'[s] = new
    BY <1>1, <2>1
  <2>8. OldSessionsEnd'
    <3> HIDE DEF new
    <3> QED BY <2>1, <2>3, <2>6, <2>7
            DEF SessionInv, OldSessionsEnd, P!OldSessionsEnd, P!Outdated, Ending
  <2>9. sessions' \in Seq(SessionRow)
    BY <1>1, <2>1, <2>2
  <2> QED BY <1>1, <2>1, <2>4, <2>5, <2>8, <2>9
<1>7. ASSUME NEW r \in Requests,
             \/ P!WritePassword(r)
             \/ P!SetStatus(r) /\ pCall[r].status \in {"suspended", "banned"}
      PROVE  Goal
  <2>1. /\ pCall' = [pCall EXCEPT ![r] = [at |-> "endSessions"]]
        /\ UNCHANGED <<sessions, crowd>>
        /\ status' \in P!Statuses /\ password' \in Nat
    BY <1>1, <1>7 DEF P!WritePassword, P!SetStatus, P!Goes, PasswordCallOK
  <2>2. Ending'
    BY <1>1, <2>1 DEF Ending, PasswordCallOK
  <2>3. PasswordCallOK'
    BY <1>0, <1>1, <2>1 DEF PasswordCallOK, LinksStay
  <2> QED BY <1>1, <2>1, <2>2, <2>3 DEF LoginsKnown, OldSessionsEnd, P!OldSessionsEnd, Ending
<1>8. ASSUME NEW r \in Requests, P!SetStatus(r), pCall[r].status \notin {"suspended", "banned"}
      PROVE  Goal
  <2>1. /\ pCall' = [pCall EXCEPT ![r] = P!Idle] /\ status' \in {"active", "deleted"}
        /\ UNCHANGED <<password, resets, sessions, crowd>> /\ pCall[r].at = "setStatus"
    BY <1>1, <1>8 DEF P!SetStatus, P!Goes, PasswordCallOK, P!Statuses
  <2>2. Ending => Ending'
    BY <1>1, <2>1 DEF Ending, PasswordCallOK, P!Idle
  <2>3. PasswordCallOK' /\ LoginsKnown'
    BY <1>1, <2>1, <2>2 DEF SessionInv, PasswordCallOK, LoginsKnown, P!Outdated, P!Idle
  <2>4. OldSessionsEnd'
    BY <2>1, <2>2 DEF SessionInv, OldSessionsEnd, P!OldSessionsEnd, P!Outdated, Ending
  <2> QED BY <1>1, <2>1, <2>3, <2>4 DEF P!Statuses
<1>9. ASSUME NEW r \in Requests, P!EndSessions(r) \/ (P!Fail(r) /\ pCall[r].at = "endSessions")
      PROVE  Goal
  <2>1. UNCHANGED <<status, password, crowd>>
    BY <1>9 DEF P!EndSessions, P!Fail
  <2> QED BY <1>1, <1>9, <2>1, SessionsEnded
<1>10. ASSUME NEW r \in Requests, P!ResetPassword(r) PROVE Goal
  <2>1. PICK k \in DOMAIN resets : pCall' = [pCall EXCEPT ![r] = [at |-> "write", link |-> k]]
    BY <1>10, ReadRows DEF SessionInv
  <2>2. UNCHANGED <<status, password, sessions, crowd>> /\ pCall[r] = P!Idle
    BY <1>10 DEF P!ResetPassword
  <2>3. pCall[r].at # "endSessions"
    BY <2>2 DEF P!Idle
  <2> QED BY <1>1, <1>2, <2>1, <2>2, <2>3
<1>11. ASSUME NEW r \in Requests,
              \/ P!ForgotPassword(r) \/ P!RevokeLinks(r) \/ P!InsertLink(r) \/ P!UpdateUserStatus(r)
              \/ P!Fail(r) /\ pCall[r].at # "endSessions"
       PROVE  Goal
  <2>1. UNCHANGED <<status, password, sessions>> /\ pCall[r].at # "endSessions"
    BY <1>11 DEF P!ForgotPassword, P!RevokeLinks, P!InsertLink, P!UpdateUserStatus, P!Fail, P!Idle
  <2>2. crowd' \in Nat
    BY <1>1, <1>11 DEF P!ForgotPassword, P!RevokeLinks, P!InsertLink, P!UpdateUserStatus, P!Fail
  <2>3. PICK next : /\ pCall' = [pCall EXCEPT ![r] = next]
                    /\ next.at \in {"idle", "revokeLinks", "insertLink", "setStatus"}
                    /\ next.at = "setStatus" => next.status \in P!Statuses
    BY <1>11 DEF P!ForgotPassword, P!RevokeLinks, P!InsertLink, P!UpdateUserStatus, P!Fail, P!Goes,
                 P!Idle
  <2> QED BY <1>2, <2>1, <2>2, <2>3
<1> HIDE DEF Goal
<1>12. ASSUME NEW r \in Requests, P!WritePassword(r) \/ P!SetStatus(r) PROVE Goal
  BY <1>7, <1>8, <1>12
<1>13. ASSUME NEW r \in Requests,
              \/ P!ForgotPassword(r) \/ P!RevokeLinks(r) \/ P!InsertLink(r) \/ P!UpdateUserStatus(r)
              \/ P!EndSessions(r) \/ P!Fail(r)
       PROVE  Goal
  BY <1>9, <1>11, <1>13
<1> QED BY <1>3, <1>4, <1>5, <1>6, <1>10, <1>12, <1>13 DEF P!Next

-----------------------------------------------------------------------------
(* Passwords: how many links are live, and how often one is used.          *)

LinkInv ==
  /\ PasswordTypeOK
  /\ IsFiniteSet(P!Inserting)
  /\ Cardinality(P!Live) + Cardinality(P!Inserting) <= crowd
  /\ \A l \in DOMAIN resets :
       /\ IsFiniteSet(P!Reading(l))
       /\ resets[l].uses + Cardinality(P!Reading(l)) <= resets[l].readers
       /\ resets[l].uses > 0 => resets[l].used

LEMMA PasswordCardinality == \A A : P!Cardinality(A) = Cardinality(A)
  BY DEF P!Cardinality, Cardinality

LEMMA LinkMeans == LinkInv => ResetLinksBounded /\ LinkUseBounded
  BY PasswordCardinality
     DEF LinkInv, ResetLinksBounded, LinkUseBounded, P!ResetLinksBounded, P!LinkUseBounded

LEMMA LiveFinite == PasswordTypeOK => IsFiniteSet(P!Live)
<1> SUFFICES ASSUME PasswordTypeOK PROVE IsFiniteSet(P!Live)
  OBVIOUS
<1>1. IsFiniteSet(1..Len(resets)) /\ DOMAIN resets = 1..Len(resets)
  BY FS_Interval DEF PasswordTypeOK
<1> QED BY <1>1, Fewer DEF P!Live

LEMMA LinkInit == P!Init => LinkInv
<1> SUFFICES ASSUME P!Init PROVE LinkInv
  OBVIOUS
<1>1. PasswordTypeOK
  BY SessionInit DEF SessionInv
<1>2. P!Inserting = {} /\ P!Live = {} /\ DOMAIN resets = {} /\ crowd = 0
  BY DEF P!Init, P!Inserting, P!Live, P!Idle
<1>3. Cardinality({}) = 0 /\ IsFiniteSet({})
  BY FS_EmptySet
<1> QED BY <1>1, <1>2, <1>3 DEF LinkInv

\* The two halves of the bound: of all links, and of one.
LiveCounted == /\ IsFiniteSet(P!Inserting)
               /\ Cardinality(P!Live) + Cardinality(P!Inserting) <= crowd

UseCounted(l) == /\ IsFiniteSet(P!Reading(l))
                 /\ resets[l].uses + Cardinality(P!Reading(l)) <= resets[l].readers
                 /\ resets[l].uses > 0 => resets[l].used

LEMMA LinkParts == LinkInv <=> PasswordTypeOK /\ LiveCounted /\ \A l \in DOMAIN resets : UseCounted(l)
  BY DEF LinkInv, LiveCounted, UseCounted

LEMMA LiveShrinks ==
  ASSUME LinkInv, crowd' = crowd, P!Live' \subseteq P!Live, P!Inserting' \subseteq P!Inserting
  PROVE  LiveCounted'
<1>1. IsFiniteSet(P!Live) /\ LiveCounted /\ crowd \in Nat
  BY LiveFinite, LinkParts DEF PasswordTypeOK
<1>2. /\ Cardinality(P!Live) \in Nat /\ Cardinality(P!Live') \in Nat
      /\ Cardinality(P!Live') <= Cardinality(P!Live)
  BY <1>1, Fewer
<1>3. /\ Cardinality(P!Inserting) \in Nat /\ Cardinality(P!Inserting') \in Nat
      /\ Cardinality(P!Inserting') <= Cardinality(P!Inserting) /\ IsFiniteSet(P!Inserting')
  BY <1>1, Fewer DEF LiveCounted
<1> QED BY <1>1, <1>2, <1>3 DEF LiveCounted

\* A link of which nobody new reads, and whose counts stay.
LEMMA UseShrinks ==
  ASSUME LinkInv, NEW l \in DOMAIN resets, P!Reading(l)' \subseteq P!Reading(l),
         resets'[l].uses = resets[l].uses, resets'[l].readers = resets[l].readers,
         resets[l].used => resets'[l].used
  PROVE  UseCounted(l)'
<1>1. UseCounted(l) /\ resets[l].uses \in Nat /\ resets[l].readers \in Nat
  <2>1. resets[l] \in LinkRow
    BY LinkParts, ElementOfSeq DEF PasswordTypeOK
  <2> QED BY <2>1, LinkParts DEF LinkRow
<1>2. /\ Cardinality(P!Reading(l)) \in Nat /\ Cardinality(P!Reading(l)') \in Nat
      /\ Cardinality(P!Reading(l)') <= Cardinality(P!Reading(l)) /\ IsFiniteSet(P!Reading(l)')
  BY <1>1, Fewer DEF UseCounted
<1> QED BY <1>1, <1>2 DEF UseCounted

\* Once all links are revoked none is live, and the crowd counts the request.
LEMMA RevokeCounted == ASSUME LinkInv, NEW r \in Requests, P!RevokeLinks(r) PROVE LiveCounted'
<1>1. /\ pCall' = [pCall EXCEPT ![r] = [at |-> "insertLink"]] /\ pCall = [q \in Requests |-> pCall[q]]
      /\ crowd' = IF crowd <= Cardinality(P!Inserting) THEN crowd + 1 ELSE crowd
  BY PasswordCardinality DEF P!RevokeLinks, P!Goes, LinkInv, PasswordTypeOK, PasswordCallOK
<1>2. P!Live' = {}
  BY RevokeRows DEF LinkInv, P!Live
<1>3. P!Inserting' \subseteq P!Inserting \cup {r}
  BY <1>1 DEF P!Inserting
<1>4. IsFiniteSet(P!Live) /\ LiveCounted /\ crowd \in Nat
  BY LiveFinite, LinkParts DEF PasswordTypeOK
<1>5. /\ IsFiniteSet(P!Inserting') /\ Cardinality(P!Inserting') \in Nat
      /\ Cardinality(P!Inserting) \in Nat
      /\ Cardinality(P!Inserting') <= Cardinality(P!Inserting) + 1
  BY <1>3, <1>4, OneMore DEF LiveCounted
<1>6. Cardinality(P!Live) \in Nat /\ Cardinality(P!Live') = 0
  BY <1>2, <1>4, FS_EmptySet, FS_CardinalityType
<1> QED BY <1>1, <1>4, <1>5, <1>6 DEF LiveCounted

\* The INSERT turns one request into one live link, which nobody read yet.
LEMMA LinkInsertCounted ==
  ASSUME LinkInv, NEW r \in Requests, P!InsertLink(r)
  PROVE  LiveCounted' /\ \A n \in DOMAIN resets' : n \notin DOMAIN resets => UseCounted(n)'
<1> PICK n : n = Len(resets) + 1
  OBVIOUS
<1>1. /\ pCall' = [pCall EXCEPT ![r] = P!Idle] /\ pCall[r].at = "insertLink" /\ PasswordCallOK
      /\ crowd' = crowd
  BY DEF P!InsertLink, P!Goes, LinkInv, PasswordTypeOK
<1>2. /\ DOMAIN resets' = DOMAIN resets \cup {n} /\ n \notin DOMAIN resets
      /\ \A l \in DOMAIN resets : resets'[l] = resets[l]
      /\ resets'[n].uses = 0 /\ resets'[n].readers = 0 /\ ~resets'[n].used
  BY InsertRows DEF LinkInv
<1>3. P!Live' \subseteq P!Live \cup {n}
  BY <1>2 DEF P!Live
<1>4. r \in P!Inserting /\ P!Inserting' \subseteq P!Inserting \ {r}
  BY <1>1 DEF P!Inserting, P!Idle, PasswordCallOK
<1>5. IsFiniteSet(P!Live) /\ LiveCounted /\ crowd \in Nat
  BY LiveFinite, LinkParts DEF PasswordTypeOK
<1>6. /\ Cardinality(P!Live) \in Nat /\ Cardinality(P!Live') \in Nat
      /\ Cardinality(P!Live') <= Cardinality(P!Live) + 1
  BY <1>3, <1>5, OneMore
<1>7. /\ Cardinality(P!Inserting) \in Nat /\ Cardinality(P!Inserting') \in Nat
      /\ Cardinality(P!Inserting') + 1 <= Cardinality(P!Inserting) /\ IsFiniteSet(P!Inserting')
  BY <1>4, <1>5, OneLess DEF LiveCounted
<1>8. LiveCounted'
  BY <1>1, <1>5, <1>6, <1>7 DEF LiveCounted
<1>9. P!Reading(n)' = {}
  BY <1>1, <1>2 DEF P!Reading, P!Idle, PasswordCallOK
<1>10. UseCounted(n)'
  <2>1. Cardinality({}) = 0 /\ IsFiniteSet({})
    BY FS_EmptySet
  <2>2. IsFiniteSet(P!Reading(n)') /\ Cardinality(P!Reading(n)') = 0
    BY <1>9, <2>1
  <2> QED BY <1>2, <2>2 DEF UseCounted
<1> QED BY <1>2, <1>8, <1>10

\* A reset that reads the link as good is one more reader of it, of which the link knows.
LEMMA ReadCounted ==
  ASSUME LinkInv, NEW r \in Requests, P!ResetPassword(r)
  PROVE  LiveCounted' /\ \A l \in DOMAIN resets' : UseCounted(l)'
<1>1. PICK k \in P!Live :
        /\ k \in DOMAIN resets /\ ~resets[k].used
        /\ pCall' = [pCall EXCEPT ![r] = [at |-> "write", link |-> k]]
        /\ resets' \in Seq(LinkRow) /\ DOMAIN resets' = DOMAIN resets
        /\ \A l \in DOMAIN resets :
             /\ resets'[l].used = resets[l].used /\ resets'[l].revoked = resets[l].revoked
             /\ resets'[l].uses = resets[l].uses
             /\ resets'[l].readers =
                  IF l = k /\ resets[l].readers <= Cardinality(P!Reading(l))
                  THEN resets[l].readers + 1 ELSE resets[l].readers
  BY ReadRows, PasswordCardinality DEF LinkInv
<1>2. crowd' = crowd /\ PasswordCallOK
  BY DEF P!ResetPassword, LinkInv, PasswordTypeOK
<1>3. P!Live' \subseteq P!Live /\ P!Inserting' \subseteq P!Inserting
  BY <1>1, <1>2 DEF P!Live, P!Inserting, PasswordCallOK
<1>4. ASSUME NEW l \in DOMAIN resets, l # k PROVE UseCounted(l)'
  <2>1. P!Reading(l)' \subseteq P!Reading(l)
    BY <1>1, <1>2, <1>4 DEF P!Reading, PasswordCallOK
  <2> QED BY <1>1, <1>4, <2>1, UseShrinks
<1>5. UseCounted(k)'
  <2>1. P!Reading(k)' \subseteq P!Reading(k) \cup {r}
    BY <1>1, <1>2 DEF P!Reading, PasswordCallOK
  <2>2. resets[k] \in LinkRow
    BY <1>1, ElementOfSeq, LinkParts DEF PasswordTypeOK
  <2>3. /\ UseCounted(k) /\ resets[k].uses = 0 /\ resets[k].readers \in Nat
    BY <1>1, <2>2, LinkParts DEF UseCounted, LinkRow
  <2>4. /\ IsFiniteSet(P!Reading(k)') /\ Cardinality(P!Reading(k)') \in Nat
        /\ Cardinality(P!Reading(k)) \in Nat
        /\ Cardinality(P!Reading(k)') <= Cardinality(P!Reading(k)) + 1
    BY <2>1, <2>3, OneMore DEF UseCounted
  <2>5. /\ resets'[k].uses = 0
        /\ resets'[k].readers = IF resets[k].readers <= Cardinality(P!Reading(k))
                                THEN resets[k].readers + 1 ELSE resets[k].readers
    BY <1>1, <2>3
  <2> QED BY <2>3, <2>4, <2>5 DEF UseCounted
<1>6. LiveCounted'
  BY <1>2, <1>3, LiveShrinks
<1> QED BY <1>1, <1>4, <1>5, <1>6

\* A reader turns into a use, and the link is used.
LEMMA WriteCounted ==
  ASSUME LinkInv, NEW r \in Requests, P!WritePassword(r)
  PROVE  LiveCounted' /\ \A l \in DOMAIN resets' : UseCounted(l)'
<1> PICK k : k = pCall[r].link
  OBVIOUS
<1>1. /\ k \in DOMAIN resets
      /\ resets' \in Seq(LinkRow) /\ DOMAIN resets' = DOMAIN resets
      /\ \A l \in DOMAIN resets : l # k => resets'[l] = resets[l]
      /\ resets'[k].used /\ resets'[k].uses = resets[k].uses + 1
      /\ resets'[k].readers = resets[k].readers
  BY WriteRows DEF LinkInv
<1>2. /\ pCall' = [pCall EXCEPT ![r] = [at |-> "endSessions"]] /\ pCall[r].at = "write"
      /\ crowd' = crowd /\ PasswordCallOK
  BY DEF P!WritePassword, P!Goes, LinkInv, PasswordTypeOK
<1>3. r \in P!Reading(k) /\ P!Reading(k)' \subseteq P!Reading(k) \ {r}
  BY <1>2 DEF P!Reading, PasswordCallOK
<1>4. \A l : P!Reading(l)' \subseteq P!Reading(l)
  BY <1>2 DEF P!Reading, PasswordCallOK
<1>5. P!Live' \subseteq P!Live /\ P!Inserting' \subseteq P!Inserting
  BY <1>1, <1>2 DEF P!Live, P!Inserting, PasswordCallOK
<1>6. UseCounted(k)'
  <2>1. resets[k] \in LinkRow
    BY <1>1, ElementOfSeq, LinkParts DEF PasswordTypeOK
  <2>2. UseCounted(k) /\ resets[k].uses \in Nat /\ resets[k].readers \in Nat
    BY <1>1, <2>1, LinkParts DEF LinkRow
  <2>3. /\ IsFiniteSet(P!Reading(k)') /\ Cardinality(P!Reading(k)') \in Nat
        /\ Cardinality(P!Reading(k)) \in Nat
        /\ Cardinality(P!Reading(k)') + 1 <= Cardinality(P!Reading(k))
    BY <1>3, <2>2, OneLess DEF UseCounted
  <2> QED BY <1>1, <2>2, <2>3 DEF UseCounted
<1>7. ASSUME NEW l \in DOMAIN resets, l # k PROVE UseCounted(l)'
  BY <1>1, <1>4, <1>7, UseShrinks
<1>8. LiveCounted'
  BY <1>2, <1>5, LiveShrinks
<1> QED BY <1>1, <1>6, <1>7, <1>8

\* Calls under way and links are typed after every step, as for the sessions.
LEMMA PasswordTypeKept == SessionInv /\ [P!Next]_(P!vars) => PasswordTypeOK'
  BY SessionStep DEF SessionInv

LEMMA LinkStep == SessionInv /\ LinkInv /\ [P!Next]_(P!vars) => LinkInv'
<1> SUFFICES ASSUME SessionInv, LinkInv, [P!Next]_(P!vars)
             PROVE  LiveCounted' /\ \A l \in DOMAIN resets' : UseCounted(l)'
  BY PasswordTypeKept DEF LinkInv, LiveCounted, UseCounted
<1> DEFINE Goal == LiveCounted' /\ \A l \in DOMAIN resets' : UseCounted(l)'
\* Steps that start neither an INSERT nor a reset, and keep the rows.
<1>1. ASSUME crowd' = crowd, DOMAIN resets' = DOMAIN resets,
             \A l \in DOMAIN resets :
               /\ resets'[l].used = resets[l].used /\ resets'[l].revoked = resets[l].revoked
               /\ resets'[l].uses = resets[l].uses /\ resets'[l].readers = resets[l].readers,
             P!Inserting' \subseteq P!Inserting,
             \A l \in DOMAIN resets : P!Reading(l)' \subseteq P!Reading(l)
      PROVE  Goal
  <2>1. P!Live' \subseteq P!Live
    BY <1>1 DEF P!Live
  <2>2. LiveCounted'
    BY <1>1, <2>1, LiveShrinks
  <2>3. \A l \in DOMAIN resets : UseCounted(l)'
    BY <1>1, UseShrinks
  <2> QED BY <1>1, <2>2, <2>3
<1>2. CASE UNCHANGED P!vars
  BY <1>1, <1>2 DEF P!vars, P!Inserting, P!Reading
<1>3. ASSUME NEW k \in DOMAIN resets, P!ExpireLink(k) PROVE Goal
  <2>1. P!Inserting' = P!Inserting /\ (\A l \in DOMAIN resets : P!Reading(l)' = P!Reading(l)) /\ crowd' = crowd
    BY <1>3 DEF P!ExpireLink, P!Inserting, P!Reading
  <2> QED BY <1>1, <1>3, <2>1, ExpireRows DEF LinkInv
<1>4. ASSUME NEW r \in Requests, P!RevokeLinks(r) PROVE Goal
  <2>1. /\ DOMAIN resets' = DOMAIN resets
        /\ \A l \in DOMAIN resets :
             resets'[l].revoked /\ resets'[l].used = resets[l].used
             /\ resets'[l].uses = resets[l].uses /\ resets'[l].readers = resets[l].readers
    BY <1>4, RevokeRows DEF LinkInv
  <2>2. \A l \in DOMAIN resets : P!Reading(l)' \subseteq P!Reading(l)
    BY <1>4 DEF P!RevokeLinks, P!Goes, P!Reading, LinkInv, PasswordTypeOK, PasswordCallOK
  <2>3. \A l \in DOMAIN resets : UseCounted(l)'
    BY <2>1, <2>2, UseShrinks
  <2> QED BY <1>4, <2>1, <2>3, RevokeCounted
<1>5. ASSUME NEW r \in Requests, P!InsertLink(r) PROVE Goal
  <2>1. \A l \in DOMAIN resets : resets'[l] = resets[l]
    BY <1>5, InsertRows DEF LinkInv
  <2>2. LiveCounted' /\ \A n \in DOMAIN resets' : n \notin DOMAIN resets => UseCounted(n)'
    BY <1>5, LinkInsertCounted
  <2>3. \A l \in DOMAIN resets : P!Reading(l)' \subseteq P!Reading(l)
    BY <1>5 DEF P!InsertLink, P!Goes, P!Idle, P!Reading, LinkInv, PasswordTypeOK, PasswordCallOK
  <2>4. \A l \in DOMAIN resets : UseCounted(l)'
    BY <2>1, <2>3, UseShrinks
  <2> QED BY <2>1, <2>2, <2>4
<1>6. ASSUME NEW r \in Requests, P!ResetPassword(r) \/ P!WritePassword(r) PROVE Goal
  BY <1>6, ReadCounted, WriteCounted
<1>7. ASSUME NEW r \in Requests,
             \/ P!Login(r) \/ P!SignRefreshToken(r) \/ P!ForgotPassword(r)
             \/ P!UpdateUserStatus(r) \/ P!SetStatus(r) \/ P!EndSessions(r) \/ P!Fail(r)
      PROVE  Goal
  <2>1. UNCHANGED <<resets, crowd>>
    BY <1>7 DEF P!Login, P!SignRefreshToken, P!ForgotPassword, P!UpdateUserStatus, P!SetStatus,
                P!EndSessions, P!Fail
  <2>2. \A q \in Requests : \/ pCall'[q] = pCall[q]
                            \/ pCall'[q].at \notin {"insertLink", "write"}
    <3>1. CASE \E next : pCall' = [pCall EXCEPT ![r] = next] /\ next.at \notin {"insertLink", "write"}
      BY <3>1 DEF LinkInv, PasswordTypeOK, PasswordCallOK
    <3>2. CASE pCall' = [s \in Requests |->
                           IF s = r THEN P!Idle
                           ELSE IF pCall[s].at = "sign" THEN [pCall[s] EXCEPT !.missed = TRUE]
                           ELSE pCall[s]]
      <4> SUFFICES ASSUME NEW q \in Requests, pCall'[q] # pCall[q]
                   PROVE  pCall'[q].at \notin {"insertLink", "write"}
        OBVIOUS
      <4>1. CASE q = r
        BY <3>2, <4>1 DEF P!Idle
      <4>2. CASE q # r /\ pCall[q].at = "sign"
        <5>1. pCall'[q] = [pCall[q] EXCEPT !.missed = TRUE]
          BY <3>2, <4>2
        <5>2. pCall[q] \in LoginCall
          BY <4>2 DEF LinkInv, PasswordTypeOK, PasswordCallOK
        <5> QED BY <5>1, <5>2 DEF LoginCall
      <4> QED BY <3>2, <4>1, <4>2
    <3> QED BY <1>7, <3>1, <3>2
            DEF P!Login, P!LoggingIn, P!SignRefreshToken, P!ForgotPassword, P!UpdateUserStatus,
                P!SetStatus, P!EndSessions, P!Fail, P!Goes, P!Idle
  <2>3. P!Inserting' \subseteq P!Inserting /\ \A l \in DOMAIN resets : P!Reading(l)' \subseteq P!Reading(l)
    BY <2>2 DEF P!Inserting, P!Reading
  <2> QED BY <1>1, <2>1, <2>3
<1> HIDE DEF Goal
<1> QED BY <1>2, <1>3, <1>4, <1>5, <1>6, <1>7 DEF P!Next, Goal

-----------------------------------------------------------------------------
(* The composition the runs check.                                         *)

\* A behaviour is about one component, so each takes its own step or none.
LEMMA OneComponentSteps ==
  AccountsNext \/ UNCHANGED accountVars =>
    [Next]_vars /\ [P!Next]_(P!vars) /\ [L!Next]_(L!vars)
  BY DEF AccountsNext, accountVars, aVars, pVars, lVars, vars, P!vars, L!vars

LEMMA ComponentInits == AccountsInit => Init /\ P!Init /\ L!Init
  BY DEF AccountsInit

\* A verified phone is one whose code was presented.  (auth.service.ts:306-323)
THEOREM PhoneProved == AccountsSpec => []PhoneIsProved
<1>1. AccountsInit => PhoneInv
  BY ComponentInits, PhoneInit
<1>2. PhoneInv /\ [AccountsNext]_accountVars => PhoneInv'
  BY OneComponentSteps, PhoneStep
<1>3. PhoneInv => PhoneIsProved
  BY DEF PhoneInv
<1> QED BY <1>1, <1>2, <1>3, PTL DEF AccountsSpec

\* The code sent last works until it is used or expires, unless a verification was between
\* its GET and its DEL when the code was sent.  (auth.service.ts:298, :318)
THEOREM CodeWorks == AccountsSpec => []CodeWorksUntilUsed
<1>1. AccountsInit => PhoneInv
  BY ComponentInits, PhoneInit
<1>2. PhoneInv /\ [AccountsNext]_accountVars => PhoneInv'
  BY OneComponentSteps, PhoneStep
<1>3. PhoneInv => CodeWorksUntilUsed
  BY DEF PhoneInv
<1> QED BY <1>1, <1>2, <1>3, PTL DEF AccountsSpec

\* A session that a reset, a suspension or a ban has outdated is revoked, or is about to be, or its
\* login was under way or its revocation cut short.  (auth.service.ts:401, admin.service.ts:66-76)
THEOREM OutdatedSessionsEnd == AccountsSpec => []OldSessionsEnd
<1>1. AccountsInit => SessionInv
  BY ComponentInits, SessionInit
<1>2. SessionInv /\ [AccountsNext]_accountVars => SessionInv'
  BY OneComponentSteps, SessionStep
<1>3. SessionInv => OldSessionsEnd
  BY DEF SessionInv
<1> QED BY <1>1, <1>2, <1>3, PTL DEF AccountsSpec

\* There are never more acceptable reset links, or INSERTs of one to come, than requests
\* once ran between the revocation and the INSERT side by side.  (auth.service.ts:338-348)
THEOREM LinksAreBounded == AccountsSpec => []ResetLinksBounded
<1>1. AccountsInit => SessionInv /\ LinkInv
  BY ComponentInits, SessionInit, LinkInit
<1>2. SessionInv /\ LinkInv /\ [AccountsNext]_accountVars => (SessionInv /\ LinkInv)'
  BY OneComponentSteps, SessionStep, LinkStep
<1>3. SessionInv /\ LinkInv => ResetLinksBounded
  BY LinkMeans
<1> QED BY <1>1, <1>2, <1>3, PTL DEF AccountsSpec

\* A link changes the password at most once for every reset that had read it as good at the
\* same time, and is used from the first change on.  (auth.service.ts:379-398)
THEOREM LinkUseIsBounded == AccountsSpec => []LinkUseBounded
<1>1. AccountsInit => SessionInv /\ LinkInv
  BY ComponentInits, SessionInit, LinkInit
<1>2. SessionInv /\ LinkInv /\ [AccountsNext]_accountVars => (SessionInv /\ LinkInv)'
  BY OneComponentSteps, SessionStep, LinkStep
<1>3. SessionInv /\ LinkInv => LinkUseBounded
  BY LinkMeans
<1> QED BY <1>1, <1>2, <1>3, PTL DEF AccountsSpec

\* For every limit, window and set of requests: a key lets no more than the limit through
\* while it lives, and only an accident leaves it without an expiry.  (redis.ts:41-50)
THEOREM LimitIsHeld == AccountsSpec => []LimitHolds
<1>1. AccountsInit => LimitInv
  BY ComponentInits, LimitInit, AccountAssumption
<1>2. LimitInv /\ [AccountsNext]_accountVars => LimitInv'
  BY OneComponentSteps, LimitStep, AccountAssumption
<1>3. LimitInv => LimitHolds
  BY DEF LimitInv, LimitHolds
<1> QED BY <1>1, <1>2, <1>3, PTL DEF AccountsSpec


=============================================================================
