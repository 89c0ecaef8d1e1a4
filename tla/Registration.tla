----------------------------- MODULE Registration -----------------------------
(***************************************************************************)
(* One e-mail address from register to a verified e-mail and phone:        *)
(* auth.service.ts over user.repo.ts, auth_tokens and the otp: keys of     *)
(* Redis.                                                                  *)
(*                                                                         *)
(* Passwords and sessions are in Passwords.  A one-time code is a number   *)
(* in the order of sending; that two codes may be equal is left out.       *)
(***************************************************************************)
EXTENDS Integers, Sequences

CONSTANTS Phones, NoPhone,  \* telephone numbers
          Requests,         \* calls under way
          MaxLinks,         \* bound on the verification links sent
          MaxCodes          \* bound on the one-time codes sent

ASSUME PhoneAssumption == NoPhone \notin Phones

VARIABLES dev,     \* NODE_ENV is development
          user,    \* the account of the address; NoUser before it is committed
          links,   \* auth_tokens of type email_verify, in the order of the INSERTs
          stored,  \* otp:<user>:<phone>; 0 when the key is missing
          sentTo,  \* history: the phone each code was sent to
          proved,  \* history: phones of which the code was presented
          newest,  \* history: the code a phone should still accept; 0 for none
          call     \* what each request is doing

vars == <<dev, user, links, stored, sentTo, proved, newest, call>>

NoUser == [exists |-> FALSE]
Idle   == [at |-> "idle"]

TypeOK ==
  /\ dev \in BOOLEAN
  /\ user \in {NoUser} \cup
       [exists : {TRUE}, email : BOOLEAN, phone : Phones \cup {NoPhone}, phoneVerified : BOOLEAN]
  /\ links \in Seq([used : BOOLEAN, expired : BOOLEAN])
  /\ sentTo \in Seq(Phones)
  /\ stored \in [Phones -> 0..Len(sentTo)]
  /\ newest \in [Phones -> 0..Len(sentTo)]
  /\ proved \subseteq Phones
  /\ call \in [Requests -> {Idle}
        \cup [at : {"createUser", "createProfile"}, phone : Phones \cup {NoPhone}]
        \cup [at : {"autoVerify", "sendLink"}]
        \cup [at : {"confirm"}, link : DOMAIN links]
        \cup [at : {"forget", "update"}, phone : Phones]]

Init == /\ dev \in BOOLEAN
        /\ user = NoUser
        /\ links = <<>> /\ sentTo = <<>>
        /\ stored = [p \in Phones |-> 0]
        /\ newest = [p \in Phones |-> 0]
        /\ proved = {}
        /\ call = [r \in Requests |-> Idle]

Goes(r, next) == call' = [call EXCEPT ![r] = next]

-----------------------------------------------------------------------------
(* register.                                                               *)

\* findByEmail answers nobody.
Register(r) ==
  /\ call[r] = Idle /\ ~user.exists
  /\ \E p \in Phones \cup {NoPhone} : Goes(r, [at |-> "createUser", phone |-> p])
  /\ UNCHANGED <<dev, user, links, stored, sentTo, proved, newest>>

\* The INSERT waits for one of the same address to end, and fails if that committed.
CreateUser(r) ==
  /\ call[r].at = "createUser"
  /\ \A s \in Requests : call[s].at # "createProfile"
  /\ Goes(r, IF user.exists THEN Idle ELSE [at |-> "createProfile", phone |-> call[r].phone])
  /\ UNCHANGED <<dev, user, links, stored, sentTo, proved, newest>>

\* The profile of the role, and COMMIT.
CreateProfile(r) ==
  /\ call[r].at = "createProfile"
  /\ user' = [exists |-> TRUE, email |-> FALSE, phone |-> call[r].phone, phoneVerified |-> FALSE]
  /\ Goes(r, [at |-> IF dev THEN "autoVerify" ELSE "sendLink"])
  /\ UNCHANGED <<dev, links, stored, sentTo, proved, newest>>

AutoVerify(r) ==
  /\ call[r].at = "autoVerify"
  /\ user' = [user EXCEPT !.email = TRUE]
  /\ Goes(r, Idle)
  /\ UNCHANGED <<dev, links, stored, sentTo, proved, newest>>

-----------------------------------------------------------------------------
(* The e-mail.                                                             *)

\* resendVerification: a user who is verified, or has a link, gets another.
ResendVerification(r) ==
  /\ call[r] = Idle /\ user.exists
  /\ Goes(r, [at |-> "sendLink"])
  /\ UNCHANGED <<dev, user, links, stored, sentTo, proved, newest>>

\* sendEmailVerification; links sent before stay good.
SendEmailVerification(r) ==
  /\ call[r].at = "sendLink" /\ Len(links) < MaxLinks
  /\ links' = Append(links, [used |-> FALSE, expired |-> FALSE])
  /\ Goes(r, Idle)
  /\ UNCHANGED <<dev, user, stored, sentTo, proved, newest>>

\* The SELECT and its checks.
VerifyEmail(r) ==
  /\ call[r] = Idle
  /\ \E l \in DOMAIN links :
       /\ ~links[l].used /\ ~links[l].expired
       /\ Goes(r, [at |-> "confirm", link |-> l])
  /\ UNCHANGED <<dev, user, links, stored, sentTo, proved, newest>>

\* The transaction of the two UPDATEs.
ConfirmEmail(r) ==
  /\ call[r].at = "confirm"
  /\ user' = [user EXCEPT !.email = TRUE]
  /\ links' = [links EXCEPT ![call[r].link].used = TRUE]
  /\ Goes(r, Idle)
  /\ UNCHANGED <<dev, stored, sentTo, proved, newest>>

ExpireLink(l) ==
  /\ l \in DOMAIN links /\ ~links[l].expired
  /\ links' = [links EXCEPT ![l].expired = TRUE]
  /\ UNCHANGED <<dev, user, stored, sentTo, proved, newest, call>>

-----------------------------------------------------------------------------
(* The telephone.                                                          *)

Forgetting(p) == \E s \in Requests : call[s].at = "forget" /\ call[s].phone = p

\* Mutant: SET ... NX, so the code sent first stays.
RequestPhoneOTPKeeping(r) ==
  /\ call[r] = Idle /\ user.exists /\ Len(sentTo) < MaxCodes
  /\ \E p \in Phones :
       /\ sentTo' = Append(sentTo, p)
       /\ stored' = IF stored[p] = 0 THEN [stored EXCEPT ![p] = Len(sentTo) + 1] ELSE stored
       /\ newest' = [newest EXCEPT ![p] = IF Forgetting(p) THEN 0 ELSE Len(sentTo) + 1]
  /\ UNCHANGED <<dev, user, links, proved, call>>

\* One SET, over the code sent before.
RequestPhoneOTP(r) ==
  /\ call[r] = Idle /\ user.exists /\ Len(sentTo) < MaxCodes
  /\ \E p \in Phones :
       /\ sentTo' = Append(sentTo, p)
       /\ stored' = [stored EXCEPT ![p] = Len(sentTo) + 1]
       /\ newest' = [newest EXCEPT ![p] = IF Forgetting(p) THEN 0 ELSE Len(sentTo) + 1]
  /\ UNCHANGED <<dev, user, links, proved, call>>

\* GET, and the comparison with the code presented.
VerifyPhoneOTP(r) ==
  /\ call[r] = Idle
  /\ \E p \in Phones, c \in DOMAIN sentTo :
       /\ stored[p] = c
       /\ Goes(r, [at |-> "forget", phone |-> p])
       /\ proved' = proved \cup {sentTo[c]}
       /\ newest' = [newest EXCEPT ![p] = 0]
  /\ UNCHANGED <<dev, user, links, stored, sentTo>>

\* DEL, whatever code the key holds by now.
ForgetCode(r) ==
  /\ call[r].at = "forget"
  /\ stored' = [stored EXCEPT ![call[r].phone] = 0]
  /\ Goes(r, [at |-> "update", phone |-> call[r].phone])
  /\ UNCHANGED <<dev, user, links, sentTo, proved, newest>>

\* Mutant: updateUser without the phone.
UpdateFlagOnly(r) ==
  /\ call[r].at = "update"
  /\ user' = [user EXCEPT !.phoneVerified = TRUE]
  /\ Goes(r, Idle)
  /\ UNCHANGED <<dev, links, stored, sentTo, proved, newest>>

UpdateUser(r) ==
  /\ call[r].at = "update"
  /\ user' = [user EXCEPT !.phoneVerified = TRUE, !.phone = call[r].phone]
  /\ Goes(r, Idle)
  /\ UNCHANGED <<dev, links, stored, sentTo, proved, newest>>

ExpireCode(p) ==
  /\ stored[p] # 0
  /\ stored' = [stored EXCEPT ![p] = 0]
  /\ newest' = [newest EXCEPT ![p] = 0]
  /\ UNCHANGED <<dev, user, links, sentTo, proved, call>>

\* A statement fails or the process dies: an open transaction rolls back.
Fail(r) ==
  /\ call[r] # Idle
  /\ Goes(r, Idle)
  /\ UNCHANGED <<dev, user, links, stored, sentTo, proved, newest>>

Next == \/ \E r \in Requests :
             \/ Register(r) \/ CreateUser(r) \/ CreateProfile(r) \/ AutoVerify(r)
             \/ ResendVerification(r) \/ SendEmailVerification(r)
             \/ VerifyEmail(r) \/ ConfirmEmail(r)
             \/ RequestPhoneOTP(r) \/ VerifyPhoneOTP(r) \/ ForgetCode(r) \/ UpdateUser(r)
             \/ Fail(r)
        \/ \E l \in DOMAIN links : ExpireLink(l)
        \/ \E p \in Phones : ExpireCode(p)

Spec == Init /\ [][Next]_vars

-----------------------------------------------------------------------------
\* phone_verified speaks of the number in phone: that number's code was presented,
\* whichever of several verifications writes last and whatever number the user had
\* registered with.  (auth.service.ts:306-323)
PhoneIsProved == user.exists /\ user.phoneVerified => user.phone \in proved

\* The code sent last to a phone is the one accepted until it is used or expires; only a
\* verification that was between its GET and its DEL when the code was sent may have
\* removed it.  (auth.service.ts:298, :318)
CodeWorksUntilUsed == \A p \in Phones : newest[p] # 0 => stored[p] = newest[p]

=============================================================================
