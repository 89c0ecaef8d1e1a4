----------------------------- MODULE ProfileEditor -----------------------------
(***************************************************************************)
(* The form a user edits the own profile in, in the web and the mobile app *)
(* (which differ in what a name is compared with), the three PATCHes its   *)
(* Save sends at once, and the answer to GET /profiles/me that the app     *)
(* keeps for all of its users.                                             *)
(*                                                                         *)
(* A field holds the user it first belonged to, or what kind of text was   *)
(* typed.  Whoever leaves the form waits for the answers to a save.        *)
(***************************************************************************)
EXTENDS Naturals

CONSTANTS Users, None, Blank, \* an empty field
          MaxEdits,           \* bound: how many times a field is edited
          MaxLogins           \* bound: how many times someone signs in

VARIABLES app,       \* "mobile" or "web"
          role,      \* role[u]: "customer" or "provider"
          stored,    \* stored[u]: the rows of users and of the profile
          me,        \* who is signed in
          copy,      \* the user row the session of the app holds
          cache,     \* the answer kept for 'myProfile', and whether it is fresh
          fetch,     \* who asked with the GET under way
          open, form,\* the screen, and what its fields show
          requests,  \* the PATCHes under way
          saving,    \* handleSave waits for them
          awaiting,  \* handleSave waits for the profile it asked for again
          saved, error, \* what the screen says
          submitted, \* history: the fields at the last Save
          outdated,  \* history: what it was compared with and was not stored
          elsewhere, \* history: fields written from another device
          edits, logins

vars == <<app, role, stored, me, copy, cache, fetch, open, form, requests, saving, awaiting,
          saved, error, submitted, outdated, elsewhere, edits, logins>>

screen  == <<form, saved, error>>
history == <<submitted, outdated, elsewhere, edits, logins>>

Names == {"full_name", "display_name"}
RoleFields(r) == IF r = "customer" THEN {"suburb", "postcode", "state"}
                 ELSE {"bio", "business_name", "years", "radius", "abn"}
FieldsOf(u) == Names \cup RoleFields(role[u]) \cup (IF role[u] = "provider" THEN {"available"} ELSE {})

\* What the form sends if it differs from what it knows.
Compared(u) == FieldsOf(u) \cap (Names \cup {"available"})

Routes == {"user", "role", "availability"}

\* Blanks, too few letters or digits (or too small a number), too large a number, or fine.
Typable(f) == CASE f = "available"             -> {"yes", "no"}
                [] f = "state"                 -> {"new"}
                [] f \in {"display_name", "bio"} -> {Blank, "new"}
                [] f = "years"                 -> {Blank, "large", "new"}
                [] f = "radius"                -> {Blank, "short", "large", "new"}
                [] OTHER                       -> {Blank, "short", "new"}

Values == Users \cup {Blank, "short", "large", "new", "default", "other", "yes", "no"}

\* No PATCH is not an empty one, nor any other, and nothing is known is not a value.
NoneAssumption ==
  /\ None \notin Values
  /\ \A S \in SUBSET (Names \cup RoleFields("customer") \cup RoleFields("provider") \cup {"available"}) :
       None \notin [S -> Values]

Init == /\ app \in {"mobile", "web"}
        /\ role \in [Users -> {"customer", "provider"}]
        /\ \E nameless \in SUBSET Users :
             stored = [u \in Users |->
               [f \in FieldsOf(u) |-> CASE f = "available" -> "yes"
                                       [] f = "display_name" /\ u \in nameless -> Blank
                                       [] OTHER -> u]]
        /\ me = None /\ copy = None /\ cache = None /\ fetch = None
        /\ open = FALSE /\ form = None
        /\ requests = [r \in Routes |-> None]
        /\ saving = FALSE /\ awaiting = FALSE /\ saved = FALSE /\ error = FALSE
        /\ submitted = None /\ outdated = {} /\ elsewhere = {} /\ edits = 0 /\ logins = 0

-----------------------------------------------------------------------------
(* The profile as the screen gets it.                                      *)

\* What a field shows before, or without, an answer.  The mobile app asks its session for the
\* names.
Default(f) == CASE f \in Names /\ app = "mobile" /\ copy[f] # None -> copy[f]
                [] f = "state"                 -> "default"
                [] f = "radius" /\ app = "web" -> "default"
                [] f = "available"             -> "yes"
                [] OTHER                       -> Blank

Shown(profile) ==
  [f \in FieldsOf(me) |-> IF f \in DOMAIN profile THEN profile[f] ELSE Default(f)]

\* The query of the screen takes what is kept, whoever it was asked for.
Open ==
  /\ me # None /\ ~open
  /\ open' = TRUE
  /\ form' = IF cache = None THEN None ELSE Shown(cache.profile)
  /\ fetch' = IF fetch = None /\ (cache = None \/ ~cache.fresh) THEN me ELSE fetch
  /\ UNCHANGED <<app, role, stored, me, copy, cache, requests, saving, awaiting, saved, error, history>>

\* getMyProfile, read when it arrives.  The fields are filled in again if it differs from the
\* last one, whatever was typed.
Load ==
  /\ fetch # None
  /\ LET profile == stored[fetch]
     IN /\ cache' = [profile |-> profile, fresh |-> TRUE]
        /\ form' = IF open /\ (cache = None \/ cache.profile # profile) THEN Shown(profile) ELSE form
  /\ fetch' = None
  /\ saved' = (saved \/ awaiting) /\ awaiting' = FALSE
  /\ UNCHANGED <<app, role, stored, me, copy, open, requests, saving, error, history>>

\* isLoading ends with an error too, and the form is there with what it starts with.
LoadFails ==
  /\ fetch # None
  /\ fetch' = None
  /\ form' = IF open /\ form = None THEN [f \in FieldsOf(me) |-> Default(f)] ELSE form
  /\ saved' = (saved \/ awaiting) /\ awaiting' = FALSE
  /\ UNCHANGED <<app, role, stored, me, copy, cache, open, requests, saving, error, history>>

\* Five minutes.
Age ==
  /\ cache # None
  /\ \/ cache.fresh /\ cache' = [cache EXCEPT !.fresh = FALSE]
     \/ ~open /\ fetch = None /\ cache' = None
  /\ UNCHANGED <<app, role, stored, me, copy, fetch, open, requests, saving, awaiting, screen, history>>

-----------------------------------------------------------------------------
(* Saving.                                                                 *)

Type(f, v) ==
  /\ form # None /\ edits < MaxEdits
  /\ form[f] # v
  /\ form' = [form EXCEPT ![f] = v]
  /\ edits' = edits + 1
  /\ UNCHANGED <<app, role, stored, me, copy, cache, fetch, open, requests, saving, awaiting,
                 saved, error, submitted, outdated, elsewhere, logins>>

\* What a field is compared with.  There is nothing to compare with when the load has failed,
\* nor for the display name in a mobile session that has not saved it.
Base(f) == IF f \in Names /\ app = "mobile" THEN copy[f]
           ELSE IF cache # None /\ f \in DOMAIN cache.profile THEN cache.profile[f]
           ELSE None

\* The fields of the role are sent unchanged too, those that do not look right are left out.
Sends(f) ==
  CASE f \in Names \cup {"available"}  -> form[f] # Base(f)
    [] f \in {"postcode", "abn", "radius"} -> form[f] \notin {Blank, "short"}
    [] OTHER                           -> form[f] # Blank

Sent(fields) == {f \in fields : Sends(f)}

\* A display name that was emptied is undefined, and JSON leaves it out.
Patch(fields) ==
  IF Sent(fields) = {} THEN None
  ELSE [f \in Sent(fields) \ {g \in {"display_name"} : form[g] = Blank} |-> form[f]]

\* type="number" with min and max.
InBrowser == app = "web" =>
  \A f \in FieldsOf(me) \cap {"years", "radius"} : form[f] \notin {"short", "large"}

HandleSave ==
  /\ form # None /\ \A r \in Routes : requests[r] = None
  /\ InBrowser
  /\ saved' = FALSE /\ error' = FALSE /\ saving' = TRUE
  /\ requests' = [user |-> Patch(Names),
                  role |-> Patch(RoleFields(role[me])),
                  availability |-> Patch(FieldsOf(me) \cap {"available"})]
  /\ submitted' = form
  /\ outdated' = {f \in Compared(me) : Base(f) \notin {None, stored[me][f]}}
  /\ UNCHANGED <<app, role, stored, me, copy, cache, fetch, open, form, awaiting, elsewhere, edits, logins>>

\* UpdateUserSchema, UpdateProviderSchema, UpdateCustomerSchema.
Valid(fields) ==
  /\ DOMAIN fields # {}
  /\ \A f \in DOMAIN fields :
       fields[f] \notin {"short", "large"} /\ (f = "full_name" => fields[f] # Blank)

\* One UPDATE of what was sent.
Updated(q) == [f \in FieldsOf(me) |-> IF f \in DOMAIN q THEN q[f] ELSE stored[me][f]]

\* Mutant: one that failed is taken for answered.
AnswerSettled(r) ==
  /\ requests[r] # None
  /\ requests' = [requests EXCEPT ![r] = None]
  /\ \E kept \in BOOLEAN :
       /\ kept => Valid(requests[r])
       /\ stored' = IF kept THEN [stored EXCEPT ![me] = Updated(requests[r])] ELSE stored
       /\ copy' = IF kept /\ r = "user" THEN [f \in Names |-> stored'[me][f]] ELSE copy
  /\ UNCHANGED <<app, role, me, cache, fetch, open, saving, awaiting, screen, history>>

\* A PATCH is stored or refused, and answered unless it or its answer is lost.  Promise.all
\* gives up at the first that fails; the others go on.
Answer(r) ==
  /\ requests[r] # None
  /\ requests' = [requests EXCEPT ![r] = None]
  /\ \E kept, answered \in BOOLEAN :
       /\ kept => Valid(requests[r])
       /\ answered => kept
       /\ stored' = IF kept THEN [stored EXCEPT ![me] = Updated(requests[r])] ELSE stored
       /\ IF answered
          THEN /\ copy' = IF r = "user" THEN [f \in Names |-> stored'[me][f]] ELSE copy
               /\ UNCHANGED <<saving, error>>
          ELSE saving' = FALSE /\ error' = TRUE /\ UNCHANGED copy
  /\ UNCHANGED <<app, role, me, cache, fetch, open, form, awaiting, saved, history>>

\* invalidateQueries, which drops the GET under way and what waited for it.
Invalidate ==
  /\ saving /\ \A r \in Routes : requests[r] = None
  /\ saving' = FALSE /\ awaiting' = TRUE
  /\ saved' = awaiting
  /\ fetch' = me
  /\ cache' = IF cache = None THEN None ELSE [cache EXCEPT !.fresh = FALSE]
  /\ UNCHANGED <<app, role, stored, me, copy, open, form, requests, error, history>>

-----------------------------------------------------------------------------
(* Around it.                                                              *)

Idle == ~saving /\ \A r \in Routes : requests[r] = None

Left == /\ Idle
        /\ open' = FALSE /\ form' = None /\ awaiting' = FALSE /\ saved' = FALSE /\ error' = FALSE
        /\ submitted' = None /\ outdated' = {}
        /\ UNCHANGED <<app, role, stored, cache, fetch, requests, saving, elsewhere, edits, logins>>

Close == open /\ Left /\ UNCHANGED <<me, copy>>

\* What is kept of the profile stays kept.
Logout == me # None /\ Left /\ me' = None /\ copy' = None

\* sanitiseUser: the answer to a login, or a registration, has no display name.
SessionUser(u) == [full_name |-> stored[u]["full_name"], display_name |-> None]

Login(u) ==
  /\ me = None /\ logins < MaxLogins
  /\ me' = u /\ logins' = logins + 1
  /\ copy' = SessionUser(u)
  /\ UNCHANGED <<app, role, stored, cache, fetch, open, requests, saving, awaiting, screen,
                 submitted, outdated, elsewhere, edits>>

\* The user's other device saves a field.
Elsewhere(f) ==
  /\ me # None /\ elsewhere = {}
  /\ stored' = [stored EXCEPT ![me][f] = IF f = "available" THEN "no" ELSE "other"]
  /\ elsewhere' = {f}
  /\ UNCHANGED <<app, role, me, copy, cache, fetch, open, requests, saving, awaiting, screen,
                 submitted, outdated, edits, logins>>

Next ==
  \/ Open \/ Load \/ LoadFails \/ Age
  \/ \E f \in (IF me = None THEN {} ELSE FieldsOf(me)), v \in Values : v \in Typable(f) /\ Type(f, v)
  \/ \E f \in (IF me = None THEN {} ELSE Compared(me)) : Elsewhere(f)
  \/ HandleSave \/ Invalidate
  \/ \E r \in Routes : Answer(r)
  \/ Close \/ Logout \/ \E u \in Users : Login(u)

Spec == Init /\ [][Next]_vars

-----------------------------------------------------------------------------
\* What the form leaves out: no text, or one that does not look right.
Droppable(f) == \/ submitted[f] = Blank
                \/ f \in {"postcode", "abn", "radius"} /\ submitted[f] = "short"

\* "Profile saved successfully." (web profile/page.tsx:342): whatever failed before or was
\* answered in whatever order, what was submitted is then stored, but for fields the form
\* leaves out, that another device writes, or that were compared with a copy no longer right:
\* one kept from before a save that failed halfway, or for another user.
SavedIsStored ==
  saved /\ ~error /\ Idle =>
    \A f \in FieldsOf(me) :
      \/ stored[me][f] = submitted[f]
      \/ Droppable(f) \/ f \in elsewhere \/ f \in outdated

=============================================================================
