----------------------------- MODULE RegisterForm ------------------------------
(***************************************************************************)
(* Creating an account from the apps: the RegisterScreen of the mobile and *)
(* the RegisterPage of the web app, RegisterSchema, which both forms and   *)
(* the server hold a registration against, and what register answers.      *)
(*                                                                         *)
(* A text is blank, fails its check ("bad"), or passes it; a phone number  *)
(* passes as +61..., which the web makes of 04....                         *)
(***************************************************************************)
CONSTANT Blank

\* A field that is not sent is not an empty one.
BlankAssumption == Blank # "undefined"

VARIABLES app,   \* "mobile" or "web"
          form,  \* what is filled in
          phase, \* editing, sent, or in (to the tabs or the dashboard)
          failed,\* the form says that registration failed
          owner, \* whose the account of the address is: nobody's, mine, another's
          lost   \* history: an answer was lost

vars == <<app, form, phase, failed, owner, lost>>

Texts == {"name", "email", "password", "phone", "business"}
Ticks == {"terms", "privacy"}
Undefined == "undefined"

Init == /\ app \in {"mobile", "web"}
        /\ form = [f \in Texts \cup Ticks \cup {"role"} |->
             CASE f \in Texts -> Blank
               [] f \in Ticks -> "no"
               [] OTHER       -> IF app = "mobile" THEN "customer" ELSE "none"]
        /\ phase = "editing" /\ failed = FALSE
        /\ owner \in {"nobody", "another"} /\ lost = FALSE

\* The name of the business is asked of providers.
Asked == Texts \ (IF form["role"] = "provider" THEN {} ELSE {"business"})

Choices(f) == CASE f = "role"  -> {"customer", "provider"}
                [] f \in Ticks -> {"yes", "no"}
                [] f = "phone" -> {Blank, "bad", "04", "ok"}
                [] OTHER       -> {Blank, "bad", "ok"}

FillIn(f, v) ==
  /\ phase = "editing" /\ f \in Asked \cup Ticks \cup {"role"}
  /\ v \in Choices(f) /\ form[f] # v
  /\ form' = [form EXCEPT ![f] = v]
  /\ UNCHANGED <<app, phase, failed, owner, lost>>

-----------------------------------------------------------------------------
(* What is sent, and what it is held against.                              *)

\* The mobile app sends what the fields hold.
Payload ==
  [f \in DOMAIN form |->
     CASE app = "web" /\ f = "phone" /\ form[f] = "04"  -> "ok"
       [] app = "web" /\ f = "phone" /\ form[f] = Blank -> Undefined
       [] app = "web" /\ f = "business" /\ form["role"] # "provider" -> Undefined
       [] OTHER -> form[f]]

\* RegisterSchema: a blank is not undefined.
Faults(p) ==
  {f \in Texts \ {"phone", "business"} : p[f] # "ok"}
  \cup {f \in {"phone", "business"} : p[f] \notin {"ok", Undefined}}
  \cup {f \in Ticks : p[f] # "yes"}
  \cup {f \in {"role"} : p[f] = "none"}

\* required and type="email".
InBrowser == app = "web" => /\ \A f \in Asked : form[f] # Blank
                            /\ form["email"] # "bad"

\* Mutant: what the schema finds fault with is sent.
HandleRegisterAnyway ==
  /\ phase = "editing" /\ InBrowser
  /\ app = "mobile" => \A f \in Ticks : form[f] = "yes"
  /\ phase' = "sent"
  /\ failed' = FALSE
  /\ UNCHANGED <<app, form, owner, lost>>

HandleRegister ==
  /\ phase = "editing" /\ InBrowser
  /\ app = "mobile" => \A f \in Ticks : form[f] = "yes"
  /\ phase' = IF Faults(Payload) = {} THEN "sent" ELSE "editing"
  /\ failed' = FALSE
  /\ UNCHANGED <<app, form, owner, lost>>

\* register, which a business name is required of for a provider.
Accepts(p) == /\ Faults(p) = {} /\ (p["role"] = "provider" => p["business"] # Undefined)
              /\ owner = "nobody"

\* The answer is an account, a refusal, or none at all, as when signing the tokens fails after
\* the account is committed.
Register ==
  /\ phase = "sent"
  /\ owner' = IF Accepts(Payload) THEN "me" ELSE owner
  /\ \E answered \in BOOLEAN :
       /\ phase'  = IF answered /\ Accepts(Payload) THEN "in" ELSE "editing"
       /\ failed' = (phase' = "editing")
       /\ lost'   = (lost \/ ~answered)
  /\ UNCHANGED <<app, form>>

\* The route refuses an address with too many registrations before it looks at this one.
Forbid ==
  /\ phase = "sent"
  /\ phase' = "editing" /\ failed' = TRUE
  /\ UNCHANGED <<app, form, owner, lost>>

Next == \/ \E f \in DOMAIN form, v \in Choices("phone") \cup {"yes", "no", "customer", "provider"} :
             FillIn(f, v)
        \/ HandleRegister \/ Forbid \/ Register

Spec == Init /\ [][Next]_vars

-----------------------------------------------------------------------------
\* What a form lets through is refused only because the address is taken or a limit reached,
\* and who is told that registration failed has no account unless the answer to one was lost.
\* (register.tsx:52-76, register/page.tsx:34-102, auth.service.ts:50-62)
OnlyTakenRefused ==
  /\ phase = "sent" => Accepts(Payload) \/ owner # "nobody"
  /\ failed /\ owner = "me" => lost

=============================================================================
