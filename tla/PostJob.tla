-------------------------------- MODULE PostJob --------------------------------
(***************************************************************************)
(* Posting a job from the apps: the five-step wizard of the mobile app     *)
(* (post-job/index.tsx) and the one form of the web app (jobs/new),        *)
(* CreateJobSchema, which the server holds what they send against, and     *)
(* createJob.                                                              *)
(*                                                                         *)
(* Texts and dates are told apart only by what a check tells apart,        *)
(* amounts are in cents; urgency, property type and notes meet no check    *)
(* that differs and are left out.                                          *)
(***************************************************************************)
EXTENDS Integers, Sequences

CONSTANTS Amounts,   \* amounts that may be typed, in cents
          Blank,     \* an empty field
          MaxLost    \* bound on the answers lost

AmountAssumption == Amounts \subseteq Nat /\ Blank \notin Amounts

VARIABLES app,        \* "mobile" or "web"
          form,       \* what is filled in
          step,       \* the wizard's step; the web form is all steps at once
          wasPublish, \* web: the publish state as rendered, which validate() reads
          phase,      \* of the form: editing, sent, stored or refused by the server, done
          shown,      \* the message on the screen
          stored,     \* status of each job the server has inserted
          lost        \* answers lost

vars == <<app, form, step, wasPublish, phase, shown, stored, lost>>

Fields == {Blank} \cup Amounts

\* A text against its bounds in CreateJobSchema.  A suburb of one letter is not one of none,
\* "none" of the others is too short as well, but for the address.
Texts == {"none", "short", "ok", "long"}

\* The day the work should start: none or a later one, today, one gone by, or one of a year
\* of more than four digits.
Starts == {"none", "today", "past", "far"}

Empty == [category |-> FALSE, details |-> "none", suburb |-> "none", address |-> "none",
          start |-> "none", min |-> Blank, max |-> Blank, publish |-> FALSE]

TypeOK ==
  /\ app \in {"mobile", "web"}
  /\ form \in [category : BOOLEAN, details : Texts \ {"short"}, suburb : Texts, address : Texts,
               start : Starts, min : Fields, max : Fields, publish : BOOLEAN]
  /\ step \in 1..5
  /\ wasPublish \in BOOLEAN
  /\ phase \in {"editing", "sent", "stored", "refused", "done"}
  /\ shown \in {"nothing", "errors", "failed", "published", "saved"}
  /\ Len(stored) <= MaxLost + 1 /\ stored \in Seq({"draft", "posted"})
  /\ lost \in 0..MaxLost

Init == /\ app \in {"mobile", "web"}
        /\ form = Empty /\ step = 1 /\ wasPublish = FALSE
        /\ phase = "editing" /\ shown = "nothing"
        /\ stored = <<>> /\ lost = 0

-----------------------------------------------------------------------------
(* What is checked where.                                                  *)

\* "0" is a blank to the wizard, whose fields hold whole dollars.
Sent(amount) == IF app = "mobile" /\ amount = 0 THEN Blank ELSE amount
Payload == [form EXCEPT !.min = Sent(form.min), !.max = Sent(form.max)]

InOrder(p) == p.min # Blank /\ p.max # Blank => p.min <= p.max
HasAddress(p) == p.publish => p.address # "none"

\* Mutant: a suburb of one letter is enough.
ValidStepLoosely(s) ==
  CASE s = 1 -> form.category
    [] s = 2 -> form.details # "none"
    [] s = 3 -> form.suburb # "none"
    [] s = 5 -> InOrder(Payload) /\ HasAddress(form)
    [] OTHER -> TRUE

\* validateStep.
ValidStep(s) ==
  CASE s = 1 -> form.category
    [] s = 2 -> form.details # "none"
    [] s = 3 -> form.suburb \notin {"none", "short"}
    [] s = 5 -> InOrder(Payload) /\ HasAddress(form)
    [] OTHER -> TRUE

\* validate() of the web form, which sees the publish of the last render.
ValidForm(publishNow) ==
  /\ form.category /\ form.details # "none" /\ form.suburb # "none" /\ InOrder(form)
  /\ wasPublish \/ publishNow => form.address # "none"

\* min and step of the web's inputs, which the browser looks at when it submits the form;
\* "Publish Now" is no submit button.
InBrowser ==
  /\ form.start # "past"
  /\ \A a \in {form.min, form.max} \ {Blank} : a >= 100 /\ a % 100 = 0

InRange(amount) == amount = Blank \/ amount \in 100..10000000

\* CreateJobSchema.
Accepts(p) ==
  /\ p.category /\ p.details = "ok" /\ p.suburb = "ok"
  /\ p.address \in {"none", "ok"}
  /\ p.start \in {"none", "today"}
  /\ InRange(p.min) /\ InRange(p.max) /\ InOrder(p)
  /\ HasAddress(p)

-----------------------------------------------------------------------------
(* Filling in.                                                             *)

Edit(new) ==
  /\ phase = "editing"
  /\ form' = new
  /\ shown' = "nothing"
  /\ UNCHANGED <<app, step, wasPublish, phase, stored, lost>>

On(s) == app = "web" \/ step = s
Typeable == IF app = "web" THEN Fields ELSE {a \in Fields : a = Blank \/ a % 100 = 0}

\* The wizard's fields have a maxLength, and it asks for no date.
TypeableTexts == IF app = "web" THEN Texts ELSE Texts \ {"long"}

HandleChange ==
  \/ On(1) /\ Edit([form EXCEPT !.category = TRUE])
  \/ On(2) /\ \E t \in TypeableTexts \ {"short"} : Edit([form EXCEPT !.details = t])
  \/ On(3) /\ \E t \in TypeableTexts : Edit([form EXCEPT !.suburb = t])
  \/ On(5) /\ \E t \in TypeableTexts : Edit([form EXCEPT !.address = t])
  \/ app = "web" /\ \E d \in Starts : Edit([form EXCEPT !.start = d])
  \/ On(5) /\ \E a \in Typeable : Edit([form EXCEPT !.min = a]) \/ Edit([form EXCEPT !.max = a])

\* The wizard's switch; the web form has two buttons instead.
HandleToggle ==
  /\ app = "mobile" /\ step = 5
  /\ Edit([form EXCEPT !.publish = ~@])

HandleNext ==
  /\ app = "mobile" /\ phase = "editing" /\ step < 5
  /\ IF ValidStep(step)
     THEN step' = step + 1 /\ shown' = "nothing"
     ELSE shown' = "errors" /\ UNCHANGED step
  /\ UNCHANGED <<app, form, wasPublish, phase, stored, lost>>

HandleBack ==
  /\ app = "mobile" /\ phase = "editing" /\ step > 1
  /\ step' = step - 1 /\ shown' = "nothing"
  /\ UNCHANGED <<app, form, wasPublish, phase, stored, lost>>

-----------------------------------------------------------------------------
(* Sending.                                                                *)

\* The wizard looks at the last step alone.
SubmitWizard ==
  /\ app = "mobile" /\ phase = "editing" /\ step = 5
  /\ IF ValidStep(5)
     THEN phase' = "sent" /\ UNCHANGED shown
     ELSE shown' = "errors" /\ UNCHANGED phase
  /\ UNCHANGED <<app, form, step, wasPublish, stored, lost>>

\* setPublish takes effect with the next render, after validate() has run.
SubmitForm ==
  /\ app = "web" /\ phase = "editing"
  /\ \E publishNow \in BOOLEAN :
       /\ publishNow \/ InBrowser
       /\ form' = [form EXCEPT !.publish = publishNow]
       /\ wasPublish' = publishNow
       /\ IF ValidForm(publishNow)
          THEN phase' = "sent" /\ shown' = "nothing"
          ELSE shown' = "errors" /\ UNCHANGED phase
  /\ UNCHANGED <<app, step, stored, lost>>

\* Midnight, UTC, passes before the server looks.
DayTurns ==
  /\ phase = "sent" /\ form.start = "today"
  /\ form' = [form EXCEPT !.start = "past"]
  /\ UNCHANGED <<app, step, wasPublish, phase, shown, stored, lost>>

\* The route refuses whose e-mail is not verified and who has posted too often, before it
\* looks at the job.
Forbid ==
  /\ phase = "sent"
  /\ phase' = "refused"
  /\ UNCHANGED <<app, form, step, wasPublish, shown, stored, lost>>

\* Mutant: the client sends the request a second time.
StoreJobTwice ==
  /\ phase = "sent" /\ Accepts(Payload) /\ Len(stored) <= MaxLost
  /\ stored' = Append(stored, "draft") /\ phase' \in {"sent", "stored"}
  /\ UNCHANGED <<app, form, step, wasPublish, shown, lost>>

\* createJob: publish is validated and then not looked at; every job starts as a draft.
StoreJob ==
  /\ phase = "sent"
  /\ IF Accepts(Payload)
     THEN stored' = Append(stored, "draft") /\ phase' = "stored"
     ELSE phase' = "refused" /\ UNCHANGED stored
  /\ UNCHANGED <<app, form, step, wasPublish, shown, lost>>

Answer ==
  /\ phase \in {"stored", "refused"}
  /\ IF phase = "stored"
     THEN phase' = "done" /\ shown' = IF form.publish THEN "published" ELSE "saved"
     ELSE phase' = "editing" /\ shown' = "failed"
  /\ UNCHANGED <<app, form, step, wasPublish, stored, lost>>

\* The request or its answer is lost: an error, and the button works again.
LoseAnswer ==
  /\ phase \in {"sent", "stored"} /\ lost < MaxLost
  /\ lost' = lost + 1
  /\ phase' = "editing" /\ shown' = "failed"
  /\ UNCHANGED <<app, form, step, wasPublish, stored>>

Next == \/ HandleChange \/ HandleToggle \/ HandleNext \/ HandleBack
        \/ SubmitWizard \/ SubmitForm
        \/ DayTurns \/ Forbid \/ StoreJob \/ Answer \/ LoseAnswer

Spec == Init /\ [][Next]_vars

-----------------------------------------------------------------------------
\* The apps and the server check the same job in two places.  Whatever the order of steps,
\* going back and switching, a form that passes its app's checks is refused by the schema
\* for one of a few reasons only: an address of under five letters, an amount outside $1
\* to $100,000, or, from the web, a suburb of one letter, a text over its maximum, or a day
\* to start that is gone by or no date to the schema.
\* (post-job/index.tsx:517-522, jobs/new/page.tsx:53-67, job.schema.ts:21-107)
OnlyKnownGaps ==
  phase = "sent" =>
    \/ Accepts(Payload)
    \/ form.address = "short"
    \/ ~InRange(Payload.min) \/ ~InRange(Payload.max)
    \/ app = "web" /\ (\/ form.suburb = "short"
                       \/ "long" \in {form.details, form.suburb, form.address}
                       \/ form.start \in {"past", "far"})

\* POST /jobs is not idempotent: a form makes more than one job only if an answer was lost,
\* and no more than that.  (post-job/index.tsx:546, job.service.ts:27)
DuplicatesAreLost == Len(stored) <= lost + (IF phase \in {"stored", "done"} THEN 1 ELSE 0)

=============================================================================
