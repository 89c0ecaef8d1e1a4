------------------------------- MODULE QuoteForm -------------------------------
(***************************************************************************)
(* Sending a quote: SubmitQuoteForm of the two apps, SubmitQuoteSchema and *)
(* the row of quotes, three places that each bound the same numbers.       *)
(*                                                                         *)
(* Amounts are in cents.  A field keeps what was typed when the type of    *)
(* the quote changes, and the payload takes the fields of the type alone.  *)
(***************************************************************************)
EXTENDS Integers

CONSTANTS Amounts,  \* amounts that may be typed, in cents
          Days,     \* numbers of days, or of months, that may be typed
          Blank,    \* an empty field
          NaN,      \* what parseFloat and parseInt make of a text that is no number
          MaxInteger \* the largest INTEGER of the database, scaled down to what TLC counts to

AmountAssumption ==
  /\ Amounts \subseteq Int /\ Days \subseteq Int /\ MaxInteger \in Nat
  /\ Blank \notin Amounts \cup Days /\ NaN \notin Amounts \cup Days

VARIABLES app,   \* "mobile" or "web"
          form,  \* what is filled in
          phase, \* of the form: editing, sent, valid (to the schema), done
          rows   \* the quote inserted

vars == <<app, form, phase, rows>>

Types  == {"fixed", "estimate_range", "hourly", "call_for_quote"}
Prices == {"fixed", "min", "max", "hourly"}
PricesOf(type) == CASE type = "fixed"          -> {"fixed"}
                    [] type = "estimate_range" -> {"min", "max"}
                    [] type = "hourly"         -> {"hourly"}
                    [] OTHER                   -> {}

\* Notes of under 20 letters, of 20 with the blanks around them, of over 3000, or fine, as
\* none are.
Notes == {"short", "blanks", "ok", "long"}
Terms == Days \cup {Blank, NaN}

Quotes == [type : Types, price : [Prices -> Amounts \cup {Blank, NaN}],
           notes : Notes, days : Terms, months : Terms]

TypeOK == /\ app \in {"mobile", "web"}
          /\ form \in Quotes
          /\ phase \in {"editing", "sent", "valid", "done"}
          /\ rows \subseteq Quotes

Init == /\ app \in {"mobile", "web"}
        /\ form = [type |-> "fixed", price |-> [p \in Prices |-> Blank],
                   notes |-> "ok", days |-> Blank, months |-> Blank]
        /\ phase = "editing"
        /\ rows = {}

-----------------------------------------------------------------------------
(* The web's inputs are type="number" with min and step, which the browser *)
(* holds them to when it submits.                                          *)

AtLeast(low)     == {n \in Amounts \cup Days : n >= low}
Between(low, up) == {n \in Amounts \cup Days : low <= n /\ n <= up}
Optional(v, S)   == v = Blank \/ v \in S

InBrowser(q) ==
  app = "web" =>
    /\ \A p \in PricesOf(q.type) : Optional(q.price[p], AtLeast(100))
    /\ Optional(q.days, AtLeast(1)) /\ Optional(q.months, AtLeast(0))

Edit(new) ==
  /\ phase = "editing"
  /\ form' = new
  /\ UNCHANGED <<app, phase, rows>>

\* A number input of the browser is blank if its text is no number.
Typed(numbers) == numbers \cup {Blank} \cup (IF app = "mobile" THEN {NaN} ELSE {})

FillIn ==
  \/ \E t \in Types : Edit([form EXCEPT !.type = t])
  \/ \E p \in PricesOf(form.type), a \in Typed(Amounts) :
       Edit([form EXCEPT !.price[p] = a])
  \/ \E n \in Notes : Edit([form EXCEPT !.notes = n])
  \/ \E d \in Typed(Days) : Edit([form EXCEPT !.days = d]) \/ Edit([form EXCEPT !.months = d])

Payload ==
  [form EXCEPT !.price = [p \in Prices |-> IF p \in PricesOf(form.type) THEN form.price[p]
                                           ELSE Blank]]

\* handleSubmit: each price of the type is filled in, the notes are long enough untrimmed.
HandleSubmit ==
  /\ phase = "editing"
  /\ InBrowser(form)
  /\ \A p \in PricesOf(form.type) : form.price[p] # Blank
  /\ form.notes # "short"
  /\ phase' = "sent"
  /\ UNCHANGED <<app, form, rows>>

InOrder(q) == {q.price["min"], q.price["max"]} \subseteq Amounts => q.price["min"] <= q.price["max"]
Termed(q)  == Optional(q.days, Between(1, 730)) /\ Optional(q.months, Between(0, 120))
Priced(q)  == \A p \in PricesOf(q.type) : q.price[p] # Blank

\* SubmitQuoteSchema, which bounds an amount from below alone.
Valid(q) ==
  /\ \A p \in Prices : Optional(q.price[p], AtLeast(100))
  /\ q.notes \notin {"short", "blanks", "long"}
  /\ Termed(q) /\ Priced(q) /\ InOrder(q)

\* The route refuses whose e-mail is not verified and who has quoted too often.
Forbid ==
  /\ phase = "sent"
  /\ phase' = "editing"
  /\ UNCHANGED <<app, form, rows>>

Validate ==
  /\ phase = "sent"
  /\ phase' = IF Valid(Payload) THEN "valid" ELSE "editing"
  /\ UNCHANGED <<app, form, rows>>

\* The columns are INTEGER, and the CHECKs repeat the schema.
Fits(q) ==
  /\ \A p \in Prices : Optional(q.price[p], Between(1, MaxInteger))
  /\ Termed(q) /\ Priced(q) /\ InOrder(q)

\* createQuote.
CreateQuote ==
  /\ phase = "valid"
  /\ IF Fits(Payload)
     THEN rows' = {Payload} /\ phase' = "done"
     ELSE phase' = "editing" /\ UNCHANGED rows
  /\ UNCHANGED <<app, form>>

Next == FillIn \/ HandleSubmit \/ Forbid \/ Validate \/ CreateQuote

Spec == Init /\ [][Next]_vars

-----------------------------------------------------------------------------
\* Three layers check a quote.  What a form sends is stored, in whatever order its type and
\* its fields were changed, but for the known gaps: a range upside down, notes of blanks or
\* too long, a term too long, from the mobile app a text that is no number, less than a
\* dollar, no days at all or fewer months than none, and an amount that passes the schema
\* and overflows the column.
\* (web jobs/[id]/page.tsx:54-89, mobile (provider)/jobs/[id].tsx:43-80,
\* job.schema.ts:160-209, 003:213-243)
OnlyKnownQuoteGaps ==
  phase \in {"sent", "valid"} =>
    \/ Valid(Payload) /\ Fits(Payload)
    \/ form.type = "estimate_range" /\ ~InOrder(form)
    \/ form.notes \in {"blanks", "long"}
    \/ form.days \in AtLeast(731) \/ form.months \in AtLeast(121)
    \/ app = "mobile" /\ (\/ ~Optional(form.days, AtLeast(1))
                          \/ ~Optional(form.months, AtLeast(0))
                          \/ \E p \in PricesOf(form.type) : form.price[p] \notin AtLeast(100))
    \/ \E p \in PricesOf(form.type) : form.price[p] \in AtLeast(MaxInteger + 1)

=============================================================================
