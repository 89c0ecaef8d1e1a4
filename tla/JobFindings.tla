---------------------------- MODULE JobFindings ----------------------------
(***************************************************************************)
(* What comments and messages of the job code say, where the handlers of   *)
(* JobLifecycle do something else.  Each is refuted in place of the        *)
(* properties of JobRace.cfg.                                              *)
(***************************************************************************)
EXTENDS MCJobLifecycle

InFlight(j) == \E r \in Requests : req[r].job = j

\* job.service.ts, withdrawQuote: "If no active quotes remain on a quoting job,
\* revert it back to posted" - the update that comment describes takes effect.
RevertTakesEffect ==
  [][\A r \in Requests :
       /\ req[r].op = "withdrawQuote" /\ req[r].step = "writeJob"
       /\ jobStatus[req[r].job] = "quoting"
       /\ req'[r] = Idle
       => jobStatus'[req[r].job] = "posted"]_vars

\* job.service.ts, CANCELLABLE_STATUSES: a job that is draft, posted, quoting,
\* awarded or in_progress when cancelJob writes becomes cancelled.
CancelTakesEffect ==
  [][\A r \in Requests :
       /\ req[r].op = "cancelJob" /\ req[r].step = "writeJob"
       /\ jobStatus[req[r].job] \in Cancellable
       /\ req'[r] # req[r]
       => jobStatus'[req[r].job] = "cancelled"]_vars

\* job.repo.ts, awardJob: "Reject all other quotes for this job" - once an award has
\* settled, no other quote of the job is still pending, viewed or shortlisted.
LosersRejected ==
  \A j \in Jobs : jobStatus[j] = "awarded" /\ ~InFlight(j) =>
    \A q \in QuotesOn[j] \ {awardedQuote[j]} : quoteStatus[q] \notin Live

\* job.service.ts, awardJob: "Quote is not in an awardable state" - what is awarded
\* is a quote that is pending, viewed or shortlisted at that moment.
AwardsLiveQuote ==
  [][\A r \in Requests : req[r].step = "commit" /\ req'[r].step = "notify" =>
       quoteStatus[req[r].quote] \in Live]_vars

\* job.service.ts, rejectQuote: "The customer has passed on your quote for this job." -
\* a provider told so does not hold the award of the job.
NotSelectedIsFinal ==
  \A q \in Quotes : <<"rejected", q>> \in told => awardedQuote[JobOf(q)] # q

\* job.service.ts, withdrawQuote: "Quote cannot be withdrawn in its current state" -
\* an awarded quote is never turned into a withdrawn one.
AwardedNotWithdrawn ==
  [][\A q \in Quotes : quoteStatus[q] = "awarded" => quoteStatus'[q] # "withdrawn"]_vars

\* job.service.ts, cancelJob: "Notify awarded provider if applicable" - the provider
\* holding the award when cancelJob cancels the job is notified.
CancelledWinnerTold ==
  [][\A r \in Requests : LET j == req[r].job IN
       /\ req[r].op = "cancelJob" /\ req[r].step = "writeJob"
       /\ jobStatus[j] # "cancelled" /\ jobStatus'[j] = "cancelled"
       /\ awardedQuote[j] # NoQuote
       => req'[r].step = "notify"]_vars

\* job.service.ts, patchJob: "Job cannot be edited in its current status" - terms are
\* rewritten only while the job is draft or posted.
EditedOnlyWhileOpen ==
  [][\A j \in Jobs : edits'[j] # edits[j] => jobStatus[j] \in {"draft", "posted"}]_vars

\* admin.service.ts: "Job oversight (list, force status)" - a job that is not terminal
\* when an administrator's forced status is written takes that status.
ForceTakesEffect ==
  [][\A r \in Requests :
       /\ req[r].op = "forceJobStatus" /\ jobStatus[req[r].job] \notin Terminal
       /\ req'[r] # req[r]
       => jobStatus'[req[r].job] = req[r].target]_vars
=============================================================================
