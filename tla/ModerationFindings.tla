-------------------------- MODULE ModerationFindings --------------------------
(***************************************************************************)
(* What comments of the repository say of reviews and verifications, and   *)
(* the code does not do.                                                   *)
(***************************************************************************)
EXTENDS MCModeration

\* "Rejected — check if provider still has any pending or verified verifications"
\* (verifications.service.ts:211): a rejection that changes the provider's status to
\* rejected leaves no other verification pending or verified.  The query answers the
\* newest row alone.
RejectedHasNoneActive ==
  [][(profile'.status = "rejected" /\ profile.status # "rejected") =>
       \E r \in Requests : /\ call[r].at = "toRejected"
                       /\ \A i \in DOMAIN rows : i # call[r].row => rows[i].status = "rejected"]_allVars

\* "recompute avg_rating on provider_profiles after each review upsert"
\* (004_messaging_moderation.ts:200): at rest, the rating counts the visible reviews.  Two
\* reviews whose transactions overlap refute it.
RatingIsFresh == R!Open = {} => counted = R!Visible(reviews)

=============================================================================
