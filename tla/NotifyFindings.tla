---------------------------- MODULE NotifyFindings ----------------------------
(***************************************************************************)
(* What backend/README.md and notification.service.ts say of queued        *)
(* notifications and the code does not do.  Each is refuted in place of    *)
(* the properties of Notify.cfg.                                           *)
(***************************************************************************)
EXTENDS NotificationQueue

\* notify() dispatches: a call that passed the dedupe key leaves a job to be done.
\* The completed job of an equal, older notification is still kept under the
\* same id long after the key has run out, and add() ignores the new one.
AcceptedIsQueued ==
  [][\A c \in Callers : adding[c] # NoMessage /\ adding'[c] # adding[c]
       => job'[adding[c]].state \notin {"completed", "failed"}]_vars

\* A call is skipped only as a duplicate of one that was queued: while the dedupe
\* key stands, the notification it stands for was added or is being added.
\* When add() fails the key stays and the retry is skipped too.
SkippedOnlyIfQueued ==
  \A m \in dedupe : adds[m] > 0 \/ \E c \in Callers : adding[c] = m
=============================================================================
