----------------------------- MODULE MCModeration -----------------------------
(***************************************************************************)
(* Verifications, disputes and reviews share no column, and the seeds are  *)
(* run on other users than theirs, so a behaviour is about one of them and *)
(* the others stay as they were at the start.  The verifications are this *)
(* module's own, the others are instances.                                 *)
(***************************************************************************)
EXTENDS Verifications, TLC

CONSTANTS Resolutions, Jobs, Callers, MaxDisputes, MaxReopened

VARIABLES disputes, dCall, notices, dCrowd, reopened,
          reviews, counted, rCall, raced,
          db, taken, env, seeder, lone,
          about

D == INSTANCE Disputes      WITH call <- dCall, crowd <- dCrowd, Requests <- Callers
R == INSTANCE Reviews       WITH call <- rCall, Requests <- Callers
S == INSTANCE Seeds

vVars == vars
dVars == <<disputes, dCall, notices, dCrowd, reopened>>
rVars == <<reviews, counted, rCall, raced>>
sVars == <<db, taken, env, seeder, lone>>
allVars == <<vVars, dVars, rVars, sVars, about>>

ModerationInit ==
  /\ Init /\ D!Init /\ R!Init /\ S!Init
  /\ about \in {"verifications", "disputes", "reviews", "seeds"}
  /\ about # "seeds" => env = "production"

ModerationNext ==
  /\ \/ about = "verifications" /\ Next /\ UNCHANGED <<dVars, rVars, sVars>>
     \/ about = "disputes"      /\ D!Next /\ UNCHANGED <<vVars, rVars, sVars>>
     \/ about = "reviews"       /\ R!Next /\ UNCHANGED <<vVars, dVars, sVars>>
     \/ about = "seeds"         /\ S!Next /\ UNCHANGED <<vVars, dVars, rVars>>
  /\ UNCHANGED about

ModerationSpec == ModerationInit /\ [][ModerationNext]_allVars

\* The instances' assumptions.
ASSUME D!ResolutionAssumption /\ D!DisputeAssumption

Interchangeable == Permutations(Callers) \cup Permutations(Requests) \cup Permutations(Jobs)

\* No more active disputes of a party than races explain (disputes.service.ts:44, :121).
ActiveBounded == D!ActiveBounded

\* The rating counts the visible reviews, but for racing changes and for a run of the
\* provider seed alone (004_messaging_moderation.ts:200-227, 03_dummy_providers.ts:251).
RatingIsRight == R!RatingIsRight /\ S!SeededRatingIsRight

=============================================================================
