---------------------------- MODULE JobContract ----------------------------
(***************************************************************************)
(* What the marketplace promises about a job, whatever the interleaving of *)
(* the requests that act on it: a job is prepared in private, opened to    *)
(* quotes, engages exactly one quote made on it, and from then on is       *)
(* finished or voided with that engagement unchanged.                      *)
(* It abstracts src/backend/db/migrations/003_job_quote_tables.ts (the     *)
(* lifecycle and its comment "no going backwards") to five phases;         *)
(* JobLifecycle refines it.                                                *)
(***************************************************************************)
CONSTANTS Jobs,       \* the jobs
          QuotesOn,   \* the quotes that may be made on each job
          NoQuote     \* no engagement yet

VARIABLES phase,      \* [Jobs -> Phases]
          winner      \* the engaged quote of each job

contractVars == <<phase, winner>>

Phases == {"private", "open", "engaged", "done", "void", "closed"}

Init == /\ phase  = [j \in Jobs |-> "private"]
        /\ winner = [j \in Jobs |-> NoQuote]

\* Job j changes phase, keeping its engagement.
Move(j, from, to) == /\ phase[j] \in from
                     /\ phase' = [phase EXCEPT ![j] = to]
                     /\ UNCHANGED winner

Open(j)   == Move(j, {"private"}, "open")
Finish(j) == Move(j, {"engaged"}, "done")
Void(j)   == Move(j, {"private", "open", "engaged"}, "void")
Close(j)  == Move(j, {"done", "void"}, "closed")

\* One of the quotes made on j is engaged, once and for all.
Engage(j, q) == /\ phase[j] = "open"
                /\ q \in QuotesOn[j]
                /\ phase'  = [phase EXCEPT ![j] = "engaged"]
                /\ winner' = [winner EXCEPT ![j] = q]

Next == \E j \in Jobs : \/ Open(j) \/ Finish(j) \/ Void(j) \/ Close(j)
                        \/ \E q \in QuotesOn[j] : Engage(j, q)

Spec == Init /\ [][Next]_contractVars
=============================================================================
