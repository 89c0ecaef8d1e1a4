-------------------------- MODULE SessionContract ---------------------------
(***************************************************************************)
(* What refresh tokens promise a user: a login opens one session with one  *)
(* usable token; a refresh replaces the usable token by a new one; sessions *)
(* end; a token that was replaced never works again and an ended session   *)
(* is never reopened.                                                      *)
(***************************************************************************)
EXTENDS Naturals

CONSTANTS Tokens, Families

VARIABLES usable,  \* the tokens of each session a refresh would accept
          opened,  \* sessions that were ever opened
          spent    \* tokens that were exchanged or revoked

vars == <<usable, opened, spent>>

Init == /\ usable = [f \in Families |-> {}]
        /\ opened = {}
        /\ spent  = {}

Fresh(t) == t \notin spent /\ \A f \in Families : t \notin usable[f]

Start(f, t) == /\ f \notin opened
               /\ Fresh(t)
               /\ usable' = [usable EXCEPT ![f] = {t}]
               /\ opened' = opened \cup {f}
               /\ UNCHANGED spent

Renew(f, old, new) == /\ usable[f] = {old}
                      /\ Fresh(new)
                      /\ usable' = [usable EXCEPT ![f] = {new}]
                      /\ spent' = spent \cup {old}
                      /\ UNCHANGED opened

\* Sessions end by logout, revocation, expiry of the token or a lost answer;
\* more tokens than the usable ones may be spent with them.
End(F, T) == /\ usable' = [f \in Families |-> IF f \in F THEN {} ELSE usable[f]]
             /\ \A f \in Families \ F : usable[f] \cap T = {}
             /\ spent' = spent \cup T
             /\ UNCHANGED opened

Next == \/ \E f \in Families, t \in Tokens : Start(f, t)
        \/ \E f \in Families, old, new \in Tokens : Renew(f, old, new)
        \/ \E F \in SUBSET Families, T \in SUBSET Tokens : End(F, T)

Spec == Init /\ [][Next]_vars
=============================================================================
