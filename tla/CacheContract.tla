---------------------------- MODULE CacheContract -----------------------------
(***************************************************************************)
(* What a cache in front of the database promises its readers: each key is *)
(* a register.  A write may be one that brings keys it changes up to date  *)
(* (Refreshes).  Until it has ended a read of such a key may be answered   *)
(* with what was there before or with what is there now, but never with    *)
(* the old value once the new one was answered; after it it is the new     *)
(* one.  A key that a write changes and does not refresh may lag behind,   *)
(* and only ever catches up.                                               *)
(*                                                                         *)
(* So much while the requests that change the cache follow one another and *)
(* none fails (orderly); hits change nothing and may come at any time.     *)
(* Otherwise a read may be answered with anything that once was there, but *)
(* the cache still invents nothing.                                        *)
(***************************************************************************)
EXTENDS Naturals

CONSTANTS Keys,
          Writes,    \* kinds of write
          Changes,   \* the keys each changes
          Refreshes  \* those it also brings up to date before it ends

VARIABLES current, \* how many writes each key has seen
          served,  \* how many of them a read of the key is answered with now
          due,     \* the keys the write under way has still to bring up to date
          orderly  \* requests follow one another and none fails

contractVars == <<current, served, due, orderly>>

Init == /\ current = [k \in Keys |-> 0]
        /\ served = current
        /\ due = {}
        /\ orderly \in BOOLEAN

After(K) == [k \in Keys |-> IF k \in K THEN current[k] + 1 ELSE current[k]]

\* A write begins: keys that are not cached are answered from the database at once.
Replace(w) ==
  /\ orderly /\ due = {}
  /\ current' = After(Changes[w])
  /\ \A k \in Keys : served'[k] \in {served[k], current'[k]}
  /\ due' = Refreshes[w]
  /\ UNCHANGED orderly

\* Some keys are answered from the database again.
CatchUp ==
  /\ orderly
  /\ \A k \in Keys : served'[k] \in {served[k], current[k]}
  /\ UNCHANGED <<current, due, orderly>>

\* A write has ended: nothing old is left of what it refreshes.
End ==
  /\ orderly /\ due # {}
  /\ \A k \in due : served[k] = current[k]
  /\ due' = {}
  /\ UNCHANGED <<current, served, orderly>>

Slip(K) ==
  /\ ~orderly
  /\ current' = After(K)
  /\ \A k \in Keys : served'[k] \in 0..current'[k]
  /\ due' \subseteq Keys
  /\ UNCHANGED orderly

Next == \/ \E w \in Writes : Replace(w)
        \/ \E K \in SUBSET Keys : Slip(K)
        \/ CatchUp \/ End

Spec == Init /\ [][Next]_contractVars
=============================================================================
