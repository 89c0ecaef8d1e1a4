------------------------- MODULE NotificationProofs -------------------------
(***************************************************************************)
(* The inductive invariant IInv of NotificationQueue and what follows from *)
(* it: one lemma per action or group of like actions, then the theorems.   *)
(***************************************************************************)
EXTENDS NotificationQueue, FiniteSetTheorems, TLAPS

\* The sets whose sizes the budgets add up are finite.
LEMMA SetsFinite ==
  ASSUME NEW m
  PROVE  /\ IsFiniteSet(Adding(m)) /\ Cardinality(Adding(m)) \in Nat
         /\ IsFiniteSet(Inserting(m)) /\ Cardinality(Inserting(m)) \in Nat
<1>1. IsFiniteSet(Adding(m)) BY FiniteAssumption, FS_Subset DEF Adding
<1>2. IsFiniteSet(Inserting(m)) BY FiniteAssumption, FS_Subset DEF Inserting
<1> QED BY <1>1, <1>2, FS_CardinalityType

\* Steps that leave the callers alone leave who is adding what.
LEMMA SameAdding ==
  ASSUME UNCHANGED adding
  PROVE  \A m : Adding(m)' = Adding(m)
BY DEF Adding

\* Steps that leave the slots alone leave who is about to insert.
LEMMA SameInserting ==
  ASSUME UNCHANGED slot
  PROVE  \A m : Inserting(m)' = Inserting(m)
BY DEF Inserting

\* What an unsettled job may still be given is positive, and a natural number always.
LEMMA LeftIsNat ==
  ASSUME IInv, NEW m \in Messages
  PROVE  /\ Left(m) \in Nat
         /\ job[m].attempts \in 0..MaxAttempts /\ job[m].stalls \in 0..MaxStalls
         /\ job[m].state \in JobStates
         /\ adds[m] \in Nat /\ rows[m]["inserted"] \in Nat /\ rows[m]["sent"] \in Nat
         /\ adds[m] * (MaxAttempts + MaxStalls) \in Nat
<1>1. job[m] \in [state : JobStates, attempts : 0..MaxAttempts, stalls : 0..MaxStalls]
      /\ adds[m] \in 0..MaxAdds /\ rows[m] \in [Outcomes -> Nat]
  BY DEF IInv, TypeOK
<1>2. rows[m]["inserted"] \in Nat /\ rows[m]["sent"] \in Nat BY <1>1 DEF Outcomes
<1>3. Left(m) \in Nat BY <1>1, BoundsAssumption DEF Left, IInv, UnsettledHasAttempts
<1>4. adds[m] \in Nat /\ MaxAttempts + MaxStalls \in Nat BY <1>1, BoundsAssumption
<1>5. adds[m] * (MaxAttempts + MaxStalls) \in Nat BY <1>4
<1> QED BY <1>1, <1>2, <1>3, <1>4, <1>5

\* Nothing is queued yet.
LEMMA InitIInv == Init => IInv
<1> SUFFICES ASSUME Init PROVE IInv OBVIOUS
<1>1. \A m \in Messages : Adding(m) = {} BY NoMessageAssumption DEF Init, Adding
<1>2. \A m \in Messages : Inserting(m) = {} BY DEF Init, Inserting, Free
<1>3. Cardinality({}) = 0 BY FS_EmptySet
<1>4. TypeOK
  BY BoundsAssumption
  DEF Init, TypeOK, NoJob, Free, JobStates, SlotSteps, Outcomes
<1>5. SlotsWellFormed /\ LocksWellFormed
  BY DEF Init, SlotsWellFormed, LocksWellFormed, MayLoseLock, Free
<1>6. UnsettledHasAttempts /\ SentBeforeComplete /\ CompletedMeansSent
  BY DEF Init, UnsettledHasAttempts, SentBeforeComplete, CompletedMeansSent, NoJob, Free
<1>7. AddsBudget BY <1>1, <1>3, BoundsAssumption DEF Init, AddsBudget
<1>8. AttemptsBudget
  <2> SUFFICES ASSUME NEW m \in Messages
               PROVE  rows[m]["inserted"] + Cardinality(Inserting(m)) + Left(m)
                        <= adds[m] * (MaxAttempts + MaxStalls)
    BY DEF AttemptsBudget
  <2>1. rows[m]["inserted"] = 0 /\ Left(m) = 0 /\ adds[m] = 0
    BY DEF Init, Outcomes, Left, NoJob
  <2>2. 0 * (MaxAttempts + MaxStalls) = 0 BY BoundsAssumption
  <2> QED BY <1>2, <1>3, <2>1, <2>2
<1> QED BY <1>4, <1>5, <1>6, <1>7, <1>8 DEF IInv

-----------------------------------------------------------------------------
(* The callers.                                                            *)

\* A call that passed the dedupe key is counted in the budget of adds.
LEMMA EnqueueIInv ==
  ASSUME IInv, NEW c \in Callers, NEW m \in Messages, EnqueueNotification(c, m),
         UNCHANGED faults
  PROVE  IInv'
<1> USE DEF EnqueueNotification
<1>1. TypeOK' BY DEF IInv, TypeOK
<1>2. (SlotsWellFormed /\ LocksWellFormed /\ UnsettledHasAttempts /\ SentBeforeComplete
         /\ CompletedMeansSent)'
  BY DEF IInv, SlotsWellFormed, LocksWellFormed, MayLoseLock, Holds, UnsettledHasAttempts,
         SentBeforeComplete, CompletedMeansSent
<1>3. AttemptsBudget' BY SameInserting DEF IInv, AttemptsBudget, Left
<1>4. Adding(m)' = Adding(m) \cup {c} /\ c \notin Adding(m)
  BY NoMessageAssumption DEF IInv, TypeOK, Adding
<1>5. Cardinality(Adding(m)') = Cardinality(Adding(m)) + 1
  BY <1>4, SetsFinite, FS_AddElement
<1>6. \A n \in Messages \ {m} : Adding(n)' = Adding(n)
  BY NoMessageAssumption DEF IInv, TypeOK, Adding
<1>7. AddsBudget'
  BY <1>5, <1>6, SetsFinite, LeftIsNat, BoundsAssumption DEF IInv, AddsBudget
<1> QED BY <1>1, <1>2, <1>3, <1>7 DEF IInv

\* A call ends: its add made a job, was ignored or failed.
LEMMA CallEndsIInv ==
  ASSUME IInv, NEW c \in Callers, adding[c] # NoMessage,
         adding' = [adding EXCEPT ![c] = NoMessage],
         UNCHANGED <<dedupe, lock, slot, exhausted, dead, rows>>,
         \/ UNCHANGED <<job, adds>>
         \/ /\ job[adding[c]].state = "none"
            /\ job' = [job EXCEPT ![adding[c]] = [NoJob EXCEPT !.state = "waiting"]]
            /\ adds' = [adds EXCEPT ![adding[c]] = @ + 1],
         UNCHANGED faults
  PROVE  IInv'
<1>1. PICK m \in Messages : m = adding[c] BY DEF IInv, TypeOK
<1>2. Adding(m)' = Adding(m) \ {c} /\ c \in Adding(m)
  BY <1>1, NoMessageAssumption DEF IInv, TypeOK, Adding
<1>3. Cardinality(Adding(m)') = Cardinality(Adding(m)) - 1
  BY <1>2, SetsFinite, FS_RemoveElement
<1>4. \A n \in Messages \ {m} : Adding(n)' = Adding(n)
  BY <1>1, NoMessageAssumption DEF IInv, TypeOK, Adding
<1>5. AddsBudget'
  <2>1. Cardinality(Adding(m)) \in Nat /\ Cardinality(Adding(m)') \in Int /\ adds[m] \in Nat
    <3>1. Cardinality(Adding(m)) \in Nat BY SetsFinite
    <3>2. Cardinality(Adding(m)') \in Int BY <1>3, <3>1
    <3> QED BY <1>1, <3>1, <3>2, LeftIsNat
  <2>2. adds[m] + Cardinality(Adding(m)) <= MaxAdds BY <1>1 DEF IInv, AddsBudget
  <2>3. adds'[m] + Cardinality(Adding(m)') <= MaxAdds
    <3>1. adds'[m] = adds[m] \/ adds'[m] = adds[m] + 1 BY <1>1 DEF IInv, TypeOK
    <3> QED BY <1>3, <2>1, <2>2, <3>1, BoundsAssumption
  <2>4. \A n \in Messages \ {m} : adds'[n] = adds[n] BY <1>1 DEF IInv, TypeOK
  <2> QED BY <1>4, <2>3, <2>4 DEF IInv, AddsBudget
<1>6. adds[m] + 1 <= MaxAdds
  <2>1. Cardinality(Adding(m)) # 0 BY <1>2, SetsFinite, FS_EmptySet
  <2>2. Cardinality(Adding(m)) \in Nat /\ adds[m] \in Nat BY <1>1, SetsFinite, LeftIsNat
  <2>3. adds[m] + Cardinality(Adding(m)) <= MaxAdds BY <1>1 DEF IInv, AddsBudget
  <2> QED BY <2>1, <2>2, <2>3, BoundsAssumption
<1>7. CASE UNCHANGED <<job, adds>>
  <2>1. TypeOK' BY <1>7, NoMessageAssumption DEF IInv, TypeOK
  <2>2. (SlotsWellFormed /\ LocksWellFormed /\ UnsettledHasAttempts /\ SentBeforeComplete
           /\ CompletedMeansSent)'
    BY <1>7
    DEF IInv, SlotsWellFormed, LocksWellFormed, MayLoseLock, Holds, UnsettledHasAttempts,
        SentBeforeComplete, CompletedMeansSent
  <2>3. AttemptsBudget' BY <1>7, SameInserting DEF IInv, AttemptsBudget, Left
  <2> QED BY <1>5, <2>1, <2>2, <2>3 DEF IInv
<1>8. CASE /\ job[m].state = "none"
           /\ job' = [job EXCEPT ![m] = [NoJob EXCEPT !.state = "waiting"]]
           /\ adds' = [adds EXCEPT ![m] = @ + 1]
  <2>1. /\ job'[m] = [state |-> "waiting", attempts |-> 0, stalls |-> 0]
        /\ \A n \in Messages \ {m} : job'[n] = job[n] /\ adds'[n] = adds[n]
        /\ adds'[m] = adds[m] + 1
    BY <1>1, <1>8 DEF IInv, TypeOK, NoJob
  <2>2. TypeOK'
    <3>1. adds'[m] \in 0..MaxAdds BY <1>1, <1>6, <2>1, LeftIsNat, BoundsAssumption
    <3>2. adds' \in [Messages -> 0..MaxAdds] BY <1>1, <1>8, <2>1, <3>1 DEF IInv, TypeOK
    <3>3. job' \in [Messages -> [state : JobStates, attempts : 0..MaxAttempts,
                                 stalls : 0..MaxStalls]]
      BY <1>1, <1>8, BoundsAssumption DEF IInv, TypeOK, NoJob, JobStates
    <3> QED BY <3>2, <3>3 DEF IInv, TypeOK
  <2>3. lock[m] = NoSlot BY <1>1, <1>8 DEF IInv, LocksWellFormed, MayLoseLock
  <2>4. (SlotsWellFormed /\ LocksWellFormed)'
    BY <1>1, <2>1, <2>3 DEF IInv, SlotsWellFormed, LocksWellFormed, MayLoseLock, Holds
  <2>5. (UnsettledHasAttempts /\ SentBeforeComplete /\ CompletedMeansSent)'
    BY <1>1, <2>1, BoundsAssumption
    DEF IInv, UnsettledHasAttempts, SentBeforeComplete, CompletedMeansSent
  <2>6. AttemptsBudget'
    <3>1. Left(m) = 0 /\ Left(m)' = MaxAttempts + MaxStalls
      BY <1>1, <1>8, <2>1, BoundsAssumption DEF Left
    <3>2. \A n \in Messages \ {m} : Left(n)' = Left(n) BY <2>1 DEF Left
    <3>3. (adds[m] + 1) * (MaxAttempts + MaxStalls)
            = adds[m] * (MaxAttempts + MaxStalls) + (MaxAttempts + MaxStalls)
      BY <1>1, LeftIsNat, BoundsAssumption
    <3>4. rows'[m]["inserted"] + Cardinality(Inserting(m)') + Left(m)'
            <= adds'[m] * (MaxAttempts + MaxStalls)
      BY <1>1, <2>1, <3>1, <3>3, SameInserting, SetsFinite, LeftIsNat, BoundsAssumption
      DEF IInv, AttemptsBudget
    <3>5. \A n \in Messages \ {m} :
            rows'[n]["inserted"] + Cardinality(Inserting(n)') + Left(n)'
              <= adds'[n] * (MaxAttempts + MaxStalls)
      BY <2>1, <3>2, SameInserting DEF IInv, AttemptsBudget
    <3> QED BY <3>4, <3>5 DEF AttemptsBudget
  <2> QED BY <1>5, <2>2, <2>4, <2>5, <2>6 DEF IInv
<1> QED BY <1>1, <1>7, <1>8

-----------------------------------------------------------------------------
(* The worker.                                                             *)

\* A slot takes a waiting job: one attempt moves from the queue to the slot.
LEMMA TakeIInv ==
  ASSUME IInv, NEW w \in Slots, NEW m \in Messages, Take(w, m),
         UNCHANGED faults
  PROVE  IInv'
<1>1. /\ UNCHANGED <<dedupe, adding, exhausted, dead, adds, rows>>
      /\ job[m].state = "waiting" /\ slot[w] = Free
      /\ job' = [job EXCEPT ![m].state = "active"]
      /\ lock' = [lock EXCEPT ![m] = w]
      /\ slot' = [slot EXCEPT ![w] = [step |-> "insert", message |-> m]]
  BY DEF Take
<1>2. TypeOK' BY <1>1 DEF IInv, TypeOK, JobStates, SlotSteps
<1>3. /\ slot'[w] = [step |-> "insert", message |-> m]
      /\ \A v \in Slots \ {w} : slot'[v] = slot[v]
      /\ lock'[m] = w /\ \A n \in Messages \ {m} : lock'[n] = lock[n] /\ job'[n] = job[n]
      /\ job'[m] = [job[m] EXCEPT !.state = "active"]
  BY <1>1 DEF IInv, TypeOK
<1>4. job'[m].state = "active" /\ job'[m].attempts = job[m].attempts
      /\ job'[m].stalls = job[m].stalls
  BY <1>3 DEF IInv, TypeOK
<1>5. SlotsWellFormed' BY <1>3, NoMessageAssumption DEF IInv, SlotsWellFormed
<1>6. lock[m] = NoSlot /\ \A n \in Messages : lock[n] # w
  BY <1>1, NoMessageAssumption, NoSlotAssumption DEF IInv, LocksWellFormed, MayLoseLock, Free
<1>7. LocksWellFormed'
  <2>1. \A n \in Messages : lock'[n] # NoSlot =>
          job'[n].state = "active" /\ slot'[lock'[n]].message = n
    BY <1>3, <1>4, <1>6 DEF IInv, LocksWellFormed, MayLoseLock, TypeOK
  <2>2. ASSUME ~MayLoseLock, NEW v \in Slots, slot'[v] # Free PROVE Holds(v)'
    <3>1. CASE v = w BY <1>3, <3>1 DEF Holds
    <3>2. CASE v # w
      <4>1. slot[v] # Free /\ Holds(v)
        BY <1>3, <2>2, <3>2 DEF IInv, LocksWellFormed, MayLoseLock
      <4>2. slot[v].message # m
        BY <1>6, <4>1, NoSlotAssumption DEF Holds
      <4>3. slot[v].message \in Messages
        BY <4>1 DEF IInv, SlotsWellFormed, TypeOK, Free
      <4> QED BY <1>3, <3>2, <4>1, <4>2, <4>3 DEF Holds
    <3> QED BY <3>1, <3>2
  <2> QED BY <2>1, <2>2 DEF LocksWellFormed, MayLoseLock
<1>8. (UnsettledHasAttempts /\ SentBeforeComplete /\ CompletedMeansSent)'
  BY <1>1, <1>3, <1>4
  DEF IInv, UnsettledHasAttempts, SentBeforeComplete, CompletedMeansSent
<1>9. AddsBudget' BY <1>1, SameAdding DEF IInv, AddsBudget
<1>10. AttemptsBudget'
  <2>1. Inserting(m)' = Inserting(m) \cup {w} /\ w \notin Inserting(m)
    BY <1>1, <1>3 DEF Inserting, Free
  <2>2. Cardinality(Inserting(m)') = Cardinality(Inserting(m)) + 1
    BY <2>1, SetsFinite, FS_AddElement
  <2>3. Left(m)' = Left(m) - 1 BY <1>1, <1>4, LeftIsNat, BoundsAssumption DEF Left
  <2>4. \A n \in Messages \ {m} : Inserting(n)' = Inserting(n) /\ Left(n)' = Left(n)
    BY <1>1, <1>3 DEF Inserting, Left, Free
  <2> QED BY <1>1, <2>2, <2>3, <2>4, SetsFinite, LeftIsNat DEF IInv, AttemptsBudget
<1> QED BY <1>2, <1>5, <1>7, <1>8, <1>9, <1>10 DEF IInv

\* An attempt goes on: its slot moves to another step, and rows only grow, by at most
\* the row of an attempt that was about to insert one.
LEMMA AttemptIInv ==
  ASSUME IInv, NEW w \in Slots, NEW step \in SlotSteps \ {"idle", "insert"},
         slot[w] # Free,
         slot' = [slot EXCEPT ![w].step = step],
         UNCHANGED <<dedupe, adding, job, lock, exhausted, dead, adds>>,
         rows' \in [Messages -> [Outcomes -> Nat]],
         \A m \in Messages : rows'[m]["sent"] >= rows[m]["sent"],
         \A m \in Messages : rows'[m]["inserted"] = rows[m]["inserted"]
                               + (IF slot[w].step = "insert" /\ slot[w].message = m
                                  THEN rows'[m]["inserted"] - rows[m]["inserted"] ELSE 0),
         \A m \in Messages : rows'[m]["inserted"] <= rows[m]["inserted"] + 1,
         step = "complete" => rows'[slot[w].message]["sent"] > 0,
         UNCHANGED faults
  PROVE  IInv'
<1> DEFINE m == slot[w].message
<1>1. m \in Messages /\ slot[w].step # "idle"
  BY DEF IInv, SlotsWellFormed, TypeOK, Free
<1>2. /\ slot'[w].step = step /\ slot'[w].message = m
      /\ slot'[w] = [step |-> step, message |-> m]
      /\ \A v \in Slots \ {w} : slot'[v] = slot[v]
  BY DEF IInv, TypeOK
<1>3. TypeOK' BY DEF IInv, TypeOK
<1>4. SlotsWellFormed' BY <1>1, <1>2, NoMessageAssumption DEF IInv, SlotsWellFormed
<1>5. LocksWellFormed' BY <1>1, <1>2 DEF IInv, LocksWellFormed, MayLoseLock, Holds, TypeOK
<1>6. (UnsettledHasAttempts /\ AddsBudget)'
  BY SameAdding DEF IInv, UnsettledHasAttempts, AddsBudget
<1>7. CompletedMeansSent'
  BY LeftIsNat DEF IInv, CompletedMeansSent, Outcomes
<1>8. SentBeforeComplete'
  <2> SUFFICES ASSUME NEW v \in Slots, slot'[v].step = "complete"
               PROVE  rows'[slot'[v].message]["sent"] > 0
    BY DEF SentBeforeComplete
  <2>1. CASE v = w BY <1>2, <2>1
  <2>2. CASE v # w
    <3>1. slot'[v] = slot[v] /\ rows[slot[v].message]["sent"] > 0
      BY <1>2, <2>2 DEF IInv, SentBeforeComplete
    <3>2. slot[v].message \in Messages BY <3>1 DEF IInv, SlotsWellFormed, TypeOK
    <3>3. rows'[slot[v].message]["sent"] \in Nat BY <3>2 DEF Outcomes
    <3> QED BY <3>1, <3>2, <3>3, LeftIsNat
  <2> QED BY <2>1, <2>2
<1>9. AttemptsBudget'
  <2>1. \A n \in Messages : Left(n)' = Left(n) BY DEF Left
  <2>2. \A n \in Messages : rows'[n]["inserted"] \in Nat BY DEF Outcomes
  <2>3. \A n \in Messages \ {m} : Inserting(n)' = Inserting(n)
    BY <1>2 DEF Inserting
  <2>4. CASE slot[w].step = "insert"
    <3>1. Inserting(m)' = Inserting(m) \ {w} /\ w \in Inserting(m)
      BY <1>2, <2>4 DEF Inserting, IInv, TypeOK
    <3>2. Cardinality(Inserting(m)') = Cardinality(Inserting(m)) - 1
      BY <3>1, SetsFinite, FS_RemoveElement
    <3> QED BY <1>1, <2>1, <2>2, <2>3, <3>2, SetsFinite, LeftIsNat DEF IInv, AttemptsBudget
  <2>5. CASE slot[w].step # "insert"
    <3>1. Inserting(m)' = Inserting(m) BY <1>2, <2>5 DEF Inserting
    <3>2. \A n \in Messages : rows'[n]["inserted"] = rows[n]["inserted"]
      BY <2>5, LeftIsNat
    <3> QED BY <2>1, <2>3, <3>1, <3>2 DEF IInv, AttemptsBudget
  <2> QED BY <2>4, <2>5
<1> QED BY <1>3, <1>4, <1>5, <1>6, <1>7, <1>8, <1>9 DEF IInv

\* The statements of an attempt.
LEMMA StatementIInv ==
  ASSUME IInv, NEW w \in Slots, InsertRow(w) \/ Send(w) \/ MarkSent(w) \/ MarkFailed(w),
         UNCHANGED faults
  PROVE  IInv'
<1>1. PICK m \in Messages : m = slot[w].message
  BY DEF IInv, TypeOK, SlotsWellFormed, InsertRow, Send, MarkSent, MarkFailed
<1>2. slot[w] # Free
  BY DEF InsertRow, Send, MarkSent, MarkFailed, Free
<1>3. rows \in [Messages -> [Outcomes -> Nat]] BY DEF IInv, TypeOK
<1>4. \A n \in Messages : rows[n]["inserted"] \in Nat /\ rows[n]["sent"] \in Nat
  BY LeftIsNat
<1>5. ASSUME NEW o \in Outcomes, Counted(m, o)
      PROVE  /\ rows' \in [Messages -> [Outcomes -> Nat]]
             /\ \A n \in Messages : \A q \in Outcomes :
                  rows'[n][q] = IF n = m /\ q = o THEN rows[n][q] + 1 ELSE rows[n][q]
  BY <1>3, <1>5 DEF Counted, Outcomes
<1>6. ASSUME NEW step \in SlotSteps \ {"idle", "insert"}, UNCHANGED rows,
             Goto(w, step), step # "complete",
             UNCHANGED <<dedupe, adding, job, lock, exhausted, dead, adds>>
      PROVE  IInv'
  <2>1. /\ rows' \in [Messages -> [Outcomes -> Nat]]
        /\ \A n \in Messages : /\ rows'[n]["sent"] >= rows[n]["sent"]
                               /\ rows'[n]["inserted"] <= rows[n]["inserted"] + 1
    BY <1>3, <1>4, <1>6
  <2>2. \A n \in Messages : rows'[n]["inserted"] = rows[n]["inserted"]
                             + (IF slot[w].step = "insert" /\ slot[w].message = n
                                THEN rows'[n]["inserted"] - rows[n]["inserted"] ELSE 0)
    BY <1>4, <1>6
  <2>3. slot' = [slot EXCEPT ![w].step = step] BY <1>6 DEF Goto
  <2> QED BY <1>2, <1>6, <2>1, <2>2, <2>3, AttemptIInv
<1>7. CASE InsertRow(w)
  <2>1. CASE Throw(w) /\ UNCHANGED rows BY <1>6, <1>7, <2>1 DEF InsertRow, Throw, SlotSteps
  <2>2. CASE Goto(w, "send") /\ Counted(m, "inserted")
    <3>1. /\ rows' \in [Messages -> [Outcomes -> Nat]]
          /\ \A n \in Messages : rows'[n]["sent"] = rows[n]["sent"]
          /\ \A n \in Messages : rows'[n]["inserted"]
               = IF n = m THEN rows[n]["inserted"] + 1 ELSE rows[n]["inserted"]
      BY <1>5, <2>2 DEF Outcomes
    <3>2. slot[w].step = "insert" /\ "send" \in SlotSteps \ {"idle", "insert"}
      BY <1>7 DEF InsertRow, SlotSteps
    <3>3. \A n \in Messages : rows'[n]["inserted"] <= rows[n]["inserted"] + 1
      BY <1>4, <3>1
    <3>4. \A n \in Messages : rows'[n]["inserted"] = rows[n]["inserted"]
                               + (IF slot[w].step = "insert" /\ slot[w].message = n
                                  THEN rows'[n]["inserted"] - rows[n]["inserted"] ELSE 0)
      BY <1>1, <1>4, <3>1, <3>2
    <3>5. \A n \in Messages : rows'[n]["sent"] >= rows[n]["sent"] BY <1>4, <3>1
    <3>6. slot' = [slot EXCEPT ![w].step = "send"]
          /\ UNCHANGED <<dedupe, adding, job, lock, exhausted, dead, adds>>
      BY <1>7, <2>2 DEF InsertRow, Goto
    <3> QED BY <1>2, <3>1, <3>2, <3>3, <3>4, <3>5, <3>6, AttemptIInv
  <2> QED BY <1>1, <1>7, <2>1, <2>2 DEF InsertRow
<1>8. CASE Send(w) BY <1>6, <1>8 DEF Send, SlotSteps
<1>9. ASSUME NEW step \in {"complete", "fail"}, NEW o \in {"sent", "failed"},
             Goto(w, step), Counted(m, o), step = "complete" => o = "sent",
             slot[w].step # "insert",
             UNCHANGED <<dedupe, adding, job, lock, exhausted, dead, adds>>
      PROVE  IInv'
  <2>1. /\ rows' \in [Messages -> [Outcomes -> Nat]]
        /\ \A n \in Messages : rows'[n]["inserted"] = rows[n]["inserted"]
        /\ \A n \in Messages : rows'[n]["sent"]
             = IF n = m /\ o = "sent" THEN rows[n]["sent"] + 1 ELSE rows[n]["sent"]
    BY <1>5, <1>9 DEF Outcomes
  <2>2. \A n \in Messages : /\ rows'[n]["sent"] >= rows[n]["sent"]
                            /\ rows'[n]["inserted"] <= rows[n]["inserted"] + 1
    BY <1>4, <2>1
  <2>3. \A n \in Messages : rows'[n]["inserted"] = rows[n]["inserted"]
                             + (IF slot[w].step = "insert" /\ slot[w].message = n
                                THEN rows'[n]["inserted"] - rows[n]["inserted"] ELSE 0)
    BY <1>4, <1>9, <2>1
  <2>4. step = "complete" => rows'[slot[w].message]["sent"] > 0
    BY <1>1, <1>4, <1>9, <2>1
  <2>5. step \in SlotSteps \ {"idle", "insert"} BY DEF SlotSteps
  <2>6. slot' = [slot EXCEPT ![w].step = step] BY <1>9 DEF Goto
  <2> QED BY <1>2, <1>9, <2>1, <2>2, <2>3, <2>4, <2>5, <2>6, AttemptIInv
<1>10. CASE MarkSent(w)
  <2>1. CASE Goto(w, "complete") /\ Counted(m, "sent")
    BY <1>9, <1>10, <2>1 DEF MarkSent
  <2>2. CASE Goto(w, "markFailed") /\ UNCHANGED rows
    BY <1>6, <1>10, <2>2 DEF MarkSent, SlotSteps
  <2> QED BY <1>1, <1>10, <2>1, <2>2 DEF MarkSent
<1>11. CASE MarkFailed(w)
  <2>1. CASE Goto(w, "fail") /\ Counted(m, "failed")
    BY <1>9, <1>11, <2>1 DEF MarkFailed
  <2>2. CASE Throw(w) /\ UNCHANGED rows
    BY <1>6, <1>11, <2>2 DEF MarkFailed, Throw, SlotSteps
  <2> QED BY <1>1, <1>11, <2>1, <2>2 DEF MarkFailed
<1> QED BY <1>7, <1>8, <1>10, <1>11

-----------------------------------------------------------------------------
(* How attempts and jobs end.                                              *)

\* The report of a slot that lost its lock frees the slot and does no more.
LEMMA LateReportIInv ==
  ASSUME IInv, NEW w \in Slots, Report(w), ~Holds(w), slot[w].message # NoMessage,
         slot[w].step # "insert",
         UNCHANGED <<dedupe, adding, job, lock, exhausted, dead, adds, rows>>,
         UNCHANGED faults
  PROVE  IInv'
<1>1. slot'[w] = Free /\ \A v \in Slots \ {w} : slot'[v] = slot[v]
  BY DEF Report, IInv, TypeOK
<1>2. TypeOK' BY DEF Report, IInv, TypeOK, Free, SlotSteps
<1>3. SlotsWellFormed' BY <1>1 DEF IInv, SlotsWellFormed, Free
<1>4. LocksWellFormed'
  <2>1. slot[w].message \in Messages BY DEF IInv, TypeOK
  <2>2. \A n \in Messages : lock[n] # w
    BY <2>1, NoSlotAssumption DEF Holds, IInv, LocksWellFormed, MayLoseLock
  <2>3. \A n \in Messages : lock[n] # NoSlot => lock[n] \in Slots \ {w}
    BY <2>2 DEF IInv, TypeOK
  <2> QED BY <1>1, <2>3 DEF IInv, LocksWellFormed, MayLoseLock, Holds
<1>5. (UnsettledHasAttempts /\ CompletedMeansSent /\ AddsBudget)'
  BY SameAdding DEF IInv, UnsettledHasAttempts, CompletedMeansSent, AddsBudget
<1>6. SentBeforeComplete' BY <1>1 DEF IInv, SentBeforeComplete, Free
<1>7. AttemptsBudget'
  <2>1. \A n \in Messages : Inserting(n)' = Inserting(n) /\ Left(n)' = Left(n)
    BY <1>1 DEF Inserting, Free, Left
  <2> QED BY <2>1 DEF IInv, AttemptsBudget
<1> QED BY <1>2, <1>3, <1>4, <1>5, <1>6, <1>7 DEF IInv

\* The report of a slot that holds the lock settles or delays the job.
LEMMA ReportIInv ==
  ASSUME IInv, NEW w \in Slots, NEW m \in Messages, m = slot[w].message,
         Report(w), Holds(w), Release(m), slot[w].step # "insert",
         NEW j \in [state : JobStates, attempts : 0..MaxAttempts, stalls : 0..MaxStalls],
         job' = [job EXCEPT ![m] = j],
         j.state \in {"completed", "failed", "delayed"},
         j.state = "completed" => rows[m]["sent"] > 0,
         j.state = "delayed" => /\ j.attempts = job[m].attempts + 1
                                /\ j.attempts < MaxAttempts
                                /\ j.stalls = job[m].stalls,
         exhausted' \subseteq Messages,
         UNCHANGED <<dedupe, adding, dead, adds, rows>>,
         UNCHANGED faults
  PROVE  IInv'
<1>1. /\ slot'[w] = Free /\ \A v \in Slots \ {w} : slot'[v] = slot[v]
      /\ job'[m] = j /\ \A n \in Messages \ {m} : job'[n] = job[n] /\ lock'[n] = lock[n]
      /\ lock'[m] = NoSlot
  BY DEF Report, Release, IInv, TypeOK
<1>2. TypeOK' BY DEF Report, Release, IInv, TypeOK, Free, SlotSteps
<1>3. SlotsWellFormed' BY <1>1 DEF IInv, SlotsWellFormed, Free
<1>4. LocksWellFormed'
  <2>1. \A n \in Messages \ {m} : lock[n] # w
    BY NoSlotAssumption DEF IInv, LocksWellFormed, MayLoseLock
  <2>2. \A n \in Messages : lock'[n] # NoSlot => n # m /\ lock'[n] \in Slots \ {w}
    BY <1>1, <2>1 DEF IInv, TypeOK
  <2>3. \A n \in Messages : lock'[n] # NoSlot =>
          job'[n].state = "active" /\ slot'[lock'[n]].message = n
    BY <1>1, <2>2 DEF IInv, LocksWellFormed, MayLoseLock
  <2>4. ASSUME ~MayLoseLock, NEW v \in Slots, slot'[v] # Free PROVE Holds(v)'
    <3>1. v # w /\ slot'[v] = slot[v] /\ Holds(v)
      BY <1>1, <2>4 DEF IInv, LocksWellFormed, MayLoseLock
    <3>2. slot[v].message # m BY <3>1 DEF Holds
    <3>3. slot[v].message \in Messages
      BY <2>4, <3>1 DEF IInv, SlotsWellFormed, TypeOK, Free
    <3> QED BY <1>1, <3>1, <3>2, <3>3 DEF Holds
  <2> QED BY <2>3, <2>4 DEF LocksWellFormed, MayLoseLock
<1>5. (UnsettledHasAttempts /\ CompletedMeansSent)'
  BY <1>1 DEF IInv, UnsettledHasAttempts, CompletedMeansSent
<1>6. AddsBudget' BY SameAdding DEF IInv, AddsBudget
<1>7. SentBeforeComplete' BY <1>1 DEF IInv, SentBeforeComplete, Free
<1>8. AttemptsBudget'
  <2>1. \A n \in Messages : Inserting(n)' = Inserting(n)
    BY <1>1 DEF Inserting, Free
  <2>2. \A n \in Messages \ {m} : Left(n)' = Left(n) BY <1>1 DEF Left
  <2>3. job[m].state = "active"
    BY NoSlotAssumption DEF Holds, IInv, LocksWellFormed, MayLoseLock
  <2>4. Left(m)' <= Left(m) /\ Left(m)' \in Nat
    <3>1. CASE j.state = "delayed"
      BY <1>1, <2>3, <3>1, LeftIsNat, BoundsAssumption DEF Left
    <3>2. CASE j.state # "delayed"
      <4>1. Left(m)' = 0 BY <1>1, <3>2 DEF Left
      <4> QED BY <4>1, LeftIsNat
    <3> QED BY <3>1, <3>2
  <2> QED BY <2>1, <2>2, <2>4, SetsFinite, LeftIsNat DEF IInv, AttemptsBudget
<1> QED BY <1>2, <1>3, <1>4, <1>5, <1>6, <1>7, <1>8 DEF IInv

\* An attempt that succeeded.
LEMMA CompleteIInv ==
  ASSUME IInv, NEW w \in Slots, Complete(w),
         UNCHANGED faults
  PROVE  IInv'
<1>1. PICK m \in Messages : m = slot[w].message
  BY DEF IInv, TypeOK, SlotsWellFormed, Complete
<1>2. CASE ~Holds(w)
  BY <1>1, <1>2, NoMessageAssumption, LateReportIInv DEF Complete
<1>3. CASE Holds(w)
  <2> DEFINE j == [job[m] EXCEPT !.state = "completed"]
  <2>1. j \in [state : JobStates, attempts : 0..MaxAttempts, stalls : 0..MaxStalls]
        /\ j.state = "completed"
    BY DEF IInv, TypeOK, JobStates
  <2>2. job' = [job EXCEPT ![m] = j] /\ Release(m)
    BY <1>1, <1>3 DEF Complete
  <2>3. rows[m]["sent"] > 0 BY <1>1 DEF Complete, IInv, SentBeforeComplete
  <2> HIDE DEF j
  <2>4. exhausted' \subseteq Messages BY DEF Complete, IInv, TypeOK
  <2> QED BY <1>1, <1>3, <2>1, <2>2, <2>3, <2>4, ReportIInv DEF Complete
<1> QED BY <1>2, <1>3

\* An attempt that threw.
LEMMA FailAttemptIInv ==
  ASSUME IInv, NEW w \in Slots, FailAttempt(w),
         UNCHANGED faults
  PROVE  IInv'
<1>1. PICK m \in Messages : m = slot[w].message
  BY DEF IInv, TypeOK, SlotsWellFormed, FailAttempt
<1>2. CASE ~Holds(w)
  BY <1>1, <1>2, NoMessageAssumption, LateReportIInv DEF FailAttempt
<1>3. CASE Holds(w)
  <2> DEFINE n == job[m].attempts + 1
             s == IF AttemptsLeft(n) THEN "delayed" ELSE "failed"
             j == [job[m] EXCEPT !.attempts = n, !.state = s]
  <2>1. job[m].state = "active" /\ n \in 0..MaxAttempts
    BY <1>1, <1>3, NoSlotAssumption, LeftIsNat, BoundsAssumption
    DEF Holds, IInv, LocksWellFormed, MayLoseLock, UnsettledHasAttempts
  <2>2. /\ j \in [state : JobStates, attempts : 0..MaxAttempts, stalls : 0..MaxStalls]
        /\ j.state = s /\ j.attempts = n /\ j.stalls = job[m].stalls
    BY <2>1 DEF IInv, TypeOK, JobStates
  <2>3. s \in {"failed", "delayed"} /\ (s = "delayed" => n < MaxAttempts)
    BY DEF AttemptsLeft
  <2>4. job' = [job EXCEPT ![m] = j] /\ Release(m) /\ FailedEvent(m, n)
    BY <1>1, <1>3 DEF FailAttempt, IInv, TypeOK
  <2>5. exhausted' \subseteq Messages BY <2>4 DEF FailedEvent, IInv, TypeOK
  <2> HIDE DEF j, s
  <2> QED BY <1>1, <1>3, <2>2, <2>3, <2>4, <2>5, ReportIInv DEF FailAttempt
<1> QED BY <1>2, <1>3

\* A job without a lock changes in the queue: it is retried, put back, failed for
\* stalling or evicted.
LEMMA QueueIInv ==
  ASSUME IInv, NEW m \in Messages, lock[m] = NoSlot,
         NEW j \in [state : JobStates, attempts : 0..MaxAttempts, stalls : 0..MaxStalls],
         job' = [job EXCEPT ![m] = j],
         j.state \in {"none", "waiting", "failed"},
         j.state = "waiting" => j.attempts < MaxAttempts,
         Left(m)' <= Left(m), Left(m)' \in Nat,
         exhausted' \subseteq Messages,
         UNCHANGED <<dedupe, adding, lock, slot, dead, adds, rows>>,
         UNCHANGED faults
  PROVE  IInv'
<1>1. job'[m] = j /\ \A n \in Messages \ {m} : job'[n] = job[n] BY DEF IInv, TypeOK
<1>2. TypeOK' BY DEF IInv, TypeOK
<1>3. (SlotsWellFormed /\ LocksWellFormed)'
  BY <1>1 DEF IInv, SlotsWellFormed, LocksWellFormed, MayLoseLock, Holds
<1>4. (UnsettledHasAttempts /\ CompletedMeansSent /\ SentBeforeComplete)'
  BY <1>1 DEF IInv, UnsettledHasAttempts, CompletedMeansSent, SentBeforeComplete
<1>5. AddsBudget' BY SameAdding DEF IInv, AddsBudget
<1>6. AttemptsBudget'
  <2>1. \A n \in Messages \ {m} : Left(n)' = Left(n) BY <1>1 DEF Left
  <2> QED BY <2>1, SameInserting, SetsFinite, LeftIsNat DEF IInv, AttemptsBudget
<1> QED BY <1>2, <1>3, <1>4, <1>5, <1>6 DEF IInv

\* A backoff ends: the attempts left are those that were left.
LEMMA RetryIInv ==
  ASSUME IInv, NEW m \in Messages, Retry(m),
         UNCHANGED faults
  PROVE  IInv'
<1> DEFINE j == [job[m] EXCEPT !.state = "waiting"]
<1>1. /\ j \in [state : JobStates, attempts : 0..MaxAttempts, stalls : 0..MaxStalls]
      /\ j.state = "waiting" /\ j.attempts = job[m].attempts /\ j.stalls = job[m].stalls
  BY DEF IInv, TypeOK, JobStates
<1>2. job' = [job EXCEPT ![m] = j] /\ job'[m] = j BY DEF Retry, IInv, TypeOK
<1> HIDE DEF j
<1>3. lock[m] = NoSlot /\ job[m].attempts < MaxAttempts
  BY DEF Retry, IInv, LocksWellFormed, MayLoseLock, UnsettledHasAttempts
<1>4. Left(m)' = Left(m) BY <1>1, <1>2 DEF Retry, Left
<1>5. exhausted' \subseteq Messages BY DEF Retry, IInv, TypeOK
<1>6. Left(m)' <= Left(m) /\ Left(m)' \in Nat BY <1>4, LeftIsNat
<1>7. UNCHANGED <<dedupe, adding, lock, slot, dead, adds, rows>> BY DEF Retry
<1> QED BY <1>1, <1>2, <1>3, <1>5, <1>6, <1>7, QueueIInv

\* A job without a lock is put back, which costs a stall, or failed.
LEMMA StallIInv ==
  ASSUME IInv, NEW m \in Messages, Stall(m),
         UNCHANGED faults
  PROVE  IInv'
<1>1. job[m].attempts < MaxAttempts BY DEF Stall, IInv, UnsettledHasAttempts
<1>2. CASE job[m].stalls < MaxStalls
  <2> DEFINE j == [job[m] EXCEPT !.state = "waiting", !.stalls = @ + 1]
  <2>1. /\ j \in [state : JobStates, attempts : 0..MaxAttempts, stalls : 0..MaxStalls]
        /\ j.state = "waiting" /\ j.attempts = job[m].attempts
        /\ j.stalls = job[m].stalls + 1
    <3>1. job[m] \in [state : JobStates, attempts : 0..MaxAttempts, stalls : 0..MaxStalls]
      BY DEF IInv, TypeOK
    <3>2. job[m].stalls + 1 \in 0..MaxStalls BY <1>2, LeftIsNat, BoundsAssumption
    <3> QED BY <3>1, <3>2 DEF JobStates
  <2>2. job' = [job EXCEPT ![m] = j] /\ job'[m] = j BY <1>2 DEF Stall, IInv, TypeOK
  <2> HIDE DEF j
  <2>3. Left(m)' = Left(m)
    BY <2>1, <2>2, LeftIsNat, BoundsAssumption DEF Stall, Left
  <2>4. exhausted' \subseteq Messages BY <1>2 DEF Stall, IInv, TypeOK
  <2>5. Left(m)' <= Left(m) /\ Left(m)' \in Nat BY <2>3, LeftIsNat
  <2>6. lock[m] = NoSlot /\ UNCHANGED <<dedupe, adding, lock, slot, dead, adds, rows>>
    BY DEF Stall
  <2> QED BY <1>1, <2>1, <2>2, <2>4, <2>5, <2>6, QueueIInv
<1>3. CASE ~(job[m].stalls < MaxStalls)
  <2> DEFINE j == [job[m] EXCEPT !.state = "failed"]
  <2>1. /\ j \in [state : JobStates, attempts : 0..MaxAttempts, stalls : 0..MaxStalls]
        /\ j.state = "failed"
    BY DEF IInv, TypeOK, JobStates
  <2>2. job' = [job EXCEPT ![m] = j] /\ job'[m] = j BY <1>3 DEF Stall, IInv, TypeOK
  <2> HIDE DEF j
  <2>3. Left(m)' = 0 BY <2>1, <2>2 DEF Left
  <2>4. exhausted' \subseteq Messages BY <1>3 DEF Stall, FailedEvent, IInv, TypeOK
  <2> QED BY <2>1, <2>2, <2>3, <2>4, LeftIsNat, QueueIInv DEF Stall
<1> QED BY <1>2, <1>3

\* A settled job leaves the queue.
LEMMA EvictIInv ==
  ASSUME IInv, NEW m \in Messages, Evict(m),
         UNCHANGED faults
  PROVE  IInv'
<1>1. /\ NoJob \in [state : JobStates, attempts : 0..MaxAttempts, stalls : 0..MaxStalls]
      /\ NoJob.state = "none"
  BY BoundsAssumption DEF NoJob, JobStates
<1>2. job'[m] = NoJob BY DEF Evict, IInv, TypeOK
<1>3. lock[m] = NoSlot BY DEF Evict, IInv, LocksWellFormed, MayLoseLock
<1>4. Left(m)' = 0 BY <1>1, <1>2 DEF Left
<1>5. exhausted' \subseteq Messages BY DEF Evict, IInv, TypeOK
<1>6. Left(m)' <= Left(m) /\ Left(m)' \in Nat BY <1>4, LeftIsNat
<1>7. /\ job' = [job EXCEPT ![m] = NoJob]
      /\ UNCHANGED <<dedupe, adding, lock, slot, dead, adds, rows>>
  BY DEF Evict
<1> QED BY <1>1, <1>3, <1>5, <1>6, <1>7, QueueIInv

\* Only the dedupe keys, the pending events or the dead-letter queue change.
LEMMA BookkeepingIInv ==
  ASSUME IInv, UNCHANGED <<adding, job, lock, slot, adds, rows>>,
         dedupe' \subseteq Messages, exhausted' \subseteq Messages, dead' \subseteq Messages,
         UNCHANGED faults
  PROVE  IInv'
<1>1. TypeOK' BY DEF IInv, TypeOK
<1>2. (SlotsWellFormed /\ LocksWellFormed /\ UnsettledHasAttempts /\ SentBeforeComplete
         /\ CompletedMeansSent)'
  BY DEF IInv, SlotsWellFormed, LocksWellFormed, MayLoseLock, Holds, UnsettledHasAttempts,
         SentBeforeComplete, CompletedMeansSent
<1>3. (AddsBudget /\ AttemptsBudget)'
  BY SameAdding, SameInserting DEF IInv, AddsBudget, AttemptsBudget, Left
<1> QED BY <1>1, <1>2, <1>3 DEF IInv

\* A lock runs out although its slot works on.
LEMMA LoseLockIInv ==
  ASSUME IInv, NEW m \in Messages, LoseLock(m),
         UNCHANGED faults
  PROVE  IInv'
<1>1. lock'[m] = NoSlot /\ \A n \in Messages \ {m} : lock'[n] = lock[n]
  BY DEF LoseLock, Release, IInv, TypeOK
<1>2. TypeOK' BY DEF LoseLock, Release, IInv, TypeOK
<1>3. LocksWellFormed' BY <1>1 DEF LoseLock, IInv, LocksWellFormed, MayLoseLock
<1>4. (SlotsWellFormed /\ UnsettledHasAttempts /\ SentBeforeComplete /\ CompletedMeansSent)'
  BY DEF LoseLock, IInv, SlotsWellFormed, UnsettledHasAttempts, SentBeforeComplete,
         CompletedMeansSent
<1>5. (AddsBudget /\ AttemptsBudget)'
  BY SameAdding, SameInserting DEF LoseLock, IInv, AddsBudget, AttemptsBudget, Left
<1> QED BY <1>2, <1>3, <1>4, <1>5 DEF IInv

\* The worker dies: no slot is about to insert any more.
LEMMA CrashIInv ==
  ASSUME IInv, Crash,
         UNCHANGED faults
  PROVE  IInv'
<1>1. (\A w \in Slots : slot'[w] = Free) /\ (\A m \in Messages : lock'[m] = NoSlot)
  BY DEF Crash
<1>2. TypeOK' BY DEF Crash, IInv, TypeOK, Free, SlotSteps
<1>3. (SlotsWellFormed /\ LocksWellFormed /\ SentBeforeComplete)'
  BY <1>1 DEF SlotsWellFormed, LocksWellFormed, MayLoseLock, SentBeforeComplete, Free
<1>4. (UnsettledHasAttempts /\ CompletedMeansSent)'
  BY DEF Crash, IInv, UnsettledHasAttempts, CompletedMeansSent
<1>5. AddsBudget' BY SameAdding DEF Crash, IInv, AddsBudget
<1>6. AttemptsBudget'
  <2>1. \A m \in Messages : Inserting(m)' = {} /\ Left(m)' = Left(m)
    BY <1>1 DEF Crash, Inserting, Free, Left
  <2>2. Cardinality({}) = 0 BY FS_EmptySet
  <2>3. \A m \in Messages : Cardinality(Inserting(m)') = 0 BY <2>1, <2>2
  <2>4. UNCHANGED <<rows, adds>> BY DEF Crash
  <2>5. \A m \in Messages : Left(m)' = Left(m) BY <2>1
  <2> SUFFICES ASSUME NEW m \in Messages
               PROVE  rows'[m]["inserted"] + Cardinality(Inserting(m)') + Left(m)'
                        <= adds'[m] * (MaxAttempts + MaxStalls)
    BY DEF AttemptsBudget
  <2>6. rows[m]["inserted"] + Cardinality(Inserting(m)) + Left(m)
          <= adds[m] * (MaxAttempts + MaxStalls)
    BY DEF IInv, AttemptsBudget
  <2>7. rows[m]["inserted"] + 0 + Left(m) <= adds[m] * (MaxAttempts + MaxStalls)
    BY <2>6, SetsFinite, LeftIsNat
  <2> QED BY <2>3, <2>4, <2>5, <2>7
<1> QED BY <1>2, <1>3, <1>4, <1>5, <1>6 DEF IInv

-----------------------------------------------------------------------------
\* Every step of callers, worker and queue keeps the invariant.
LEMMA NextIInv == IInv /\ [Next]_vars => IInv'
<1> SUFFICES ASSUME IInv, [Next]_vars PROVE IInv' OBVIOUS
<1>1. ASSUME NEW c \in Callers, Add(c) \/ AddFails(c), UNCHANGED faults PROVE IInv'
  BY <1>1, CallEndsIInv DEF Add, AddFails
<1>2. ASSUME NEW w \in Slots, Process(w), UNCHANGED faults PROVE IInv'
  BY <1>2, TakeIInv, StatementIInv, CompleteIInv, FailAttemptIInv DEF Process
<1>3. ASSUME NEW m \in Messages,
             DedupeExpires(m) \/ MoveToDeadLetter(m) \/ DeadLetterFails(m),
             UNCHANGED faults
      PROVE  IInv'
  BY <1>3, BookkeepingIInv
  DEF DedupeExpires, MoveToDeadLetter, DeadLetterFails, IInv, TypeOK
<1>4. CASE UNCHANGED vars
  <2>1. dedupe' \subseteq Messages /\ exhausted' \subseteq Messages /\ dead' \subseteq Messages
    BY <1>4 DEF vars, IInv, TypeOK
  <2> QED BY <1>4, <2>1, BookkeepingIInv DEF vars
<1> QED
  BY <1>1, <1>2, <1>3, <1>4, EnqueueIInv, RetryIInv, LoseLockIInv, StallIInv, EvictIInv,
     CrashIInv
  DEF Next, Step

\* IInv holds in every reachable state.
THEOREM QueueInvariance == Spec => []IInv
BY InitIInv, NextIInv, PTL DEF Spec

\* The queue model is type-correct, for any number of payloads, callers and slots.
THEOREM QueueTypeCorrect == Spec => []TypeOK
<1>1. IInv => TypeOK BY DEF IInv
<1> QED BY <1>1, QueueInvariance, PTL

\* As long as locks are renewed no payload is sent by two worker slots at once, whatever
\* crashes, stalls and repeated notifications happen.
THEOREM SendersAreAlone == Spec => []OneSender
<1>1. IInv => OneSender
  <2> SUFFICES ASSUME IInv, ~MayLoseLock, NEW v \in Slots, NEW w \in Slots,
                      slot[v].message = slot[w].message, slot[v] # Free
               PROVE  v = w
    BY DEF OneSender
  <2>1. slot[w] # Free
    BY DEF IInv, TypeOK, SlotsWellFormed, Free
  <2>2. lock[slot[v].message] = v /\ lock[slot[w].message] = w
    BY <2>1 DEF IInv, LocksWellFormed, MayLoseLock, Holds
  <2> QED BY <2>2
<1> QED BY <1>1, QueueInvariance, PTL

\* No job is completed without a notifications row recorded as sent.
\* (notification.service.ts:94-104)
THEOREM JobsAreHonest == Spec => []CompletedMeansSent
<1>1. IInv => CompletedMeansSent BY DEF IInv
<1> QED BY <1>1, QueueInvariance, PTL

\* No payload leaves more rows than its jobs' attempts and stalls allow.
\* (notifications.queue.ts:91, notification.service.ts:83)
THEOREM AttemptsWithinBudget == Spec => []AttemptsBounded
<1>1. IInv => AttemptsBounded
  BY SetsFinite, LeftIsNat DEF IInv, AttemptsBudget, AttemptsBounded
<1> QED BY <1>1, QueueInvariance, PTL

-----------------------------------------------------------------------------
(* The queue as a delivery service.                                        *)

Credit(m)  == Left(m) + Cardinality(Inserting(m))
Working(m) == Cardinality(Unmarked(m))

\* What the contract counts are numbers.
LEMMA CountsAreNat ==
  ASSUME IInv, NEW m \in Messages
  PROVE  /\ Credit(m) \in Nat /\ Working(m) \in Nat
         /\ IsFiniteSet(Unmarked(m)) /\ rows[m]["sent"] \in Nat
<1>1. IsFiniteSet(Unmarked(m))
  BY FiniteAssumption, FS_Subset DEF Unmarked
<1>2. Working(m) \in Nat
  BY <1>1, FS_CardinalityType DEF Working
<1> QED BY <1>1, <1>2, SetsFinite, LeftIsNat DEF Credit

\* The slots that count for a payload depend on nothing but the slots.
LEMMA SlotMoves ==
  ASSUME NEW w \in Slots, \A v \in Slots \ {w} : slot'[v] = slot[v]
  PROVE  \A m :
    /\ Inserting(m)' = IF slot'[w] = [step |-> "insert", message |-> m]
                       THEN Inserting(m) \cup {w} ELSE Inserting(m) \ {w}
    /\ Unmarked(m)' = IF slot'[w].message = m /\ slot'[w].step \in {"send", "markSent", "markFailed"}
                      THEN Unmarked(m) \cup {w} ELSE Unmarked(m) \ {w}
  BY DEF Inserting, Unmarked

LEMMA SameUnmarked ==
  ASSUME UNCHANGED slot
  PROVE  \A m : Unmarked(m)' = Unmarked(m)
  BY DEF Unmarked

\* Steps that grant nothing, record nothing and settle nothing.
LEMMA AttemptsComeToNothing ==
  ASSUME \A m \in Messages : Credit(m)' <= Credit(m) /\ Working(m)' <= Working(m),
         Status' = Status, \A m \in Messages : rows'[m]["sent"] = rows[m]["sent"],
         UNCHANGED faults
  PROVE  Delivery!Next
<1>1. Delivery!ComeToNothing
  BY DEF Delivery!ComeToNothing, Credit, Working, MayLoseLock
<1> QED BY <1>1 DEF Delivery!Next

\* A job changes, the slots do not.
LEMMA JobMoves ==
  ASSUME IInv, NEW m \in Messages, NEW j, job' = [job EXCEPT ![m] = j]
  PROVE  /\ job'[m] = j
         /\ \A n \in Messages \ {m} : job'[n] = job[n] /\ Left(n)' = Left(n)
         /\ Status' = [Status EXCEPT ![m] = IF j.state \in {"waiting", "active", "delayed"}
                                            THEN "open" ELSE j.state]
<1>1. job'[m] = j /\ \A n \in Messages \ {m} : job'[n] = job[n]
  BY DEF IInv, TypeOK
<1>2. \A n \in Messages \ {m} : Left(n)' = Left(n)
  BY <1>1 DEF Left
<1>3. \A n \in Messages :
        Status'[n] = IF job'[n].state \in {"waiting", "active", "delayed"} THEN "open" ELSE job'[n].state
  BY DEF Status
<1>4. \A n \in Messages \ {m} : Status'[n] = Status[n]
  BY <1>1 DEF Status
<1>5. Status = [n \in Messages |-> Status[n]] /\ Status' = [n \in Messages |-> Status'[n]]
  BY DEF Status
<1> QED BY <1>1, <1>2, <1>3, <1>4, <1>5

\* A call whose add is accepted, ignored or refused.
LEMMA AddDelivers ==
  ASSUME IInv, NEW c \in Callers, Add(c), UNCHANGED faults
  PROVE  Delivery!Next
<1>1. PICK m \in Messages : m = adding[c]
  BY DEF IInv, TypeOK, Add
<1>2. UNCHANGED <<slot, rows>>
  BY DEF Add
<1>3. \A n \in Messages : Inserting(n)' = Inserting(n) /\ Unmarked(n)' = Unmarked(n)
  BY <1>2, SameInserting, SameUnmarked
<1>4. CASE job[m].state = "none"
  <2>1. job' = [job EXCEPT ![m] = [state |-> "waiting", attempts |-> 0, stalls |-> 0]]
    BY <1>1, <1>4 DEF Add, NoJob
  <2>2. /\ job'[m] = [state |-> "waiting", attempts |-> 0, stalls |-> 0]
        /\ \A n \in Messages \ {m} : Left(n)' = Left(n)
        /\ Status' = [Status EXCEPT ![m] = "open"]
    BY <2>1, JobMoves
  <2>3. Left(m) = 0 /\ Left(m)' = MaxAttempts + MaxStalls
    BY <1>4, <2>2, BoundsAssumption DEF Left
  <2>4. Credit(m)' = Credit(m) + (MaxAttempts + MaxStalls)
    BY <1>3, <2>3, SetsFinite, BoundsAssumption DEF Credit
  <2>5. \A n \in Messages \ {m} : Credit(n)' = Credit(n)
    BY <1>3, <2>2 DEF Credit
  <2>6. \A n \in Messages : Working(n)' = Working(n)
    BY <1>3 DEF Working
  <2>7. Status[m] = "none"
    BY <1>4 DEF Status
  <2>8. Delivery!Accept(m)
    BY <1>2, <2>2, <2>4, <2>5, <2>6, <2>7 DEF Delivery!Accept, Credit, Working, MayLoseLock
  <2> QED BY <2>8 DEF Delivery!Next
<1>5. CASE job[m].state # "none"
  <2>1. job' = job
    BY <1>1, <1>5 DEF Add
  <2>2. \A n \in Messages : Credit(n)' = Credit(n) /\ Working(n)' = Working(n)
    BY <1>3, <2>1 DEF Credit, Working, Left
  <2>3. Status' = Status
    BY <2>1 DEF Status
  <2> QED BY <1>2, <2>2, <2>3, CountsAreNat, AttemptsComeToNothing
<1> QED BY <1>4, <1>5

\* A slot takes a job: an attempt granted goes over to the slot.
LEMMA TakeDelivers ==
  ASSUME IInv, NEW w \in Slots, NEW m \in Messages, Take(w, m), UNCHANGED faults
  PROVE  Delivery!Next
<1>1. /\ job[m].state = "waiting" /\ slot[w] = Free /\ UNCHANGED rows
      /\ job' = [job EXCEPT ![m].state = "active"]
      /\ slot' = [slot EXCEPT ![w] = [step |-> "insert", message |-> m]]
  BY DEF Take
<1>2. PICK j : j = [job[m] EXCEPT !.state = "active"]
  OBVIOUS
<1>3. j.state = "active" /\ j.attempts = job[m].attempts /\ j.stalls = job[m].stalls
  BY <1>2 DEF IInv, TypeOK
<1>4. job'[m] = j /\ (\A n \in Messages \ {m} : Left(n)' = Left(n))
      /\ Status' = [Status EXCEPT ![m] = "open"]
  BY <1>1, <1>2, <1>3, JobMoves
<1>5. Status' = Status
  BY <1>1, <1>4 DEF Status
<1>6. Left(m)' = Left(m) - 1
  BY <1>1, <1>3, <1>4, LeftIsNat, BoundsAssumption DEF Left
<1>7. /\ \A n \in Messages : Unmarked(n)' = Unmarked(n) \ {w} /\ w \notin Unmarked(n)
      /\ \A n \in Messages \ {m} : Inserting(n)' = Inserting(n) \ {w}
      /\ \A n \in Messages : w \notin Inserting(n)
      /\ Inserting(m)' = Inserting(m) \cup {w}
  <2>1. /\ slot'[w] = [step |-> "insert", message |-> m]
        /\ \A v \in Slots \ {w} : slot'[v] = slot[v]
    BY <1>1 DEF IInv, TypeOK
  <2>2. \A n : w \notin Unmarked(n) /\ w \notin Inserting(n)
    BY <1>1 DEF Unmarked, Inserting, Free
  <2>3. slot'[w].step = "insert" /\ \A n \in Messages \ {m} : slot'[w] # [step |-> "insert", message |-> n]
    BY <2>1
  <2> QED BY <2>1, <2>2, <2>3, SlotMoves
<1>8. Cardinality(Inserting(m)') = Cardinality(Inserting(m)) + 1
  BY <1>7, SetsFinite, FS_AddElement
<1>9. Credit(m)' = Credit(m)
  BY <1>6, <1>8, SetsFinite, LeftIsNat DEF Credit
<1>10. \A n \in Messages \ {m} : Credit(n)' = Credit(n)
  <2>1. \A n \in Messages \ {m} : Inserting(n)' = Inserting(n)
    BY <1>7
  <2> QED BY <1>4, <2>1 DEF Credit
<1>11. \A n \in Messages : Working(n)' = Working(n)
  <2>1. \A n \in Messages : Unmarked(n)' = Unmarked(n)
    BY <1>7
  <2> QED BY <2>1 DEF Working
<1> QED BY <1>1, <1>5, <1>9, <1>10, <1>11, CountsAreNat, AttemptsComeToNothing

\* A slot is taken out of a set that counts, or was not in it.
LEMMA OneSlotLess ==
  ASSUME NEW S, S \subseteq Slots, NEW w
  PROVE  /\ IsFiniteSet(S) /\ Cardinality(S) \in Nat /\ Cardinality(S \ {w}) \in Nat
         /\ w \in S => Cardinality(S \ {w}) = Cardinality(S) - 1
         /\ Cardinality(S \ {w}) <= Cardinality(S)
<1>1. IsFiniteSet(S) /\ IsFiniteSet(S \ {w})
  BY FiniteAssumption, FS_Subset
<1>2. Cardinality(S) \in Nat /\ Cardinality(S \ {w}) \in Nat
  BY <1>1, FS_CardinalityType
<1>3. CASE w \in S
  BY <1>1, <1>2, <1>3, FS_RemoveElement
<1>4. CASE w \notin S
  <2>1. S \ {w} = S
    BY <1>4
  <2>2. Cardinality(S \ {w}) = Cardinality(S)
    BY <2>1
  <2>3. Cardinality(S \ {w}) <= Cardinality(S)
    BY <1>2, <2>2
  <2> QED BY <1>1, <1>2, <1>4, <2>3
<1> QED BY <1>3, <1>4

\* An attempt goes on, with nothing granted, recorded or settled by it.
LEMMA SlotComesToNothing ==
  ASSUME IInv, NEW w \in Slots, NEW x, slot' = [slot EXCEPT ![w] = x],
         x.step # "insert",
         x.step \in {"send", "markSent", "markFailed"} => w \in Unmarked(x.message),
         UNCHANGED <<job, faults>>, \A m \in Messages : rows'[m]["sent"] = rows[m]["sent"]
  PROVE  Delivery!Next
<1>1. \A m \in Messages : /\ Inserting(m)' = Inserting(m) \ {w}
                          /\ Unmarked(m)' = Unmarked(m) \/ Unmarked(m)' = Unmarked(m) \ {w}
  <2>1. slot'[w] = x /\ \A v \in Slots \ {w} : slot'[v] = slot[v]
    BY DEF IInv, TypeOK
  <2>2. \A m : slot'[w] # [step |-> "insert", message |-> m]
    BY <2>1
  <2>3. ASSUME NEW m \in Messages PROVE Inserting(m)' = Inserting(m) \ {w}
    <3>1. Inserting(m)' = IF slot'[w] = [step |-> "insert", message |-> m]
                          THEN Inserting(m) \cup {w} ELSE Inserting(m) \ {w}
      BY <2>1, SlotMoves
    <3> QED BY ONLY <2>2, <3>1
  <2>4. ASSUME NEW m \in Messages
        PROVE  Unmarked(m)' = Unmarked(m) \/ Unmarked(m)' = Unmarked(m) \ {w}
    <3>1. CASE slot'[w].message = m /\ slot'[w].step \in {"send", "markSent", "markFailed"}
      <4>1. Unmarked(m)' = Unmarked(m) \cup {w} /\ w \in Unmarked(m)
        BY <2>1, <3>1, SlotMoves
      <4> QED BY <4>1
    <3>2. CASE ~(slot'[w].message = m /\ slot'[w].step \in {"send", "markSent", "markFailed"})
      BY <2>1, <3>2, SlotMoves
    <3> QED BY <3>1, <3>2
  <2> QED BY <2>3, <2>4
<1>2. \A m \in Messages : Cardinality(Inserting(m)') <= Cardinality(Inserting(m))
  BY <1>1, OneSlotLess DEF Inserting
<1>3. \A m \in Messages : Cardinality(Unmarked(m)') <= Cardinality(Unmarked(m))
  <2> SUFFICES ASSUME NEW m \in Messages
               PROVE  Cardinality(Unmarked(m)') <= Cardinality(Unmarked(m))
    OBVIOUS
  <2>1. Unmarked(m) \subseteq Slots
    BY DEF Unmarked
  <2>2. Cardinality(Unmarked(m)) \in Nat /\ Cardinality(Unmarked(m) \ {w}) <= Cardinality(Unmarked(m))
    BY <2>1, OneSlotLess
  <2>3. CASE Unmarked(m)' = Unmarked(m)
    BY <2>2, <2>3
  <2>4. CASE Unmarked(m)' = Unmarked(m) \ {w}
    BY <2>2, <2>4
  <2> QED BY <1>1, <2>3, <2>4
<1>4. \A m \in Messages : Left(m)' = Left(m) /\ Left(m) \in Nat
  BY LeftIsNat DEF Left
<1>5. \A m \in Messages : Credit(m)' <= Credit(m) /\ Working(m)' <= Working(m)
  <2> SUFFICES ASSUME NEW m \in Messages
               PROVE  Credit(m)' <= Credit(m) /\ Working(m)' <= Working(m)
    OBVIOUS
  <2>1. Inserting(m) \subseteq Slots
    BY DEF Inserting
  <2>2. Cardinality(Inserting(m)) \in Nat /\ Cardinality(Inserting(m) \ {w}) \in Nat
    BY <2>1, OneSlotLess
  <2>3. Cardinality(Inserting(m)') \in Nat
    BY <1>1, <2>2
  <2>4. Left(m)' + Cardinality(Inserting(m)') <= Left(m) + Cardinality(Inserting(m))
    BY <1>2, <1>4, <2>2, <2>3
  <2> QED BY <1>3, <2>4 DEF Credit, Working
<1>6. Status' = Status
  BY DEF Status
<1> QED BY <1>5, <1>6, AttemptsComeToNothing

\* A slot inserts its row: of an exclusive attempt no other is under way.
LEMMA InsertDelivers ==
  ASSUME IInv, NEW w \in Slots, InsertRow(w), UNCHANGED faults
  PROVE  Delivery!Next
<1>1. PICK m \in Messages : m = slot[w].message
  BY DEF IInv, TypeOK, SlotsWellFormed, InsertRow
<1>2. slot[w] = [step |-> "insert", message |-> m] /\ slot[w].step = "insert" /\ UNCHANGED job
  BY <1>1 DEF InsertRow, IInv, TypeOK
<1>3. CASE Throw(w) /\ UNCHANGED rows
  <2>1. PICK x : x = [slot[w] EXCEPT !.step = "fail"]
    OBVIOUS
  <2>2. x.step = "fail" /\ slot' = [slot EXCEPT ![w] = x]
    BY <1>3, <2>1 DEF Throw, Goto, IInv, TypeOK
  <2>3. x.step # "insert" /\ x.step \notin {"send", "markSent", "markFailed"}
    BY <2>2
  <2>4. \A n \in Messages : rows'[n]["sent"] = rows[n]["sent"]
    BY <1>3
  <2> QED BY <1>2, <2>2, <2>3, <2>4, SlotComesToNothing
<1>4. CASE Goto(w, "send") /\ Counted(m, "inserted")
  <2>1. /\ slot'[w].message = m /\ slot'[w].step = "send"
        /\ \A v \in Slots \ {w} : slot'[v] = slot[v]
    BY <1>1, <1>4 DEF Goto, IInv, TypeOK
  <2>2. w \in Inserting(m) /\ (\A n \in Messages \ {m} : w \notin Inserting(n))
        /\ \A n : w \notin Unmarked(n)
    BY <1>2 DEF Inserting, Unmarked
  <2>3. ASSUME NEW n \in Messages PROVE Inserting(n)' = Inserting(n) \ {w}
    <3>1. Inserting(n)' = IF slot'[w] = [step |-> "insert", message |-> n]
                          THEN Inserting(n) \cup {w} ELSE Inserting(n) \ {w}
      BY <2>1, SlotMoves
    <3>2. slot'[w] # [step |-> "insert", message |-> n]
      BY <2>1
    <3> QED BY ONLY <3>1, <3>2
  <2>4. Unmarked(m)' = Unmarked(m) \cup {w} /\ \A n \in Messages \ {m} : Unmarked(n)' = Unmarked(n) \ {w}
    BY <2>1, SlotMoves
  <2>5. Cardinality(Inserting(m)') = Cardinality(Inserting(m)) - 1 /\ Cardinality(Inserting(m)) > 0
    <3>1. Inserting(m)' = Inserting(m) \ {w} /\ Inserting(m) # {}
      BY <2>2, <2>3
    <3>2. Cardinality(Inserting(m) \ {w}) = Cardinality(Inserting(m)) - 1
      BY <2>2, SetsFinite, FS_RemoveElement
    <3>3. Cardinality(Inserting(m)) # 0
      BY <3>1, SetsFinite, FS_EmptySet
    <3> QED BY <3>1, <3>2, <3>3, SetsFinite
  <2>6. Cardinality(Unmarked(m)') = Cardinality(Unmarked(m)) + 1
    BY <2>2, <2>4, CountsAreNat, FS_AddElement
  <2>7. \A n \in Messages \ {m} : Inserting(n)' = Inserting(n) /\ Unmarked(n)' = Unmarked(n)
    BY <2>2, <2>3, <2>4
  <2>8. \A n \in Messages : Left(n)' = Left(n)
    BY <1>2 DEF Left
  <2>9. Credit(m)' = Credit(m) - 1 /\ Credit(m) > 0 /\ Working(m)' = Working(m) + 1
    BY <2>5, <2>6, <2>8, SetsFinite, LeftIsNat DEF Credit, Working
  <2>10. \A n \in Messages \ {m} : Credit(n)' = Credit(n) /\ Working(n)' = Working(n)
    BY <2>7, <2>8 DEF Credit, Working
  <2>11. Status' = Status /\ \A n \in Messages : rows'[n]["sent"] = rows[n]["sent"]
    BY <1>2, <1>4 DEF Status, Counted, IInv, TypeOK, Outcomes
  <2>12. ASSUME ~MayLoseLock PROVE Status[m] = "open" /\ Working(m) = 0
    <3>1. lock[m] = w
      <4>1. slot[w] # Free
        BY <1>2 DEF Free
      <4> QED BY <1>1, <2>12, <4>1 DEF IInv, LocksWellFormed, Holds
    <3>2. job[m].state = "active"
      BY <3>1, NoSlotAssumption DEF IInv, LocksWellFormed
    <3>3. Unmarked(m) = {}
      <4> SUFFICES ASSUME NEW v \in Unmarked(m) PROVE FALSE
        OBVIOUS
      <4>1. v \in Slots /\ slot[v].message = m /\ slot[v] # Free /\ v # w
        BY <1>2 DEF Unmarked, Free
      <4>2. lock[m] = v
        BY <2>12, <4>1 DEF IInv, LocksWellFormed, Holds
      <4> QED BY <3>1, <4>1, <4>2
    <3> QED BY <3>2, <3>3, FS_EmptySet DEF Status, Working
  <2>13. Delivery!Attempt(m)
    BY <2>9, <2>10, <2>11, <2>12 DEF Delivery!Attempt, Credit, Working, MayLoseLock
  <2> QED BY <2>13 DEF Delivery!Next
<1> QED BY <1>1, <1>3, <1>4 DEF InsertRow

\* A slot whose attempt has a row sends, marks or gives up.
LEMMA MarkDelivers ==
  ASSUME IInv, NEW w \in Slots, Send(w) \/ MarkSent(w) \/ MarkFailed(w), UNCHANGED faults
  PROVE  Delivery!Next
<1>1. PICK m \in Messages : m = slot[w].message
  BY DEF IInv, TypeOK, SlotsWellFormed, Send, MarkSent, MarkFailed
<1>2. w \in Unmarked(m) /\ UNCHANGED job
  BY <1>1 DEF Unmarked, Send, MarkSent, MarkFailed
<1>3. ASSUME NEW step \in {"markSent", "markFailed", "fail"}, Goto(w, step),
             \A n \in Messages : rows'[n]["sent"] = rows[n]["sent"]
      PROVE  Delivery!Next
  <2>1. PICK x : x = [slot[w] EXCEPT !.step = step]
    OBVIOUS
  <2>2. x.step = step /\ x.message = m /\ slot' = [slot EXCEPT ![w] = x]
    BY <1>1, <1>3, <2>1 DEF Goto, IInv, TypeOK
  <2>3. x.step # "insert" /\ w \in Unmarked(x.message)
    BY <1>2, <2>2
  <2> QED BY <1>2, <1>3, <2>2, <2>3, SlotComesToNothing
<1>4. CASE Goto(w, "complete") /\ Counted(m, "sent")
  <2>1. /\ slot'[w].message = m /\ slot'[w].step = "complete"
        /\ \A v \in Slots \ {w} : slot'[v] = slot[v]
    BY <1>1, <1>4 DEF Goto, IInv, TypeOK
  <2>2. \A n \in Messages : w \notin Inserting(n) /\ (n # m => w \notin Unmarked(n))
    BY <1>2 DEF Inserting, Unmarked
  <2>3. ASSUME NEW n \in Messages PROVE Inserting(n)' = Inserting(n)
    <3>1. Inserting(n)' = IF slot'[w] = [step |-> "insert", message |-> n]
                          THEN Inserting(n) \cup {w} ELSE Inserting(n) \ {w}
      BY <2>1, SlotMoves
    <3>2. slot'[w] # [step |-> "insert", message |-> n]
      BY <2>1
    <3>3. Inserting(n)' = Inserting(n) \ {w}
      BY ONLY <3>1, <3>2
    <3> QED BY <2>2, <3>3
  <2>4. \A n \in Messages : Unmarked(n)' = Unmarked(n) \ {w}
    BY <2>1, SlotMoves
  <2>5. \A n \in Messages \ {m} : Unmarked(n)' = Unmarked(n)
    BY <2>2, <2>4
  <2>6. Cardinality(Unmarked(m)') = Cardinality(Unmarked(m)) - 1 /\ Cardinality(Unmarked(m)) > 0
    <3>1. Unmarked(m)' = Unmarked(m) \ {w} /\ Unmarked(m) # {}
      BY <1>2, <2>4
    <3>2. Cardinality(Unmarked(m) \ {w}) = Cardinality(Unmarked(m)) - 1
      BY <1>2, CountsAreNat, FS_RemoveElement
    <3>3. Cardinality(Unmarked(m)) # 0
      BY <3>1, CountsAreNat, FS_EmptySet
    <3>4. Cardinality(Unmarked(m)) \in Nat
      BY CountsAreNat DEF Working
    <3> QED BY <3>1, <3>2, <3>3, <3>4
  <2>7. Working(m)' = Working(m) - 1 /\ Working(m) > 0
        /\ \A n \in Messages \ {m} : Working(n)' = Working(n)
    BY <2>5, <2>6 DEF Working
  <2>8. Status' = Status /\ \A n \in Messages : Credit(n)' = Credit(n)
    BY <1>2, <2>3 DEF Status, Credit, Left
  <2>9. /\ rows'[m]["sent"] = rows[m]["sent"] + 1
        /\ \A n \in Messages \ {m} : rows'[n]["sent"] = rows[n]["sent"]
    BY <1>4 DEF Counted, IInv, TypeOK, Outcomes
  <2>10. Delivery!Record(m)
    BY <2>7, <2>8, <2>9 DEF Delivery!Record, Credit, Working, MayLoseLock
  <2> QED BY <2>10 DEF Delivery!Next
<1>5. CASE Send(w)
  BY <1>3, <1>5 DEF Send
<1>6. CASE MarkSent(w)
  BY <1>1, <1>3, <1>4, <1>6 DEF MarkSent
<1>7. CASE MarkFailed(w)
  <2>1. \A n \in Messages : rows'[n]["sent"] = rows[n]["sent"]
    BY <1>1, <1>7 DEF MarkFailed, Counted, IInv, TypeOK, Outcomes
  <2>2. Goto(w, "fail")
    BY <1>7 DEF MarkFailed, Throw
  <2> QED BY <1>3, <2>1, <2>2
<1> QED BY <1>5, <1>6, <1>7

\* A job leaves the open ones for good: completed after a recorded send, or failed.
LEMMA JobSettles ==
  ASSUME IInv, NEW m \in Messages, job[m].state = "active",
         NEW j, job' = [job EXCEPT ![m] = j],
         j.state \in {"completed", "failed"}, j.state = "completed" => rows[m]["sent"] > 0,
         \A n \in Messages : /\ Cardinality(Inserting(n)') = Cardinality(Inserting(n))
                             /\ Cardinality(Unmarked(n)') = Cardinality(Unmarked(n)),
         UNCHANGED <<rows, faults>>
  PROVE  Delivery!Next
<1>1. /\ job'[m] = j /\ \A n \in Messages \ {m} : Left(n)' = Left(n)
      /\ Status' = [Status EXCEPT ![m] = j.state]
  BY JobMoves
<1>2. Left(m)' = 0
  BY <1>1 DEF Left
<1>3. \A n \in Messages : Credit(n)' <= Credit(n)
  <2> SUFFICES ASSUME NEW n \in Messages PROVE Credit(n)' <= Credit(n)
    OBVIOUS
  <2>1. Left(n) \in Nat /\ (Left(n)' = Left(n) \/ Left(n)' = 0)
    BY <1>1, <1>2, LeftIsNat
  <2> QED BY <2>1, SetsFinite DEF Credit
<1>4. Status[m] = "open"
  BY DEF Status
<1>5. Delivery!Settle(m, j.state)
  BY <1>1, <1>3, <1>4 DEF Delivery!Settle, Credit, MayLoseLock
<1> QED BY <1>5 DEF Delivery!Next

\* A slot reports how its attempt ended: late, to be tried again, or for good.
LEMMA ReportDelivers ==
  ASSUME IInv, NEW w \in Slots, Complete(w) \/ FailAttempt(w), UNCHANGED faults
  PROVE  Delivery!Next
<1>1. PICK m \in Messages : m = slot[w].message
  BY DEF IInv, TypeOK, SlotsWellFormed, Complete, FailAttempt
<1>2. slot' = [slot EXCEPT ![w] = Free] /\ UNCHANGED rows
  BY DEF Complete, FailAttempt, Report
<1>3. slot'[w].step = "idle" /\ \A v \in Slots \ {w} : slot'[v] = slot[v]
  BY <1>2 DEF IInv, TypeOK, Free
<1>4. \A n : w \notin Inserting(n) /\ w \notin Unmarked(n)
  BY DEF Complete, FailAttempt, Inserting, Unmarked
<1>5. ASSUME NEW n PROVE Inserting(n)' = Inserting(n) /\ Unmarked(n)' = Unmarked(n)
  <2>1. Inserting(n)' = IF slot'[w] = [step |-> "insert", message |-> n]
                        THEN Inserting(n) \cup {w} ELSE Inserting(n) \ {w}
    BY <1>3, SlotMoves
  <2>2. slot'[w] # [step |-> "insert", message |-> n]
    BY <1>3
  <2>3. Inserting(n)' = Inserting(n) \ {w}
    BY ONLY <2>1, <2>2
  <2>4. Unmarked(n)' = Unmarked(n) \ {w}
    BY <1>3, SlotMoves
  <2> QED BY <1>4, <2>3, <2>4
<1>6. \A n \in Messages : /\ Cardinality(Inserting(n)') = Cardinality(Inserting(n))
                          /\ Cardinality(Unmarked(n)') = Cardinality(Unmarked(n))
                          /\ Cardinality(Inserting(n)) \in Nat
  BY <1>5, SetsFinite
<1>7. ASSUME \A n \in Messages : Left(n)' = Left(n), Status' = Status
      PROVE  Delivery!Next
  <2>1. \A n \in Messages : Credit(n)' = Credit(n) /\ Working(n)' = Working(n)
    BY <1>6, <1>7 DEF Credit, Working
  <2> QED BY <1>2, <1>7, <2>1, CountsAreNat, AttemptsComeToNothing
<1>8. CASE ~Holds(w)
  <2>1. job' = job
    BY <1>8 DEF Complete, FailAttempt
  <2> QED BY <1>7, <2>1 DEF Left, Status
<1>9. CASE Holds(w)
  <2>1. job[m].state = "active"
    BY <1>1, <1>9, NoSlotAssumption DEF Holds, IInv, LocksWellFormed
  <2>2. job[m] \in [state : JobStates, attempts : 0..MaxAttempts, stalls : 0..MaxStalls]
    BY DEF IInv, TypeOK
  <2>3. CASE Complete(w)
    <3>1. PICK j : j = [job[m] EXCEPT !.state = "completed"]
      OBVIOUS
    <3>2. j.state = "completed" /\ job' = [job EXCEPT ![m] = j]
      BY <1>1, <1>9, <2>2, <2>3, <3>1 DEF Complete
    <3>3. rows[m]["sent"] > 0
      BY <1>1, <2>3 DEF Complete, IInv, SentBeforeComplete
    <3> QED BY <1>2, <1>6, <2>1, <3>2, <3>3, JobSettles
  <2>4. CASE FailAttempt(w)
    <3>1. PICK n : n = job[m].attempts + 1
      OBVIOUS
    <3>2. PICK j : j = [job[m] EXCEPT !.attempts = n,
                                      !.state = IF AttemptsLeft(n) THEN "delayed" ELSE "failed"]
      OBVIOUS
    <3>3. /\ j.state = (IF AttemptsLeft(n) THEN "delayed" ELSE "failed")
          /\ j.attempts = n /\ j.stalls = job[m].stalls
      BY <2>2, <3>2
    <3>4. job' = [job EXCEPT ![m] = j]
      BY <1>1, <1>9, <2>4, <3>1, <3>2 DEF FailAttempt, IInv, TypeOK
    <3>5. CASE AttemptsLeft(n)
      <4>1. j.state = "delayed"
        BY <3>3, <3>5
      <4>2. /\ job'[m] = j /\ \A k \in Messages \ {m} : Left(k)' = Left(k)
            /\ Status' = [Status EXCEPT ![m] = "open"]
        BY <3>4, <4>1, JobMoves
      <4>3. Left(m)' = Left(m)
        BY <2>1, <3>1, <3>3, <4>1, <4>2, LeftIsNat, BoundsAssumption DEF Left
      <4>4. Status' = Status
        BY <2>1, <4>2 DEF Status
      <4> QED BY <1>7, <4>2, <4>3, <4>4
    <3>6. CASE ~AttemptsLeft(n)
      BY <1>2, <1>6, <2>1, <3>3, <3>4, <3>6, JobSettles
    <3> QED BY <3>5, <3>6
  <2> QED BY <2>3, <2>4
<1> QED BY <1>8, <1>9

\* A job is put back, fails for stalling or is forgotten, while the slots do nothing.
LEMMA QueueDelivers ==
  ASSUME IInv, NEW m \in Messages, Retry(m) \/ Stall(m) \/ Evict(m), UNCHANGED faults
  PROVE  Delivery!Next
<1>1. UNCHANGED <<slot, rows>>
  BY DEF Retry, Stall, Evict
<1>2. \A n \in Messages : /\ Cardinality(Inserting(n)') = Cardinality(Inserting(n))
                          /\ Cardinality(Unmarked(n)') = Cardinality(Unmarked(n))
                          /\ Cardinality(Inserting(n)) \in Nat
  BY <1>1, SameInserting, SameUnmarked, SetsFinite
<1>3. job[m] \in [state : JobStates, attempts : 0..MaxAttempts, stalls : 0..MaxStalls]
  BY DEF IInv, TypeOK
<1>4. ASSUME NEW j, job' = [job EXCEPT ![m] = j], j.state = "waiting", Left(m)' = Left(m),
             job[m].state \in {"active", "delayed"}
      PROVE  Delivery!Next
  <2>1. (\A n \in Messages \ {m} : Left(n)' = Left(n)) /\ Status' = [Status EXCEPT ![m] = "open"]
    BY <1>4, JobMoves
  <2>2. Status' = Status
    BY <1>4, <2>1 DEF Status
  <2>3. \A n \in Messages : Left(n)' = Left(n)
    BY <1>4, <2>1
  <2>4. \A n \in Messages : Credit(n)' = Credit(n) /\ Working(n)' = Working(n)
    BY <1>2, <2>3 DEF Credit, Working
  <2> QED BY <1>1, <2>2, <2>4, CountsAreNat, AttemptsComeToNothing
<1>5. CASE Retry(m)
  <2>1. PICK j : j = [job[m] EXCEPT !.state = "waiting"]
    OBVIOUS
  <2>2. /\ job' = [job EXCEPT ![m] = j] /\ job'[m] = j /\ job[m].state = "delayed"
        /\ j.state = "waiting" /\ j.attempts = job[m].attempts /\ j.stalls = job[m].stalls
    BY <1>3, <1>5, <2>1 DEF Retry, IInv, TypeOK
  <2>3. Left(m)' = Left(m)
    BY <2>2 DEF Left
  <2> QED BY <1>4, <2>2, <2>3
<1>6. CASE Stall(m) /\ job[m].stalls < MaxStalls
  <2>1. PICK j : j = [job[m] EXCEPT !.state = "waiting", !.stalls = @ + 1]
    OBVIOUS
  <2>2. /\ job' = [job EXCEPT ![m] = j] /\ job'[m] = j /\ job[m].state = "active"
        /\ j.state = "waiting" /\ j.attempts = job[m].attempts /\ j.stalls = job[m].stalls + 1
    BY <1>3, <1>6, <2>1 DEF Stall, IInv, TypeOK
  <2>3. Left(m)' = Left(m)
    BY <2>2, LeftIsNat, BoundsAssumption DEF Left
  <2> QED BY <1>4, <2>2, <2>3
<1>7. CASE Stall(m) /\ ~(job[m].stalls < MaxStalls)
  <2>1. PICK j : j = [job[m] EXCEPT !.state = "failed"]
    OBVIOUS
  <2>2. job' = [job EXCEPT ![m] = j] /\ job[m].state = "active" /\ j.state = "failed"
    BY <1>3, <1>7, <2>1 DEF Stall
  <2> QED BY <1>1, <1>2, <2>2, JobSettles
<1>8. CASE Evict(m)
  <2>1. job' = [job EXCEPT ![m] = NoJob] /\ job[m].state \in {"completed", "failed"}
        /\ NoJob.state = "none"
    BY <1>8 DEF Evict, NoJob
  <2>2. /\ job'[m] = NoJob /\ \A n \in Messages \ {m} : Left(n)' = Left(n)
        /\ Status' = [Status EXCEPT ![m] = "none"]
    BY <2>1, JobMoves
  <2>3. Left(m) = 0 /\ Left(m)' = 0
    BY <2>1, <2>2 DEF Left
  <2>4. \A n \in Messages : Credit(n)' = Credit(n) /\ Working(n)' = Working(n)
    BY <1>2, <2>2, <2>3 DEF Credit, Working
  <2>5. Status[m] \in {"completed", "failed"}
    BY <2>1 DEF Status
  <2>6. Delivery!Forget(m)
    BY <1>1, <2>2, <2>4, <2>5 DEF Delivery!Forget, Credit, Working, MayLoseLock
  <2> QED BY <2>6 DEF Delivery!Next
<1> QED BY <1>5, <1>6, <1>7, <1>8

\* The worker dies with what its slots were doing.
LEMMA CrashDelivers ==
  ASSUME IInv, Crash, UNCHANGED faults
  PROVE  Delivery!Next
<1>1. \A m \in Messages : Inserting(m)' = {} /\ Unmarked(m)' = {} /\ Left(m)' = Left(m)
  BY DEF Crash, Inserting, Unmarked, Free, Left
<1>2. \A m \in Messages : Credit(m)' <= Credit(m) /\ Working(m)' <= Working(m)
  <2> SUFFICES ASSUME NEW m \in Messages
               PROVE  Credit(m)' <= Credit(m) /\ Working(m)' <= Working(m)
    OBVIOUS
  <2>1. Cardinality(Inserting(m)') = 0 /\ Cardinality(Unmarked(m)') = 0
    BY <1>1, FS_EmptySet
  <2>2. Cardinality(Inserting(m)) \in Nat /\ Cardinality(Unmarked(m)) \in Nat /\ Left(m) \in Nat
    BY SetsFinite, CountsAreNat, LeftIsNat DEF Working
  <2>3. Left(m)' + Cardinality(Inserting(m)') <= Left(m) + Cardinality(Inserting(m))
    BY <1>1, <2>1, <2>2
  <2> QED BY <2>1, <2>2, <2>3 DEF Credit, Working
<1>3. Status' = Status /\ UNCHANGED rows
  BY DEF Crash, Status
<1> QED BY <1>2, <1>3, AttemptsComeToNothing

\* Keys, events, locks and the dead-letter queue are of no concern to a delivery.
LEMMA OthersDeliver ==
  ASSUME IInv, UNCHANGED <<job, slot, rows, faults>>
  PROVE  Delivery!Next
<1>1. \A m \in Messages : Credit(m)' = Credit(m) /\ Working(m)' = Working(m)
  BY SameInserting, SameUnmarked DEF Credit, Working, Left
<1>2. Status' = Status
  BY DEF Status
<1> QED BY <1>1, <1>2, CountsAreNat, AttemptsComeToNothing

\* Every behaviour of callers, worker and queue is one DeliveryContract allows.
\* (notifications.queue.ts:67-109, notification.service.ts:83-116)
THEOREM QueueDeliversContract == Spec => ImplementsDelivery
<1>1. Init => Delivery!Init
  <2> SUFFICES ASSUME Init PROVE Delivery!Init
    OBVIOUS
  <2>1. \A m \in Messages : Inserting(m) = {} /\ Unmarked(m) = {}
    BY DEF Init, Inserting, Unmarked, Free
  <2>2. \A m \in Messages : Left(m) = 0 /\ Status[m] = "none" /\ rows[m]["sent"] = 0
    BY DEF Init, Left, NoJob, Status, Outcomes
  <2>3. Status = [m \in Messages |-> "none"]
    BY <2>2 DEF Status
  <2>4. \A m \in Messages : Left(m) + Cardinality(Inserting(m)) = 0 /\ Cardinality(Unmarked(m)) = 0
    BY <2>1, <2>2, FS_EmptySet
  <2> QED BY <2>2, <2>3, <2>4 DEF Delivery!Init, MayLoseLock
<1>2. IInv /\ [Next]_vars => [Delivery!Next]_(Delivery!contractVars)
  <2> SUFFICES ASSUME IInv, [Next]_vars PROVE Delivery!Next
    OBVIOUS
  <2>1. CASE UNCHANGED vars
    BY <2>1, OthersDeliver DEF vars
  <2>2. CASE Step /\ UNCHANGED faults
    <3>1. ASSUME NEW c \in Callers, NEW m \in Messages, EnqueueNotification(c, m) PROVE Delivery!Next
      BY <2>2, <3>1, OthersDeliver DEF EnqueueNotification
    <3>2. ASSUME NEW c \in Callers, Add(c) \/ AddFails(c) PROVE Delivery!Next
      BY <2>2, <3>2, AddDelivers, OthersDeliver DEF AddFails
    <3>3. ASSUME NEW w \in Slots, Process(w) PROVE Delivery!Next
      BY <2>2, <3>3, TakeDelivers, InsertDelivers, MarkDelivers, ReportDelivers DEF Process
    <3>4. ASSUME NEW m \in Messages,
                 \/ DedupeExpires(m) \/ Retry(m) \/ LoseLock(m) \/ Stall(m)
                 \/ MoveToDeadLetter(m) \/ DeadLetterFails(m) \/ Evict(m)
          PROVE  Delivery!Next
      BY <2>2, <3>4, QueueDelivers, OthersDeliver
      DEF DedupeExpires, LoseLock, MoveToDeadLetter, DeadLetterFails
    <3> QED BY <2>2, <3>1, <3>2, <3>3, <3>4, CrashDelivers DEF Step
  <2> QED BY <2>1, <2>2 DEF Next
<1> QED BY <1>1, <1>2, QueueInvariance, PTL DEF Spec, ImplementsDelivery, Delivery!Spec
=============================================================================
