------------------------- MODULE RefreshTokenProofs -------------------------
(***************************************************************************)
(* The inductive invariant IInv of RefreshTokens and what follows from it: *)
(* one lemma per action, then the theorems.                                *)
(***************************************************************************)
EXTENDS RefreshTokens, TLAPS

\* A request slot of the right type when it is idle, and when it is filled.
LEMMA IdleTyped == Idle \in RequestState
BY DEF Idle, RequestState, Ops, Steps

LEMMA SlotFields ==
  ASSUME NEW p \in RequestState
  PROVE  /\ p.op \in Ops /\ p.step \in Steps /\ p.rows \subseteq Tokens
         /\ p.token \in Tokens \cup {NoToken} /\ p.child \in Tokens \cup {NoToken}
         /\ p.fam \in Families \cup {NoFamily}
BY DEF RequestState

\* What WellFormed says of the arguments a statement works on.
LEMMA Arguments ==
  ASSUME IInv, NEW r \in Requests
  PROVE  /\ req[r] \in RequestState
         /\ req[r].step \in {"markUsed", "sign", "commit", "answer"} =>
              req[r].child \in Tokens /\ req[r].fam \in Families
         /\ req[r].op = "refresh" => req[r].token \in Tokens /\ req[r].fam \in Families
BY DEF IInv, TypeOK, WellFormed, Shape, Idle

\* Nothing has happened yet.
LEMMA InitIInv == Init => IInv
<1> SUFFICES ASSUME Init PROVE IInv OBVIOUS
<1>1. \A t \in Tokens : ~Delivered(t) BY NoTokenAssumption DEF Init, Delivered, Idle
<1>2. TypeOK BY IdleTyped DEF Init, TypeOK
<1>3. WellFormed /\ DrawnIsFresh /\ ProgressHolds /\ LocksExclude
  BY NoTokenAssumption
  DEF Init, WellFormed, Shape, DrawnIsFresh, ProgressHolds, LocksExclude, Rotating, Idle
<1>4. RowsWellFormed /\ ChainIsConsistent BY DEF Init, RowsWellFormed, ChainIsConsistent, Issued
<1>5. SuccessorRecorded /\ OneUsablePerFamily
  BY <1>1 DEF SuccessorRecorded, OneUsablePerFamily, Usable
<1> QED BY <1>2, <1>3, <1>4, <1>5 DEF IInv

\* A request that starts: every slot but its own, and every row, is as it was.
LEMMA BeginIInv ==
  ASSUME IInv, NEW r \in Requests, NEW op \in Ops, NEW step \in Steps,
         NEW t \in Tokens \cup {NoToken}, NEW f \in Families \cup {NoFamily},
         NEW c \in Tokens \cup {NoToken},
         Begin(r, op, step, t, f, c),
         step \in {"sign", "markUsed", "snapshot"},
         step = "sign" => op = "login" /\ FreshFamily(f) /\ f # NoFamily /\ t = NoToken,
         op = "login" => step = "sign",
         op # "none",
         step = "markUsed" => op = "refresh",
         c = NoToken \/ FreshToken(c),
         c = NoToken <=> step = "snapshot",
         op = "refresh" => t \in held /\ f = family[t] /\ f # NoFamily,
         f = NoFamily \/ FreshFamily(f) \/ \E u \in Tokens : f = family[u]
  PROVE  IInv'
<1> DEFINE p == [op |-> op, step |-> step, token |-> t, fam |-> f, child |-> c, rows |-> {}]
<1>1. /\ UNCHANGED <<family, parent, used, revoked, replacedBy, expired, held>>
      /\ req' = [req EXCEPT ![r] = p] /\ req[r] = Idle
  BY DEF Begin, row
<1>2. p \in RequestState BY DEF RequestState
<1>3. TypeOK' BY <1>1, <1>2 DEF IInv, TypeOK
<1>4. req'[r] = p /\ \A s \in Requests \ {r} : req'[s] = req[s]
  BY <1>1 DEF IInv, TypeOK
<1>5. \A u \in Tokens : Delivered(u)' <=> Delivered(u)
  BY <1>1, <1>4 DEF Delivered, Idle
<1>6. Shape(p) BY DEF Shape, IInv, TypeOK, Ops
<1>7. WellFormed' BY <1>4, <1>6 DEF WellFormed, IInv
<1>8. DrawnIsFresh'
  <2>1. \A s \in Requests \ {r} : req[s].op = "login" /\ req[s].step = "sign" => req[s].fam # f
    BY NoFamilyAssumption DEF IInv, DrawnIsFresh, WellFormed, Shape, Idle, FreshFamily
  <2>2. \A s \in Requests \ {r} : c # NoToken => req[s].child # c
    BY DEF FreshToken
  <2>3. step = "sign" => \A s \in Requests \ {r} : req[s].fam # f
    BY DEF FreshFamily
  <2>4. \A u \in Tokens : Issued(u)' <=> Issued(u) BY <1>1 DEF Issued
  <2>5. step \in {"markUsed", "sign"} => ~Issued(c) BY DEF FreshToken
  <2>6. step = "sign" => \A u \in Tokens : family[u] # f BY DEF FreshFamily
  <2> QED BY <1>1, <1>4, <2>1, <2>2, <2>3, <2>5, <2>6 DEF DrawnIsFresh, IInv, Issued
<1>9. ProgressHolds' BY <1>1, <1>4 DEF ProgressHolds, IInv, Rotating, Issued
<1>10. LocksExclude' BY <1>1, <1>4 DEF LocksExclude, IInv, Rotating
<1>11. (RowsWellFormed /\ ChainIsConsistent)'
  BY <1>1 DEF IInv, RowsWellFormed, ChainIsConsistent, Issued
<1>12. (SuccessorRecorded /\ OneUsablePerFamily)'
  BY <1>1, <1>5 DEF IInv, SuccessorRecorded, OneUsablePerFamily, Usable
<1> QED BY <1>3, <1>7, <1>8, <1>9, <1>10, <1>11, <1>12 DEF IInv

\* A slot that frees, or moves to "snapshot" or "revoke": no row changes.
LEMMA RetreatIInv ==
  ASSUME IInv, NEW r \in Requests, UNCHANGED <<row, held>>,
         NEW p \in RequestState, req' = [req EXCEPT ![r] = p],
         Shape(p), p.child = NoToken,
         p.op # "login", p.step \notin {"sign", "markUsed", "commit", "answer"},
         p.op = "refresh" => req[r].op = "refresh" /\ p.token = req[r].token
                             /\ p.fam = req[r].fam,
         p.fam \in {NoFamily, req[r].fam},
         \A t \in p.rows : Issued(t)
  PROVE  IInv'
<1>1. UNCHANGED <<family, parent, used, revoked, replacedBy, expired, held>> BY DEF row
<1>2. req'[r] = p /\ \A s \in Requests \ {r} : req'[s] = req[s] BY DEF IInv, TypeOK
<1>3. TypeOK' BY <1>1 DEF IInv, TypeOK
<1>4. \A u \in Tokens : Delivered(u)' => Delivered(u) BY <1>1, <1>2 DEF Delivered
<1>5. WellFormed' BY <1>2 DEF WellFormed, IInv
<1>6. DrawnIsFresh'
  <2>1. \A s \in Requests \ {r} : req[s].op = "login" /\ req[s].step = "sign" => req[s].fam # p.fam
    BY NoFamilyAssumption DEF IInv, DrawnIsFresh, WellFormed, Shape, Idle
  <2> QED BY <1>1, <1>2, <2>1 DEF DrawnIsFresh, IInv, Issued
<1>7. ProgressHolds' BY <1>1, <1>2 DEF ProgressHolds, IInv, Rotating, Issued
<1>8. LocksExclude' BY <1>1, <1>2 DEF LocksExclude, IInv, Rotating
<1>9. (RowsWellFormed /\ ChainIsConsistent)'
  BY <1>1 DEF IInv, RowsWellFormed, ChainIsConsistent, Issued
<1>10. (SuccessorRecorded /\ OneUsablePerFamily)'
  BY <1>1, <1>4 DEF IInv, SuccessorRecorded, OneUsablePerFamily, Usable
<1> QED BY <1>3, <1>5, <1>6, <1>7, <1>8, <1>9, <1>10 DEF IInv

\* MarkUsed takes the row lock or, finding the token used, turns to the family.
LEMMA MarkUsedIInv ==
  ASSUME IInv, NEW r \in Requests, MarkUsed(r)
  PROVE  IInv'
<1> DEFINE t == req[r].token
<1>1. /\ req[r].op = "refresh" /\ t \in Tokens /\ req[r] \in RequestState
      /\ req[r].fam \in Families /\ req[r].child \in Tokens /\ req[r].step = "markUsed"
  BY DEF MarkUsed, IInv, TypeOK, WellFormed, Shape, Idle
<1>2. CASE used[t] \/ revoked[t]
  <2> DEFINE p == [req[r] EXCEPT !.step = "snapshot", !.child = NoToken]
  <2>1. p \in RequestState BY <1>1 DEF RequestState, Steps
  <2>2. /\ Shape(p) /\ p.child = NoToken /\ p.op = "refresh" /\ p.step = "snapshot"
        /\ p.token = req[r].token /\ p.fam = req[r].fam /\ \A u \in p.rows : Issued(u)
    BY <1>1 DEF Shape, RequestState, IInv, ProgressHolds
  <2>3. req' = [req EXCEPT ![r] = p] /\ UNCHANGED <<row, held>>
    BY <1>2 DEF MarkUsed, IInv, TypeOK
  <2> HIDE DEF p
  <2> QED BY <1>1, <2>1, <2>2, <2>3, RetreatIInv
<1>3. CASE ~used[t] /\ ~revoked[t]
  <2> DEFINE p == [req[r] EXCEPT !.step = "sign"]
  <2>1. /\ UNCHANGED <<family, parent, used, revoked, replacedBy, expired, held>>
        /\ req' = [req EXCEPT ![r] = p] /\ ~Locked(t)
    BY <1>3 DEF MarkUsed, Goto, row
  <2>2. p \in RequestState BY <1>1 DEF RequestState, Steps
  <2>3. /\ p.op = "refresh" /\ p.step = "sign" /\ p.token = t /\ p.fam = req[r].fam
        /\ p.child = req[r].child /\ p.rows = req[r].rows
    BY <1>1 DEF RequestState
  <2> HIDE DEF p
  <2>4. req'[r] = p /\ \A s \in Requests \ {r} : req'[s] = req[s]
    BY <2>1 DEF IInv, TypeOK
  <2>5. TypeOK' BY <2>1, <2>2 DEF IInv, TypeOK
  <2>6. \A u \in Tokens : Delivered(u)' <=> Delivered(u)
    BY <1>1, <2>1, <2>3, <2>4 DEF Delivered
  <2>7. WellFormed' BY <1>1, <2>3, <2>4 DEF WellFormed, Shape, IInv
  <2>8. DrawnIsFresh' BY <1>1, <2>1, <2>3, <2>4 DEF DrawnIsFresh, IInv, Issued
  <2>9. ProgressHolds' BY <1>1, <1>3, <2>1, <2>3, <2>4 DEF ProgressHolds, IInv, Rotating, Issued
  <2>10. LocksExclude' BY <1>1, <2>1, <2>3, <2>4 DEF LocksExclude, IInv, Rotating, Locked
  <2>11. (RowsWellFormed /\ ChainIsConsistent)'
    BY <2>1 DEF IInv, RowsWellFormed, ChainIsConsistent, Issued
  <2>12. (SuccessorRecorded /\ OneUsablePerFamily)'
    BY <2>1, <2>6 DEF IInv, SuccessorRecorded, OneUsablePerFamily, Usable
  <2> QED BY <2>5, <2>7, <2>8, <2>9, <2>10, <2>11, <2>12 DEF IInv
<1> QED BY <1>2, <1>3

\* The INSERT adds one row nobody knew of.
LEMMA SignIInv ==
  ASSUME IInv, NEW r \in Requests, SignRefreshToken(r)
  PROVE  IInv'
<1> DEFINE c == req[r].child
           f == req[r].fam
           t == req[r].token
           p == [req[r] EXCEPT !.step = IF req[r].op = "login" THEN "answer" ELSE "commit"]
<1>1. /\ req[r].op \in {"login", "refresh"} /\ req[r].step = "sign"
      /\ c \in Tokens /\ f \in Families /\ t \in Tokens \cup {NoToken}
      /\ req[r] \in RequestState /\ f # NoFamily /\ c # NoToken
      /\ req[r].op = "login" => t = NoToken
      /\ req[r].op = "refresh" => t \in Tokens /\ t \in held /\ family[t] = f /\ ~used[t]
    BY NoFamilyAssumption, NoTokenAssumption
    DEF SignRefreshToken, IInv, TypeOK, WellFormed, Shape, Idle, ProgressHolds, Rotating
<1>2. /\ UNCHANGED <<used, revoked, replacedBy, expired, held>>
      /\ family' = [family EXCEPT ![c] = f]
      /\ parent' = [parent EXCEPT ![c] = t]
      /\ req' = [req EXCEPT ![r] = p]
  BY DEF SignRefreshToken, Goto
<1>3. p \in RequestState BY <1>1 DEF RequestState, Steps
<1>4. /\ p.op = req[r].op /\ p.token = t /\ p.fam = f /\ p.child = c /\ p.rows = req[r].rows
      /\ req[r].op = "login" => p.step = "answer"
      /\ req[r].op = "refresh" => p.step = "commit"
  BY <1>1 DEF RequestState
<1>5. /\ ~Issued(c) /\ c \notin held /\ ~used[c] /\ parent[c] = NoToken
      /\ replacedBy[c] = NoToken /\ family[c] = NoFamily
      /\ \A u \in Tokens : parent[u] # c
  BY <1>1 DEF IInv, DrawnIsFresh, RowsWellFormed, Issued
<1>6. \A u \in Tokens \ {c} : family'[u] = family[u] /\ parent'[u] = parent[u]
  BY <1>2 DEF IInv, TypeOK
<1>7. family'[c] = f /\ parent'[c] = t BY <1>1, <1>2 DEF IInv, TypeOK
<1> HIDE DEF p
<1>8. req'[r] = p /\ \A s \in Requests \ {r} : req'[s] = req[s] BY <1>2 DEF IInv, TypeOK
<1>9. TypeOK' BY <1>1, <1>2, <1>3 DEF IInv, TypeOK
<1>10. \A s \in Requests \ {r} : /\ req[s].child # c
                                 /\ req[s].op = "refresh" => req[s].token # c
  BY <1>1, <1>5, NoTokenAssumption DEF IInv, DrawnIsFresh, ProgressHolds
<1>11. WellFormed' BY <1>1, <1>4, <1>8 DEF WellFormed, Shape, IInv
<1>12. DrawnIsFresh'
  <2>1. \A s \in Requests \ {r} : req[s].op = "login" /\ req[s].step = "sign" => req[s].fam # f
    BY DEF IInv, DrawnIsFresh
  <2>2. \A u \in Tokens : Issued(u)' <=> Issued(u) \/ u = c
    BY <1>1, <1>6, <1>7 DEF Issued
  <2> QED BY <1>1, <1>4, <1>6, <1>7, <1>8, <1>10, <2>1, <2>2, Arguments DEF DrawnIsFresh, IInv
<1>13. ProgressHolds'
  <2>1. ASSUME NEW s \in Requests, s # r
        PROVE  /\ req[s].op = "refresh" => family'[req[s].token] = family[req[s].token]
               /\ req[s].step \in {"commit", "answer"} =>
                    /\ family'[req[s].child] = family[req[s].child]
                    /\ parent'[req[s].child] = parent[req[s].child]
    BY <1>6, <1>10, <2>1, Arguments
  <2>2. req[r].op = "refresh" => family'[t] = f BY <1>1, <1>5, <1>6
  <2>3. \A s \in Requests : \A u \in req[s].rows : family'[u] # NoFamily
    <3>1. \A s \in Requests : \A u \in req[s].rows : u \in Tokens /\ Issued(u)
      BY Arguments, SlotFields DEF IInv, ProgressHolds
    <3> QED BY <1>1, <1>6, <1>7, <3>1 DEF Issued
  <2> QED BY <1>1, <1>2, <1>4, <1>5, <1>7, <1>8, <2>1, <2>2, <2>3 DEF ProgressHolds, IInv, Rotating, Issued
<1>14. LocksExclude' BY <1>1, <1>4, <1>8 DEF LocksExclude, IInv, Rotating
<1>15. RowsWellFormed'
  BY <1>1, <1>2, <1>5, <1>6, <1>7 DEF RowsWellFormed, IInv, Issued
<1>16. ChainIsConsistent'
  <2>1. \A u \in Tokens : replacedBy[u] # NoToken => replacedBy[u] \in Tokens \ {c} /\ u # c
    BY <1>5, NoTokenAssumption DEF IInv, TypeOK, ChainIsConsistent
  <2> QED BY <1>2, <1>6, <2>1 DEF IInv, ChainIsConsistent
<1>17. \A u \in Tokens : Delivered(u)' <=> Delivered(u) \/ (u = c /\ req[r].op = "login")
  BY <1>1, <1>2, <1>4, <1>8 DEF Delivered
<1>18. ~Delivered(c) BY <1>1, <1>5, <1>10 DEF Delivered
<1>19. SuccessorRecorded'
  BY <1>1, <1>2, <1>6, <1>7, <1>17, <1>18 DEF SuccessorRecorded, IInv
<1>20. req[r].op = "login" => \A u \in Tokens : family[u] # f
  BY <1>1 DEF IInv, DrawnIsFresh
<1>21. OneUsablePerFamily'
  BY <1>1, <1>2, <1>6, <1>7, <1>17, <1>18, <1>20 DEF OneUsablePerFamily, Usable, IInv
<1> QED BY <1>9, <1>11, <1>12, <1>13, <1>14, <1>15, <1>16, <1>19, <1>21 DEF IInv

\* COMMIT spends the token and makes its child the usable one of the family.
LEMMA CommitIInv ==
  ASSUME IInv, NEW r \in Requests, Commit(r)
  PROVE  IInv'
<1> DEFINE c == req[r].child
           t == req[r].token
           p == [req[r] EXCEPT !.step = "answer"]
<1>1. /\ req[r].op = "refresh" /\ req[r].step = "commit" /\ req[r] \in RequestState
      /\ c \in Tokens /\ t \in Tokens /\ c # NoToken /\ req[r].fam \in Families
      /\ t \in held /\ c \notin held /\ ~used[t]
      /\ family[t] = req[r].fam /\ family[c] = req[r].fam /\ parent[c] = t
    BY NoTokenAssumption
    DEF Commit, IInv, TypeOK, WellFormed, Shape, Idle, ProgressHolds, Rotating
<1>2. /\ UNCHANGED <<family, parent, revoked, expired, held>>
      /\ used' = [used EXCEPT ![t] = TRUE]
      /\ replacedBy' = [replacedBy EXCEPT ![t] = c]
      /\ req' = [req EXCEPT ![r] = p]
  BY DEF Commit, Goto
<1>3. p \in RequestState BY <1>1 DEF RequestState, Steps
<1>4. /\ p.op = "refresh" /\ p.token = t /\ p.fam = req[r].fam /\ p.child = c
      /\ p.step = "answer" /\ p.rows = req[r].rows
  BY <1>1 DEF RequestState
<1>5. /\ used'[t] /\ replacedBy'[t] = c
      /\ \A u \in Tokens \ {t} : (used'[u] <=> used[u]) /\ replacedBy'[u] = replacedBy[u]
  BY <1>1, <1>2 DEF IInv, TypeOK
<1> HIDE DEF p
<1>6. req'[r] = p /\ \A s \in Requests \ {r} : req'[s] = req[s] BY <1>2 DEF IInv, TypeOK
<1>7. TypeOK' BY <1>1, <1>2, <1>3 DEF IInv, TypeOK
<1>8. WellFormed' BY <1>1, <1>4, <1>6 DEF WellFormed, Shape, IInv
<1>9. DrawnIsFresh' BY <1>1, <1>2, <1>4, <1>6 DEF DrawnIsFresh, IInv, Issued
<1>10. replacedBy[t] = NoToken BY <1>1 DEF IInv, ChainIsConsistent
<1>11. ProgressHolds'
  <2>1. ASSUME NEW s \in Requests, s # r
        PROVE  /\ Rotating(s) => ~used'[req[s].token]
               /\ req[s].op = "refresh" /\ req[s].step = "answer" =>
                    replacedBy'[req[s].token] = req[s].child
    <3>1. Rotating(s) => req[s].token # t /\ req[s].token \in Tokens
      BY <1>1, <2>1, Arguments DEF IInv, LocksExclude, Rotating
    <3>2. req[s].op = "refresh" /\ req[s].step = "answer" =>
            /\ req[s].token \in Tokens /\ req[s].child \in Tokens
            /\ replacedBy[req[s].token] = req[s].child
      BY Arguments DEF IInv, ProgressHolds
    <3> QED BY <1>5, <1>10, <3>1, <3>2, NoTokenAssumption DEF IInv, ProgressHolds
  <2> QED BY <1>1, <1>2, <1>4, <1>5, <1>6, <2>1 DEF ProgressHolds, IInv, Rotating, Issued
<1>12. LocksExclude' BY <1>1, <1>4, <1>6 DEF LocksExclude, IInv, Rotating
<1>13. RowsWellFormed'
  <2>1. Issued(t) BY <1>1 DEF IInv, RowsWellFormed
  <2> QED BY <1>2, <1>5, <2>1 DEF IInv, RowsWellFormed, Issued
<1>14. ChainIsConsistent' BY <1>1, <1>2, <1>5 DEF IInv, ChainIsConsistent
<1>15. \A u \in Tokens : Delivered(u)' <=> Delivered(u) \/ u = c
  BY <1>1, <1>2, <1>4, <1>6 DEF Delivered
<1>16. SuccessorRecorded'
  BY <1>1, <1>2, <1>5, <1>10, <1>15, NoTokenAssumption DEF SuccessorRecorded, IInv, TypeOK
<1>17. Usable(t) BY <1>1 DEF Usable, Delivered
<1>18. OneUsablePerFamily'
  BY <1>1, <1>2, <1>5, <1>15, <1>17 DEF OneUsablePerFamily, Usable, IInv
<1> QED BY <1>7, <1>8, <1>9, <1>11, <1>12, <1>13, <1>14, <1>16, <1>18 DEF IInv

\* The client receives what was already on its way.
LEMMA AnswerIInv ==
  ASSUME IInv, NEW r \in Requests, Answer(r)
  PROVE  IInv' /\ \A u \in Tokens : Delivered(u)' <=> Delivered(u)
<1> DEFINE c == req[r].child
<1>1. /\ c \in Tokens /\ req[r].step = "answer" /\ c # NoToken /\ req[r].fam \in Families
      /\ family[c] = req[r].fam
  BY NoTokenAssumption DEF Answer, IInv, TypeOK, WellFormed, Shape, Idle, ProgressHolds
<1>2. /\ UNCHANGED <<family, parent, used, revoked, replacedBy, expired>>
      /\ held' = held \cup {c}
      /\ req' = [req EXCEPT ![r] = Idle]
  BY DEF Answer, Done, row
<1>3. req'[r] = Idle /\ \A s \in Requests \ {r} : req'[s] = req[s]
  BY <1>2 DEF IInv, TypeOK
<1>4. TypeOK' BY <1>1, <1>2, IdleTyped DEF IInv, TypeOK
<1>5. \A u \in Tokens : Delivered(u)' <=> Delivered(u)
  BY <1>1, <1>2, <1>3 DEF Delivered, Idle
<1>6. WellFormed' BY <1>3 DEF WellFormed, Shape, IInv
<1>7. DrawnIsFresh' BY <1>2, <1>3, NoTokenAssumption, NoFamilyAssumption
  DEF DrawnIsFresh, IInv, Issued, Idle, WellFormed, Shape
<1>8. ProgressHolds'
  <2>1. \A s \in Requests \ {r} : req[s].step \in {"commit", "answer"} => req[s].child # c
    BY <1>1 DEF IInv, DrawnIsFresh
  <2> QED BY <1>1, <1>2, <1>3, <2>1 DEF ProgressHolds, IInv, Rotating, Issued, Idle
<1>9. LocksExclude' BY <1>3 DEF LocksExclude, IInv, Rotating, Idle
<1>10. (RowsWellFormed /\ ChainIsConsistent)'
  BY <1>1, <1>2, NoFamilyAssumption DEF IInv, RowsWellFormed, ChainIsConsistent, Issued
<1>11. (SuccessorRecorded /\ OneUsablePerFamily)'
  BY <1>2, <1>5 DEF IInv, SuccessorRecorded, OneUsablePerFamily, Usable
<1> QED BY <1>4, <1>5, <1>6, <1>7, <1>8, <1>9, <1>10, <1>11 DEF IInv

\* A revoking UPDATE: no row it writes is locked by a rotation.
LEMMA RevokeIInv ==
  ASSUME IInv, NEW r \in Requests, Revoke(r)
  PROVE  IInv' /\ \A u \in Tokens : Delivered(u)' <=> Delivered(u)
<1> DEFINE rows == req[r].rows
<1>1. /\ req[r].step = "revoke" /\ req[r].child = NoToken
      /\ \A u \in rows : ~Locked(u)
  BY DEF Revoke, IInv, WellFormed, Shape, Idle
<1>2. /\ UNCHANGED <<family, parent, replacedBy, expired, held>>
      /\ used' = [u \in Tokens |-> used[u] \/ u \in rows]
      /\ revoked' = [u \in Tokens |-> revoked[u] \/ u \in rows]
      /\ req' = [req EXCEPT ![r] = Idle]
  BY DEF Revoke, Done
<1>3. req'[r] = Idle /\ \A s \in Requests \ {r} : req'[s] = req[s]
  BY <1>2 DEF IInv, TypeOK
<1>4. \A u \in Tokens : /\ used'[u] <=> used[u] \/ u \in rows
                        /\ revoked'[u] <=> revoked[u] \/ u \in rows
  BY <1>2
<1>5. TypeOK' BY <1>2, IdleTyped DEF IInv, TypeOK
<1>6. \A u \in Tokens : Delivered(u)' <=> Delivered(u)
  BY <1>1, <1>2, <1>3 DEF Delivered, Idle
<1>7. WellFormed' BY <1>3 DEF WellFormed, Shape, IInv
<1>8. DrawnIsFresh' BY <1>2, <1>3, NoTokenAssumption, NoFamilyAssumption
  DEF DrawnIsFresh, IInv, Issued, Idle, WellFormed, Shape
<1>9. ProgressHolds'
  <2>1. \A s \in Requests : Rotating(s) => ~used'[req[s].token]
    BY <1>1, <1>4, Arguments DEF Locked, IInv, ProgressHolds, Rotating
  <2> QED BY <1>2, <1>3, <2>1 DEF ProgressHolds, IInv, Rotating, Issued, Idle
<1>10. LocksExclude' BY <1>3 DEF LocksExclude, IInv, Rotating, Idle
<1>11. ChainIsConsistent' /\ SuccessorRecorded'
  BY <1>2, <1>4, <1>6 DEF IInv, ChainIsConsistent, SuccessorRecorded
<1>12. OneUsablePerFamily'
  BY <1>2, <1>4, <1>6 DEF IInv, OneUsablePerFamily, Usable
<1>13. RowsWellFormed'
  <2>1. \A u \in rows : Issued(u) BY DEF IInv, ProgressHolds
  <2> QED BY <1>2, <1>4, <2>1 DEF IInv, RowsWellFormed, Issued
<1> QED BY <1>5, <1>6, <1>7, <1>8, <1>9, <1>10, <1>11, <1>12, <1>13 DEF IInv

\* The rows a revoking UPDATE starts with are issued ones.
LEMMA SnapshotIInv ==
  ASSUME IInv, NEW r \in Requests, Snapshot(r)
  PROVE  IInv' /\ UNCHANGED <<row, held>>
<1> DEFINE R == {t \in Tokens : InScope(r, t)}
           p == [req[r] EXCEPT !.step = "revoke", !.rows = R]
<1>1. /\ req[r] \in RequestState /\ req[r].step = "snapshot" /\ req[r].child = NoToken
      /\ req[r].op \in {"refresh", "logout", "resetPassword"}
  BY DEF Snapshot, IInv, TypeOK, WellFormed, Shape, Idle
<1>2. p \in RequestState BY <1>1 DEF RequestState, Steps
<1>3. /\ p.op = req[r].op /\ p.step = "revoke" /\ p.child = NoToken
      /\ p.token = req[r].token /\ p.fam = req[r].fam
      /\ p.rows = R
  BY <1>1 DEF RequestState
<1>4. \A t \in R : Issued(t) BY DEF InScope
<1>5. req' = [req EXCEPT ![r] = p] /\ UNCHANGED <<row, held>> BY DEF Snapshot
<1> HIDE DEF p, R
<1>6. Shape(p) BY <1>1, <1>3, Arguments DEF Shape
<1> QED BY <1>1, <1>2, <1>3, <1>4, <1>5, <1>6, RetreatIInv

\* A request that fails frees its slot and changes no row.
LEMMA FailIInv ==
  ASSUME IInv, NEW r \in Requests, Fail(r)
  PROVE  IInv'
<1>1. /\ Shape(Idle) /\ Idle.child = NoToken /\ Idle.op = "none" /\ Idle.step = "idle"
      /\ Idle.fam = NoFamily /\ Idle.rows = {}
  BY DEF Shape, Idle
<1> QED BY <1>1, IdleTyped, RetreatIInv DEF Fail, Done

\* Time changes nothing but expired.
LEMMA ExpireIInv ==
  ASSUME IInv, NEW t \in Tokens, Expire(t)
  PROVE  IInv'
<1>1. UNCHANGED <<family, parent, used, revoked, replacedBy, held, req>>
      /\ expired' = [expired EXCEPT ![t] = TRUE]
  BY DEF Expire
<1>2. TypeOK' BY <1>1 DEF IInv, TypeOK
<1>3. \A u \in Tokens : Delivered(u)' <=> Delivered(u) BY <1>1 DEF Delivered
<1> QED BY <1>1, <1>2, <1>3
  DEF IInv, WellFormed, DrawnIsFresh, RowsWellFormed, ProgressHolds, LocksExclude,
      ChainIsConsistent, SuccessorRecorded, OneUsablePerFamily, Usable, Issued, Rotating

\* The requests a slot may start with.
Begins(r) == \/ \E f \in Families, c \in Tokens : Login(r, f, c)
             \/ \E t, c \in Tokens : RotateRefreshToken(r, t, c)
             \/ \E t \in Tokens : Logout(r, t)
             \/ ResetPassword(r)

LEMMA BeginsIInv ==
  ASSUME IInv, NEW r \in Requests, Begins(r)
  PROVE  IInv' /\ UNCHANGED <<row, held>>
<1> USE NoTokenAssumption, NoFamilyAssumption
<1>1. ASSUME NEW f \in Families, NEW c \in Tokens, Login(r, f, c)
      PROVE  IInv' /\ UNCHANGED <<row, held>>
  <2>1. /\ Begin(r, "login", "sign", NoToken, f, c) /\ FreshFamily(f) /\ FreshToken(c)
        /\ "login" \in Ops /\ "sign" \in Steps
    BY <1>1 DEF Login, Ops, Steps
  <2> QED BY <2>1, BeginIInv DEF Begin
<1>2. ASSUME NEW t \in Tokens, NEW c \in Tokens, RotateRefreshToken(r, t, c)
      PROVE  IInv' /\ UNCHANGED <<row, held>>
  <2>1. /\ t \in held /\ family[t] \in Families
        /\ "refresh" \in Ops /\ "markUsed" \in Steps /\ "snapshot" \in Steps
    BY <1>2 DEF RotateRefreshToken, IInv, RowsWellFormed, Issued, TypeOK, Ops, Steps
  <2>2. \/ Begin(r, "refresh", "snapshot", t, family[t], NoToken)
        \/ FreshToken(c) /\ Begin(r, "refresh", "markUsed", t, family[t], c)
    BY <1>2 DEF RotateRefreshToken
  <2>3. CASE Begin(r, "refresh", "snapshot", t, family[t], NoToken)
    BY <2>1, <2>3, BeginIInv DEF Begin
  <2>4. CASE FreshToken(c) /\ Begin(r, "refresh", "markUsed", t, family[t], c)
    <3>1. IInv'
      BY <2>1, <2>4, family[t] # NoFamily, c # NoToken, BeginIInv
    <3> QED BY <2>4, <3>1 DEF Begin
  <2> QED BY <2>2, <2>3, <2>4
<1>3. ASSUME NEW t \in Tokens, Logout(r, t) PROVE IInv' /\ UNCHANGED <<row, held>>
  <2>1. /\ Begin(r, "logout", "snapshot", t, family[t], NoToken)
        /\ family[t] \in Families \cup {NoFamily}
        /\ "logout" \in Ops /\ "snapshot" \in Steps
    BY <1>3 DEF Logout, IInv, TypeOK, Ops, Steps
  <2> QED BY <2>1, BeginIInv DEF Begin
<1>4. ASSUME ResetPassword(r) PROVE IInv' /\ UNCHANGED <<row, held>>
  <2>1. /\ Begin(r, "resetPassword", "snapshot", NoToken, NoFamily, NoToken)
        /\ "resetPassword" \in Ops /\ "snapshot" \in Steps
    BY <1>4 DEF ResetPassword, Ops, Steps
  <2> QED BY <2>1, BeginIInv DEF Begin
<1> QED BY <1>1, <1>2, <1>3, <1>4 DEF Begins

LEMMA StepIInv == IInv /\ [Next]_vars => IInv'
<1> SUFFICES ASSUME IInv, [Next]_vars PROVE IInv' OBVIOUS
<1>1. ASSUME NEW r \in Requests, Proceed(r) PROVE IInv'
  BY <1>1, MarkUsedIInv, SignIInv, CommitIInv, AnswerIInv, SnapshotIInv, RevokeIInv DEF Proceed
<1>2. CASE UNCHANGED vars
  <2>1. UNCHANGED <<family, parent, used, revoked, replacedBy, expired, held, req>>
    BY <1>2 DEF vars, row
  <2>2. \A u \in Tokens : Delivered(u)' <=> Delivered(u) BY <2>1 DEF Delivered
  <2>3. TypeOK' BY <2>1 DEF IInv, TypeOK
  <2> QED BY <2>1, <2>2, <2>3
    DEF IInv, WellFormed, DrawnIsFresh, RowsWellFormed, ProgressHolds, LocksExclude,
        ChainIsConsistent, SuccessorRecorded, OneUsablePerFamily, Usable, Issued, Rotating
<1> QED BY <1>1, <1>2, BeginsIInv, FailIInv, ExpireIInv DEF Next, Begins

\* The inductive invariant holds of every reachable state.
THEOREM TokenInvariance == Spec => []IInv
BY InitIInv, StepIInv, PTL DEF Spec

\* Whatever requests race and wherever they die, a refresh token buys at most one
\* delivered successor, a session has at most one usable token, and the chain in the
\* table is the chain of rotations.
THEOREM TokensAreSingleUse ==
  Spec => []SingleUse /\ []OneUsablePerFamily /\ []ChainIsConsistent
<1>1. IInv => SingleUse /\ OneUsablePerFamily /\ ChainIsConsistent
  BY DEF IInv, SingleUse, SuccessorRecorded
<1> QED BY <1>1, TokenInvariance, PTL

\* A revoked token is never exchanged: the row lock and the repeated check of the
\* first UPDATE close the gap the SELECT leaves open.
THEOREM RevocationIsFinal == Spec => RevokedNeverRotates
<1>1. IInv /\ [Next]_vars =>
        [\A t \in Tokens : revoked[t] => replacedBy'[t] = replacedBy[t]]_vars
  <2> SUFFICES ASSUME IInv, Next
               PROVE  \A t \in Tokens : revoked[t] => replacedBy'[t] = replacedBy[t]
    OBVIOUS
  <2>1. ASSUME NEW r \in Requests, Commit(r)
        PROVE  \A t \in Tokens : revoked[t] => replacedBy'[t] = replacedBy[t]
    <3>1. ~revoked[req[r].token]
      BY <2>1, Arguments DEF Commit, IInv, RowsWellFormed, ProgressHolds, Rotating,
                             WellFormed, Shape, Idle
    <3> QED BY <2>1, <3>1 DEF Commit, IInv, TypeOK
  <2>2. ASSUME NEW r \in Requests, Proceed(r), ~Commit(r) PROVE replacedBy' = replacedBy
    BY <2>2 DEF Proceed, MarkUsed, SignRefreshToken, Answer, Snapshot, Revoke, row
  <2>3. ASSUME NEW r \in Requests, Begins(r) \/ Fail(r) PROVE replacedBy' = replacedBy
    BY <2>3, BeginsIInv DEF Fail, row
  <2>4. ASSUME NEW t \in Tokens, Expire(t) PROVE replacedBy' = replacedBy
    BY <2>4 DEF Expire
  <2> QED BY <2>1, <2>2, <2>3, <2>4 DEF Next, Begins
<1> QED BY <1>1, TokenInvariance, PTL DEF Spec, RevokedNeverRotates

-----------------------------------------------------------------------------
(* Refinement of SessionContract.                                          *)

UsableIn(f) == {t \in Tokens : Usable(t) /\ family[t] = f}
Opened      == {f \in Families : \E t \in Tokens : family[t] = f}
Spent       == {t \in Tokens : used[t]}
UsableMap   == [f \in Families |-> UsableIn(f)]

\* A step that delivers nothing new, drops nothing and writes no row is a stutter.
LEMMA SameSessions ==
  ASSUME UNCHANGED <<family, used>>, \A u \in Tokens : Delivered(u)' <=> Delivered(u)
  PROVE  UNCHANGED <<UsableMap, Opened, Spent>>
<1>1. \A u \in Tokens : Usable(u)' <=> Usable(u) BY DEF Usable
<1> QED BY <1>1 DEF UsableMap, UsableIn, Opened, Spent

\* The one usable token of a family.
LEMMA OnlyUsable ==
  ASSUME IInv, NEW t \in Tokens, Usable(t)
  PROVE  UsableIn(family[t]) = {t}
BY DEF IInv, OneUsablePerFamily, UsableIn

LEMMA BeginsStutters ==
  ASSUME IInv, NEW r \in Requests, Begins(r)
  PROVE  \A u \in Tokens : Delivered(u)' <=> Delivered(u)
<1>1. PICK op, step, t, f, c : Begin(r, op, step, t, f, c) /\ step # "answer"
  BY DEF Begins, Login, RotateRefreshToken, Logout, ResetPassword
<1>2. UNCHANGED held /\ req[r] = Idle /\ req'[r].step # "answer"
      /\ \A s \in Requests \ {r} : req'[s] = req[s]
  BY <1>1 DEF Begin, IInv, TypeOK
<1> QED BY <1>2 DEF Delivered, Idle

\* The INSERT of a login opens its session; that of a rotation is not yet seen.
LEMMA SignRefines ==
  ASSUME IInv, NEW r \in Requests, SignRefreshToken(r)
  PROVE  [Contract!Next]_(Contract!vars)
<1>0. PICK c \in Tokens, f \in Families : c = req[r].child /\ f = req[r].fam
  BY Arguments DEF SignRefreshToken
<1>1. /\ c = req[r].child /\ f = req[r].fam /\ req[r].step = "sign" /\ f # NoFamily
      /\ req[r].op \in {"login", "refresh"} /\ ~Issued(c) /\ c \notin held /\ ~used[c]
      /\ req[r].op = "refresh" => req[r].token \in Tokens /\ family[req[r].token] = f
      /\ req[r].op = "login" => \A u \in Tokens : family[u] # f
    BY <1>0, NoFamilyAssumption, Arguments
    DEF SignRefreshToken, IInv, WellFormed, Shape, Idle, ProgressHolds, DrawnIsFresh,
        RowsWellFormed
<1>2. /\ UNCHANGED <<used, held>>
      /\ family' = [family EXCEPT ![c] = f]
      /\ req' = [req EXCEPT ![r].step = IF req[r].op = "login" THEN "answer" ELSE "commit"]
  BY <1>0 DEF SignRefreshToken, Goto
<1>3. /\ req'[r].child = c
      /\ req'[r].step = IF req[r].op = "login" THEN "answer" ELSE "commit"
      /\ \A s \in Requests \ {r} : req'[s] = req[s] /\ req[s].child # c
  BY <1>1, <1>2, NoTokenAssumption DEF IInv, TypeOK, RequestState, DrawnIsFresh
<1>4. \A u \in Tokens : Delivered(u)' <=> Delivered(u) \/ (u = c /\ req[r].op = "login")
  BY <1>1, <1>2, <1>3 DEF Delivered
<1>5. ~Delivered(c) BY <1>1, <1>3 DEF Delivered
<1>6. family'[c] = f /\ \A u \in Tokens \ {c} : family'[u] = family[u]
  BY <1>1, <1>2 DEF IInv, TypeOK
<1>7. Spent' = Spent BY <1>2 DEF Spent
<1>8. Opened' = Opened \cup {f}
  BY <1>1, <1>6, NoFamilyAssumption DEF Opened, Issued
<1>9. CASE req[r].op = "login"
  <2>1. f \notin Opened BY <1>1, <1>9 DEF Opened
  <2>2. Contract!Fresh(c)
    BY <1>1, <1>5 DEF Contract!Fresh, Usable
  <2>3. UsableMap' = [UsableMap EXCEPT ![f] = {c}]
    <3>1. \A u \in Tokens : Usable(u)' <=> Usable(u) \/ u = c
      BY <1>1, <1>2, <1>4, <1>9 DEF Usable
    <3>2. \A g \in Families : UsableIn(g)' = IF g = f THEN {c} ELSE UsableIn(g)
      BY <1>1, <1>5, <1>6, <1>9, <3>1 DEF UsableIn, Usable
    <3> QED BY <3>2 DEF UsableMap
  <2>4. Contract!Start(f, c)
    BY <1>7, <1>8, <2>1, <2>2, <2>3
    DEF Contract!Start, UsableMap, UsableIn, Opened, Spent
  <2> QED BY <1>1, <2>4 DEF Contract!Next
<1>10. CASE req[r].op = "refresh"
  <2>1. Opened' = Opened BY <1>1, <1>8, <1>10 DEF Opened
  <2>2. \A u \in Tokens : Usable(u)' <=> Usable(u)
    BY <1>1, <1>2, <1>4, <1>10 DEF Usable
  <2>3. \A g \in Families : UsableIn(g)' = UsableIn(g)
    BY <1>5, <1>6, <2>2 DEF UsableIn, Usable
  <2>4. UsableMap' = UsableMap BY <2>3 DEF UsableMap
  <2> QED BY <1>7, <2>1, <2>4 DEF Contract!vars, UsableMap, UsableIn, Opened, Spent
<1> QED BY <1>1, <1>9, <1>10

\* COMMIT renews the session, or ends it if the child was revoked meanwhile.
LEMMA CommitRefines ==
  ASSUME IInv, NEW r \in Requests, Commit(r)
  PROVE  Contract!Next
<1>0. PICK c \in Tokens, t \in Tokens, f \in Families :
        c = req[r].child /\ t = req[r].token /\ f = req[r].fam
  BY Arguments DEF Commit, IInv, WellFormed, Shape, Idle
<1>1. /\ req[r].op = "refresh" /\ req[r].step = "commit"
      /\ c = req[r].child /\ t = req[r].token /\ f = req[r].fam /\ c # t /\ c \notin held /\ t \in held /\ ~used[t]
      /\ family[t] = f /\ family[c] = f
    BY <1>0, Arguments
    DEF Commit, IInv, WellFormed, Shape, Idle, ProgressHolds, Rotating
<1>2. /\ UNCHANGED <<family, held>>
      /\ used' = [used EXCEPT ![t] = TRUE]
      /\ req' = [req EXCEPT ![r].step = "answer"]
  BY <1>0 DEF Commit, Goto
<1>3. /\ req'[r].child = c /\ req'[r].step = "answer"
      /\ \A s \in Requests \ {r} : req'[s] = req[s] /\ req[s].child # c
  BY <1>1, <1>2, NoTokenAssumption DEF IInv, TypeOK, RequestState, DrawnIsFresh
<1>4. \A u \in Tokens : Delivered(u)' <=> Delivered(u) \/ u = c
  BY <1>1, <1>2, <1>3 DEF Delivered
<1>5. ~Delivered(c) BY <1>1, <1>3 DEF Delivered
<1>6. \A u \in Tokens : used'[u] <=> used[u] \/ u = t BY <1>1, <1>2 DEF IInv, TypeOK
<1>7. Usable(t) BY <1>1 DEF Usable, Delivered
<1>8. UsableIn(f) = {t} BY <1>1, <1>7, OnlyUsable
<1>9. Spent' = Spent \cup {t} BY <1>1, <1>6 DEF Spent
<1>10. Opened' = Opened BY <1>2 DEF Opened
<1>11. \A g \in Families : UsableIn(g)' = IF g # f THEN UsableIn(g)
                                          ELSE IF used[c] THEN {} ELSE {c}
  BY <1>1, <1>2, <1>4, <1>6, <1>8 DEF UsableIn, Usable
<1>12. CASE ~used[c]
  <2>1. Contract!Fresh(c) BY <1>5, <1>12 DEF Contract!Fresh, Usable
  <2>2. UsableMap' = [UsableMap EXCEPT ![f] = {c}] BY <1>11, <1>12 DEF UsableMap
  <2>3. Contract!Renew(f, t, c)
    BY <1>1, <1>8, <1>9, <1>10, <2>1, <2>2
    DEF Contract!Renew, UsableMap, UsableIn, Opened, Spent
  <2> QED BY <1>1, <2>3 DEF Contract!Next
<1>13. CASE used[c]
  <2>1. UsableMap' = [g \in Families |-> IF g \in {f} THEN {} ELSE UsableMap[g]]
    BY <1>11, <1>13 DEF UsableMap
  <2>2. \A g \in Families \ {f} : UsableMap[g] \cap {t} = {}
    BY <1>1 DEF UsableMap, UsableIn
  <2>3. Contract!End({f}, {t})
    BY <1>9, <1>10, <2>1, <2>2
    DEF Contract!End, UsableMap, UsableIn, Opened, Spent
  <2>4. {f} \in SUBSET Families /\ {t} \in SUBSET Tokens BY <1>1
  <2> QED BY <2>3, <2>4 DEF Contract!Next
<1> QED BY <1>12, <1>13

\* Revocations and lost answers end sessions.
LEMMA EndRefines ==
  ASSUME NEW F \in SUBSET Families, NEW T \in SUBSET Tokens,
         UNCHANGED family,
         \A t \in Tokens : used'[t] <=> used[t] \/ t \in T,
         \A g \in Families : UsableIn(g)' = IF g \in F THEN {} ELSE UsableIn(g),
         \A g \in Families \ F : UsableIn(g) \cap T = {}
  PROVE  Contract!Next
<1>1. UsableMap' = [g \in Families |-> IF g \in F THEN {} ELSE UsableMap[g]] BY DEF UsableMap
<1>2. Opened' = Opened BY DEF Opened
<1>3. Spent' = Spent \cup T BY DEF Spent
<1>4. Contract!End(F, T)
  BY <1>1, <1>2, <1>3 DEF Contract!End, UsableMap, UsableIn, Opened, Spent
<1> QED BY <1>4 DEF Contract!Next

LEMMA RevokeRefines ==
  ASSUME IInv, NEW r \in Requests, Revoke(r)
  PROVE  Contract!Next
<1>0. PICK T \in SUBSET Tokens : T = req[r].rows BY Arguments, SlotFields
<1> DEFINE F == {g \in Families : UsableIn(g) \cap T # {}}
<1>1. UNCHANGED family /\ \A t \in Tokens : used'[t] <=> used[t] \/ t \in T
  BY <1>0 DEF Revoke
<1>2. \A t \in Tokens : Usable(t)' <=> Usable(t) /\ t \notin T
  BY <1>1, RevokeIInv DEF Usable
<1>3. ASSUME NEW g \in Families
      PROVE  UsableIn(g)' = IF g \in F THEN {} ELSE UsableIn(g)
  <2>1. UsableIn(g)' = UsableIn(g) \ T BY <1>1, <1>2 DEF UsableIn
  <2>2. CASE g \in F
    <3>1. PICK t \in UsableIn(g) : t \in T BY <2>2
    <3>2. t \in Tokens /\ Usable(t) /\ family[t] = g BY <3>1 DEF UsableIn
    <3>3. UsableIn(g) = {t} BY <3>2, OnlyUsable
    <3> QED BY <2>1, <2>2, <3>1, <3>3
  <2> QED BY <2>1, <2>2
<1>4. F \in SUBSET Families /\ \A g \in Families \ F : UsableIn(g) \cap T = {} OBVIOUS
<1> HIDE DEF F
<1> QED BY <1>1, <1>3, <1>4, EndRefines

LEMMA FailRefines ==
  ASSUME IInv, NEW r \in Requests, Fail(r)
  PROVE  [Contract!Next]_(Contract!vars)
<1>1. /\ UNCHANGED <<family, used, held>> /\ req' = [req EXCEPT ![r] = Idle]
      /\ req'[r] = Idle /\ \A s \in Requests \ {r} : req'[s] = req[s]
  BY DEF Fail, Done, row, IInv, TypeOK
<1>2. CASE req[r].step # "answer"
  <2>1. \A u \in Tokens : Delivered(u)' <=> Delivered(u) BY <1>1, <1>2 DEF Delivered, Idle
  <2> QED BY <1>1, <2>1, SameSessions
    DEF Contract!vars, UsableMap, UsableIn, Opened, Spent
<1>3. CASE req[r].step = "answer"
  <2>1. PICK c \in Tokens, f \in Families : c = req[r].child /\ f = req[r].fam
    BY <1>3, Arguments
  <2>2. family[c] = f /\ c \notin held /\ Delivered(c)
    BY <1>3, <2>1 DEF IInv, ProgressHolds, Delivered
  <2>3. \A s \in Requests \ {r} : req[s].child # c
    BY <2>1, NoTokenAssumption DEF IInv, DrawnIsFresh
  <2>4. \A u \in Tokens : Delivered(u)' <=> Delivered(u) /\ u # c
    BY <1>1, <1>3, <2>1, <2>2, <2>3 DEF Delivered, Idle
  <2>5. \A g \in Families : UsableIn(g)' = UsableIn(g) \ {c}
    BY <1>1, <2>4 DEF UsableIn, Usable
  <2>6. CASE used[c]
    <3>1. \A g \in Families : UsableIn(g)' = IF g \in {} THEN {} ELSE UsableIn(g)
      BY <2>5, <2>6 DEF UsableIn, Usable
    <3>2. /\ {} \in SUBSET Families /\ {} \in SUBSET Tokens
          /\ \A t \in Tokens : used'[t] <=> used[t] \/ t \in {}
          /\ \A g \in Families \ {} : UsableIn(g) \cap {} = {}
      BY <1>1
    <3> QED BY <1>1, <3>1, <3>2, EndRefines
  <2>7. CASE ~used[c]
    <3>1. UsableIn(f) = {c} BY <2>2, <2>7, OnlyUsable DEF Usable
    <3>2. \A g \in Families : UsableIn(g)' = IF g \in {f} THEN {} ELSE UsableIn(g)
      BY <2>2, <2>5, <3>1 DEF UsableIn
    <3>3. /\ {f} \in SUBSET Families /\ {} \in SUBSET Tokens
          /\ \A t \in Tokens : used'[t] <=> used[t] \/ t \in {}
          /\ \A g \in Families \ {f} : UsableIn(g) \cap {} = {}
      BY <1>1
    <3> QED BY <1>1, <3>2, <3>3, EndRefines
  <2> QED BY <2>6, <2>7
<1> QED BY <1>2, <1>3

\* Every handler, under every interleaving and failure, is a step of the contract or a
\* stutter: a session has one usable token, which is replaced, spent, and never back.
THEOREM SessionRefinement == Spec => ImplementsContract
<1>1. Init => Contract!Init
  <2> SUFFICES ASSUME Init PROVE Contract!Init OBVIOUS
  <2>1. \A r \in Requests : req[r].step # "answer" BY DEF Init, Idle
  <2>2. \A t \in Tokens : ~Usable(t) BY <2>1 DEF Init, Usable, Delivered
  <2>3. \A t \in Tokens : family[t] \notin Families /\ ~used[t]
    BY NoFamilyAssumption DEF Init
  <2> QED BY <2>2, <2>3 DEF Contract!Init
<1>2. IInv /\ [Next]_vars => [Contract!Next]_(Contract!vars)
  <2> SUFFICES ASSUME IInv, [Next]_vars PROVE [Contract!Next]_(Contract!vars) OBVIOUS
  <2> USE DEF Contract!vars
  <2>1. ASSUME UNCHANGED <<family, used>>, \A u \in Tokens : Delivered(u)' <=> Delivered(u)
        PROVE  [Contract!Next]_(Contract!vars)
    BY <2>1, SameSessions DEF UsableMap, UsableIn, Opened, Spent
  <2>2. ASSUME NEW r \in Requests, MarkUsed(r) \/ Snapshot(r)
        PROVE  UNCHANGED <<family, used>> /\ \A u \in Tokens : Delivered(u)' <=> Delivered(u)
    <3>1. UNCHANGED <<family, used, held>> BY <2>2 DEF MarkUsed, Snapshot, row
    <3>2. /\ req[r].step # "answer" /\ req'[r].step # "answer"
          /\ \A s \in Requests \ {r} : req'[s] = req[s]
      BY <2>2, Arguments DEF MarkUsed, Snapshot, Goto, IInv, TypeOK, RequestState
    <3> QED BY <3>1, <3>2 DEF Delivered
  <2>3. ASSUME NEW r \in Requests, Answer(r) PROVE UNCHANGED <<family, used>>
    BY <2>3 DEF Answer, row
  <2>4. ASSUME NEW r \in Requests, Proceed(r) PROVE [Contract!Next]_(Contract!vars)
    BY <2>1, <2>2, <2>3, <2>4, AnswerIInv, SignRefines, CommitRefines, RevokeRefines
    DEF Proceed
  <2>5. ASSUME NEW r \in Requests, Begins(r) PROVE [Contract!Next]_(Contract!vars)
    BY <2>1, <2>5, BeginsIInv, BeginsStutters DEF row
  <2>6. ASSUME NEW t \in Tokens, Expire(t) PROVE [Contract!Next]_(Contract!vars)
    <3>1. UNCHANGED <<family, used>> /\ \A u \in Tokens : Delivered(u)' <=> Delivered(u)
      BY <2>6 DEF Expire, Delivered
    <3> QED BY <2>1, <3>1
  <2>7. CASE UNCHANGED vars
    <3>1. UNCHANGED <<family, used>> /\ \A u \in Tokens : Delivered(u)' <=> Delivered(u)
      BY <2>7 DEF vars, row, Delivered
    <3> QED BY <2>1, <3>1
  <2> QED BY <2>4, <2>5, <2>6, <2>7, FailRefines DEF Next, Begins
<1> QED BY <1>1, <1>2, TokenInvariance, PTL DEF Spec, ImplementsContract, Contract!Spec
=============================================================================
