--------------------------- MODULE DdnsClientProof ---------------------------
(***************************************************************************)
(* For any records, addresses and number of runs: if no runs overlapped,   *)
(* no run updated only some records and no update was lost, then a preIP   *)
(* equal to the address means that the records are up to date.             *)
(*                                                                         *)
(* UnchangedMeansCurrent speaks of idle moments only.  The invariant adds  *)
(* what a run in the middle of its loop has achieved: before its first     *)
(* update succeeds nothing has changed since the last idle moment, and     *)
(* from then on the records it has passed, and preIP, have its address.    *)
(***************************************************************************)
EXTENDS DdnsClient, TLAPS

Updating == {"update", "len", "ptr"}

\* preIP is empty, or it and all A records have one address.
Settled == prePtr = NoIP \/ (Holds(prePtr) /\ Current(prePtr))

\* The A records up to place n have the address of run r.
UpTo(r, n) == \A i \in ARecord : i <= n => record[i] = externalIP[r]

\* What run r has achieved.
Progress(r) ==
  /\ pc[r] \in {"fetch", "compare", "describe"} => ~done[r] /\ ~bad[r]
  /\ pc[r] = "update" /\ ~done[r] /\ ~bad[r] => \A i \in ARecord : i >= at[r]
  /\ pc[r] \in {"len", "ptr"} => done[r]
  /\ pc[r] \in Updating /\ done[r] => ~bad[r]
  /\ pc[r] = "update" /\ done[r] =>
       UpTo(r, at[r] - 1) /\ prePtr = externalIP[r] /\ Holds(externalIP[r])
  /\ pc[r] = "len" => UpTo(r, at[r])
  /\ pc[r] = "ptr" => UpTo(r, at[r]) /\ preLen = Length[externalIP[r]]

Clean ==
  /\ \A r, q \in Run : pc[r] # "idle" /\ pc[q] # "idle" => r = q
  /\ (\A r \in Run : pc[r] \in Updating => ~done[r]) => Settled
  /\ \A r \in Run : Progress(r)

Untroubled == ~overlap /\ ~partial /\ ~lost

IInv == TypeOK /\ (Untroubled => Clean)

\* Every step of a run keeps the types.
LEMMA TypeStep ==
  ASSUME TypeOK, NEW r \in Run, Step(r)
  PROVE  TypeOK'
<1> USE DdnsAssumption
<1>0. Len(Records) \in Nat
  OBVIOUS
<1>1. CASE Tick(r)
  BY <1>1 DEF Tick, TypeOK, Goto, env, pre
<1>2. CASE GetExternalIP(r)
  <2>1. PICK x \in Text : externalIP' = [externalIP EXCEPT ![r] = x]
    BY <1>2 DEF GetExternalIP, TypeOK, Text
  <2>2. fails' \in 0..MaxFail
    BY <1>2 DEF GetExternalIP, Fail, TypeOK
  <2>3. QED
    BY <1>2, <2>1, <2>2 DEF GetExternalIP, TypeOK, Goto, env, pre, history
<1>3. CASE Compare(r)
  BY <1>3 DEF Compare, TypeOK, Goto, env, pre, history
<1>4. CASE DescribeDomainRecords(r)
  <2>1. 1 \in 1..Len(Records) + 1
    BY <1>0
  <2>2. QED
    BY <1>4, <2>1 DEF DescribeDomainRecords, TypeOK, Goto, env, pre, history
<1>5. CASE CallFails(r)
  BY <1>5 DEF CallFails, Fail, TypeOK, Goto, env, pre, history
<1>6. ASSUME at[r] \in Place PROVE at[r] + 1 \in 1..Len(Records) + 1
  BY <1>0, <1>6 DEF Place
<1>7. CASE Skip(r)
  BY <1>0, <1>6, <1>7 DEF Skip, TypeOK, env, pre, history
<1>8. CASE UpdateDomainRecord(r)
  BY <1>8 DEF UpdateDomainRecord, TypeOK, Goto, env, pre
<1>9. CASE UpdateFails(r)
  <2>1. at[r] \in Place
    BY <1>9 DEF UpdateFails, ARecord
  <2>2. QED
    BY <1>6, <1>9, <2>1 DEF UpdateFails, Fail, TypeOK, env, pre
<1>10. CASE UpdateLost(r)
  <2>1. at[r] \in Place
    BY <1>10 DEF UpdateLost, ARecord
  <2>2. QED
    BY <1>6, <1>10, <2>1 DEF UpdateLost, Fail, TypeOK, env, pre
<1>11. CASE StoreLen(r)
  BY <1>11 DEF StoreLen, TypeOK, Goto, env, history
<1>12. CASE StorePtr(r)
  <2>1. at[r] \in Place
    BY <1>12 DEF StorePtr, TypeOK, ARecord
  <2>2. QED
    BY <1>6, <1>12, <2>1 DEF StorePtr, TypeOK, Goto, env, history
<1>13. CASE Return(r)
  BY <1>13 DEF Return, TypeOK, Goto, env, pre, history
<1>14. QED
  BY <1>1, <1>2, <1>3, <1>4, <1>5, <1>7, <1>8, <1>9, <1>10, <1>11, <1>12, <1>13 DEF Step

\* In a clean state only the run that takes the step is under way, so a step
\* keeps Clean if it keeps Progress for that run.
LEMMA OneRun ==
  ASSUME TypeOK, Clean, NEW r \in Run, NEW l, pc[r] # "idle", pc' = [pc EXCEPT ![r] = l],
         \A q \in Run \ {r} : done'[q] = done[q] /\ bad'[q] = bad[q],
         Progress(r)',
         (l \in Updating => ~done'[r]) => Settled'
  PROVE  Clean'
<1>1. \A q \in Run \ {r} : pc[q] = "idle" /\ pc'[q] = "idle"
  BY DEF Clean, TypeOK
<1>2. \A q \in Run \ {r} : Progress(q)'
  BY <1>1 DEF Progress, Updating
<1>3. pc'[r] = l
  BY DEF TypeOK
<1>4. QED
  BY <1>1, <1>2, <1>3 DEF Clean

\* A step that leaves preIP and the records alone leaves Settled alone.
LEMMA SettledSame ==
  ASSUME UNCHANGED <<record, pre>>, Settled
  PROVE  Settled'
BY DEF Settled, Holds, Current, pre

\* Before its first success a run finds everything settled.
LEMMA NotDone ==
  ASSUME TypeOK, Clean, NEW r \in Run, pc[r] # "idle", pc[r] \in Updating => ~done[r]
  PROVE  Settled
<1>1. \A q \in Run : pc[q] \in Updating => ~done[q]
  BY DEF Clean, Updating
<1>2. QED
  BY <1>1 DEF Clean

\* Every step of a run keeps Clean.
LEMMA CleanStep ==
  ASSUME TypeOK, TypeOK', Untroubled => Clean, NEW r \in Run, Step(r), Untroubled'
  PROVE  Clean'
<1> USE DdnsAssumption
<1>0. Len(Records) \in Nat /\ at[r] \in 1..Len(Records) + 1 /\ ARecord \subseteq 1..Len(Records)
  BY DEF TypeOK, ARecord, Place
<1>1. Untroubled /\ Clean
  <2>1. Untroubled
    BY DEF Untroubled, Step, Tick, GetExternalIP, Compare, DescribeDomainRecords, CallFails,
           Skip, UpdateDomainRecord, UpdateFails, UpdateLost, StoreLen, StorePtr, Return,
           history, TypeOK
  <2>2. QED
    BY <2>1
<1>2. Progress(r)
  BY <1>1 DEF Clean
<1>3. CASE Tick(r)
  <2>1. \A q \in Run : pc[q] = "idle"
    BY <1>3 DEF Tick, Untroubled, TypeOK
  <2>2. Settled'
    <3>1. Settled
      BY <1>1, <2>1 DEF Clean, Updating
    <3>2. QED
      BY <1>3, <3>1, SettledSame DEF Tick
  <2>3. \A q \in Run \ {r} : pc'[q] = "idle"
    BY <1>3, <2>1 DEF Tick, Goto, TypeOK
  <2>4. pc'[r] = "fetch" /\ ~done'[r] /\ ~bad'[r]
    BY <1>3 DEF Tick, Goto, TypeOK
  <2>5. \A q \in Run : Progress(q)'
    BY <2>3, <2>4 DEF Progress, Updating
  <2>6. QED
    BY <2>2, <2>3, <2>4, <2>5 DEF Clean
<1>4. CASE GetExternalIP(r)
  <2>1. pc[r] = "fetch" /\ pc' = [pc EXCEPT ![r] = "compare"] /\ UNCHANGED <<record, pre, done, bad>>
    BY <1>4 DEF GetExternalIP, Goto, history
  <2>2. Settled'
    BY <1>1, <2>1, NotDone, SettledSame DEF Updating
  <2>3. Progress(r)'
    BY <1>2, <2>1 DEF Progress, TypeOK, Updating
  <2>4. QED
    BY <1>1, <2>1, <2>2, <2>3, OneRun
<1>5. CASE Compare(r)
  <2>1. PICK l \in {"idle", "describe"} :
          pc[r] = "compare" /\ pc' = [pc EXCEPT ![r] = l] /\ UNCHANGED <<record, pre, done, bad>>
    BY <1>5 DEF Compare, Goto, history
  <2>2. Settled'
    BY <1>1, <2>1, NotDone, SettledSame DEF Updating
  <2>3. Progress(r)'
    BY <1>2, <2>1 DEF Progress, TypeOK, Updating
  <2>4. QED
    BY <1>1, <2>1, <2>2, <2>3, OneRun
<1>6. CASE DescribeDomainRecords(r)
  <2>1. pc[r] = "describe" /\ pc' = [pc EXCEPT ![r] = "update"] /\ at'[r] = 1 /\ UNCHANGED <<record, pre, done, bad>>
    BY <1>6 DEF DescribeDomainRecords, Goto, history, TypeOK
  <2>2. Settled'
    BY <1>1, <2>1, NotDone, SettledSame DEF Updating
  <2>3. Progress(r)'
    BY <1>0, <1>2, <2>1 DEF Progress, TypeOK, Updating, ARecord
  <2>4. QED
    BY <1>1, <2>1, <2>2, <2>3, OneRun
<1>7. CASE CallFails(r)
  <2>1. pc[r] \in {"fetch", "describe"} /\ pc' = [pc EXCEPT ![r] = "idle"] /\ UNCHANGED <<record, pre, done, bad>>
    BY <1>7 DEF CallFails, Goto, history
  <2>2. Settled'
    BY <1>1, <2>1, NotDone, SettledSame DEF Updating
  <2>3. Progress(r)'
    BY <2>1 DEF Progress, TypeOK, Updating
  <2>4. QED
    BY <1>1, <2>1, <2>2, <2>3, OneRun
<1>8. CASE Skip(r)
  <2>1. /\ pc[r] = "update" /\ at[r] \notin ARecord /\ at'[r] = at[r] + 1
        /\ pc' = [pc EXCEPT ![r] = "update"] /\ UNCHANGED <<record, pre, done, bad, externalIP>>
    BY <1>8 DEF Skip, history, TypeOK
  <2>2. ~done[r] => Settled'
    BY <1>1, <2>1, NotDone, SettledSame DEF Updating
  <2>3. Progress(r)'
    <3>1. ~done[r] /\ ~bad[r] => \A i \in ARecord : i >= at[r] + 1
      BY <1>0, <1>2, <2>1 DEF Progress
    <3>2. done[r] => UpTo(r, at[r]) /\ prePtr = externalIP[r] /\ Holds(externalIP[r]) /\ ~bad[r]
      BY <1>0, <1>2, <2>1 DEF Progress, UpTo, Updating
    <3>3. at'[r] - 1 = at[r]
      BY <1>0, <2>1
    <3>4. QED
      BY <2>1, <3>1, <3>2, <3>3 DEF Progress, UpTo, Holds, pre, TypeOK, ARecord, Place
  <2>4. QED
    BY <1>1, <2>1, <2>2, <2>3, OneRun DEF Updating
<1>9. CASE UpdateDomainRecord(r)
  <2>1. /\ pc[r] = "update" /\ at[r] \in ARecord /\ at' = at
        /\ pc' = [pc EXCEPT ![r] = "len"] /\ UNCHANGED <<bad, externalIP>>
        /\ done' = [done EXCEPT ![r] = TRUE]
        /\ record' = [record EXCEPT ![at[r]] = externalIP[r]]
    BY <1>9 DEF UpdateDomainRecord, Goto
  <2>2. ~bad[r]
    BY <1>9 DEF UpdateDomainRecord, Untroubled, TypeOK
  <2>3. \A i \in ARecord : i < at[r] => record[i] = externalIP[r]
    BY SMTT(30), <1>0, <1>2, <2>1, <2>2 DEF Progress, UpTo, Updating
  <2>4. UpTo(r, at[r])'
    <3>1. SUFFICES ASSUME NEW i \in ARecord, i <= at[r] PROVE record'[i] = externalIP[r]
      BY <2>1 DEF UpTo, ARecord, Place
    <3>2. i \in Place
      BY DEF ARecord
    <3>3. i = at[r] \/ i < at[r]
      BY <1>0, <3>1
    <3>4. QED
      BY <2>1, <2>3, <3>2, <3>3 DEF TypeOK
  <2>5. Progress(r)' /\ done'[r]
    BY <2>1, <2>2, <2>4 DEF Progress, TypeOK, Updating
  <2>6. \A q \in Run \ {r} : done'[q] = done[q] /\ bad'[q] = bad[q]
    BY <2>1 DEF TypeOK
  <2>7. QED
    BY <1>1, <2>1, <2>5, <2>6, OneRun DEF Updating
<1>10. CASE UpdateFails(r)
  <2>1. /\ pc[r] = "update" /\ pc' = [pc EXCEPT ![r] = "update"] /\ UNCHANGED <<record, pre, done>>
        /\ bad' = [bad EXCEPT ![r] = TRUE]
    BY <1>10 DEF UpdateFails, TypeOK
  <2>2. ~done[r]
    BY <1>10 DEF UpdateFails, Untroubled, TypeOK
  <2>3. Settled'
    BY <1>1, <2>1, <2>2, NotDone, SettledSame DEF Updating
  <2>4. Progress(r)'
    BY <2>1, <2>2 DEF Progress, TypeOK, Updating
  <2>5. QED
    BY <1>1, <2>1, <2>3, <2>4, OneRun DEF TypeOK
<1>11. CASE UpdateLost(r)
  BY <1>11 DEF UpdateLost, Untroubled
<1>12. CASE StoreLen(r)
  <2>1. /\ pc[r] = "len" /\ pc' = [pc EXCEPT ![r] = "ptr"]
        /\ UNCHANGED <<record, done, bad, at, externalIP>>
        /\ preLen' = Length[externalIP[r]]
    BY <1>12 DEF StoreLen, Goto, history
  <2>2. done[r] /\ UpTo(r, at[r])
    BY <1>2, <2>1 DEF Progress
  <2>3. Progress(r)'
    BY <1>2, <2>1, <2>2 DEF Progress, TypeOK, Updating, UpTo, ARecord, Place
  <2>4. QED
    BY <1>1, <2>1, <2>2, <2>3, OneRun DEF Updating
<1>13. CASE StorePtr(r)
  <2>1. /\ pc[r] = "ptr" /\ pc' = [pc EXCEPT ![r] = "update"]
        /\ UNCHANGED <<record, done, bad, preLen, externalIP>>
        /\ prePtr' = externalIP[r] /\ at'[r] = at[r] + 1
    BY <1>13 DEF StorePtr, Goto, history, TypeOK
  <2>2. /\ done[r] /\ ~bad[r] /\ UpTo(r, at[r]) /\ preLen = Length[externalIP[r]]
    BY <1>2, <2>1 DEF Progress, Updating
  <2>3. at'[r] - 1 = at[r]
    BY <1>0, <2>1
  <2>4. Holds(externalIP[r])' /\ UpTo(r, at[r] - 1)'
    BY <2>1, <2>2, <2>3 DEF Holds, UpTo, ARecord, Place
  <2>5. Progress(r)'
    BY <2>1, <2>2, <2>4 DEF Progress, TypeOK, Updating
  <2>6. QED
    BY <1>1, <2>1, <2>2, <2>5, OneRun DEF Updating
<1>14. CASE Return(r)
  <2>1. /\ pc[r] = "update" /\ pc' = [pc EXCEPT ![r] = "idle"] /\ at[r] > Len(Records)
        /\ UNCHANGED <<record, pre, done, bad>>
    BY <1>14 DEF Return, Goto, history
  <2>2. Settled
    <3>1. CASE ~done[r]
      BY <1>1, <2>1, <3>1, NotDone
    <3>2. CASE done[r]
      <4>1. prePtr = externalIP[r] /\ Holds(externalIP[r]) /\ UpTo(r, at[r] - 1)
        BY <1>2, <2>1, <3>2 DEF Progress, TypeOK
      <4>2. Current(externalIP[r])
        BY <1>0, <2>1, <4>1 DEF Current, UpTo
      <4>3. QED
        BY <4>1, <4>2 DEF Settled, Holds
    <3>3. QED
      BY <3>1, <3>2
  <2>3. Settled'
    BY <2>1, <2>2, SettledSame
  <2>4. Progress(r)'
    BY <2>1 DEF Progress, TypeOK, Updating
  <2>5. QED
    BY <1>1, <2>1, <2>3, <2>4, OneRun
<1>15. QED
  BY <1>3, <1>4, <1>5, <1>6, <1>7, <1>8, <1>9, <1>10, <1>11, <1>12, <1>13, <1>14 DEF Step

\* The inductive invariant holds in every state.
THEOREM DdnsInvariant == Spec => []IInv
<1>1. Init => IInv
  <2> SUFFICES ASSUME Init PROVE IInv
    OBVIOUS
  <2> USE DdnsAssumption
  <2>1. TypeOK
    <3>1. 1 \in 1..Len(Records) + 1 /\ 0 \in 0..MaxChange /\ 0 \in 0..MaxFail
      OBVIOUS
    <3>2. QED
      BY <3>1 DEF Init, TypeOK, Text
  <2>2. Clean
    BY DEF Init, Clean, Settled, Progress, Updating
  <2>3. QED
    BY <2>1, <2>2 DEF IInv
<1>2. IInv /\ [Next]_vars => IInv'
  <2> SUFFICES ASSUME IInv, [Next]_vars PROVE IInv'
    OBVIOUS
  <2>1. ASSUME NEW r \in Run, Step(r) PROVE IInv'
    <3>1. TypeOK'
      BY <2>1, TypeStep DEF IInv
    <3>2. QED
      BY <2>1, <3>1, CleanStep DEF IInv
  <2>2. ASSUME NEW x \in IP, Change(x) PROVE IInv'
    <3>1. TypeOK'
      BY <2>2, DdnsAssumption DEF IInv, TypeOK, Change, pre, history
    <3>2. (Untroubled => Clean)'
      BY <2>2 DEF IInv, Change, pre, history, Untroubled, Clean, Progress, Settled, Holds,
                  Current, UpTo
    <3>3. QED
      BY <3>1, <3>2 DEF IInv
  <2>3. CASE UNCHANGED vars
    <3>1. TypeOK'
      BY <2>3 DEF IInv, TypeOK, vars, history
    <3>2. (Untroubled => Clean)'
      BY <2>3 DEF IInv, vars, history, Untroubled, Clean, Progress, Settled, Holds, Current, UpTo
    <3>3. QED
      BY <3>1, <3>2 DEF IInv
  <2>4. QED
    BY <2>1, <2>2, <2>3 DEF Next
<1>3. QED
  BY <1>1, <1>2, PTL DEF Spec

\* "ip not change" is right unless runs overlapped, a run failed in part or
\* an update was lost.
THEOREM UnchangedCorrect == Spec => []UnchangedMeansCurrent
<1>1. IInv => UnchangedMeansCurrent
  <2> SUFFICES ASSUME IInv, \A r \in Run : pc[r] = "idle", Holds(ip), Untroubled
               PROVE  Current(ip)
    BY DEF UnchangedMeansCurrent, Untroubled
  <2>1. Settled
    BY DEF IInv, Clean, Updating
  <2>2. prePtr = ip /\ ip # NoIP
    BY DdnsAssumption DEF IInv, TypeOK, Holds, Text
  <2>3. QED
    BY <2>1, <2>2 DEF Settled
<1>2. QED
  BY <1>1, DdnsInvariant, PTL
=============================================================================
