------------------------------ MODULE DdnsClient ------------------------------
(***************************************************************************)
(* gencode/ddnsclient/main.go: cron starts aliyunDDNSClient every ten      *)
(* seconds, each time in a goroutine of its own, whether or not the last   *)
(* one has ended.  A run fetches the machine's address, compares it with   *)
(* preIP, and updates the A records of the domain one after the other.     *)
(*                                                                         *)
(* preIP is a string that the runs share without a lock: its length and    *)
(* its pointer are stored one after the other.  A comparison reads both in *)
(* one step here; a read between two stores would only find preIP unequal, *)
(* as a read before them does.                                             *)
(***************************************************************************)
EXTENDS Integers, Sequences

CONSTANTS
  Run,          \* the runs that may be under way together
  IP,           \* addresses of the machine, none the prefix of another
  NoIP,         \* the empty string
  Length,       \* Length[x]: bytes of x
  Records,      \* the domain's records, in the order of the answer
  RecordType,   \* their types
  MaxChange,    \* bound: changes of the address
  MaxFail       \* bound: calls of the services that fail or answer with another text

Text == IP \cup {NoIP}

ASSUME DdnsAssumption ==
  /\ NoIP \notin IP
  /\ Length \in [Text -> Nat]
  /\ \A x \in Text : Length[x] = 0 <=> x = NoIP
  /\ Records \in Seq(STRING)
  /\ \A i, j \in 1..Len(Records) : Records[i] = Records[j] => i = j
  /\ RecordType \in [1..Len(Records) -> STRING]
  /\ MaxChange \in Nat /\ MaxFail \in Nat

VARIABLES
  ip,               \* the machine's address, as ip.cip.cc sees it
  record,           \* the value of each record, by its place in the answer
  prePtr, preLen,   \* preIP
  pc, externalIP, at,   \* per run: where it is, its address, the record it is at
  changes, fails,
  done, bad,        \* per run, history: an update succeeded, an update failed
  overlap,          \* history: a run began while another was under way
  partial,          \* history: updates of one run succeeded and failed
  lost              \* history: an update took effect and was reported as failed

env == <<ip, changes>>
pre == <<prePtr, preLen>>
history == <<done, bad, overlap, partial, lost>>
vars == <<ip, record, prePtr, preLen, pc, externalIP, at, changes, fails, history>>

Place == 1..Len(Records)
ARecord == {i \in Place : RecordType[i] = "A"}

TypeOK ==
  /\ ip \in IP
  /\ record \in [Place -> Text]
  /\ prePtr \in Text /\ preLen \in Nat
  /\ pc \in [Run -> {"idle", "fetch", "compare", "describe", "update", "len", "ptr"}]
  /\ externalIP \in [Run -> Text]
  /\ at \in [Run -> 1..Len(Records) + 1]
  /\ \A r \in Run : pc[r] \in {"len", "ptr"} => at[r] \in ARecord
  /\ changes \in 0..MaxChange /\ fails \in 0..MaxFail
  /\ done \in [Run -> BOOLEAN] /\ bad \in [Run -> BOOLEAN]
  /\ overlap \in BOOLEAN /\ partial \in BOOLEAN /\ lost \in BOOLEAN

Init ==
  /\ ip \in IP
  /\ record = [i \in Place |-> NoIP]
  /\ prePtr = NoIP /\ preLen = 0
  /\ pc = [r \in Run |-> "idle"]
  /\ externalIP = [r \in Run |-> NoIP] /\ at = [r \in Run |-> 1]
  /\ changes = 0 /\ fails = 0
  /\ done = [r \in Run |-> FALSE] /\ bad = [r \in Run |-> FALSE]
  /\ overlap = FALSE /\ partial = FALSE /\ lost = FALSE

Goto(r, l) == pc' = [pc EXCEPT ![r] = l]

Fail == fails < MaxFail /\ fails' = fails + 1

\* The provider gives the machine another address.
Change(x) ==
  /\ changes < MaxChange /\ x # ip
  /\ ip' = x
  /\ changes' = changes + 1
  /\ UNCHANGED <<record, pre, pc, externalIP, at, fails, history>>

\* cron starts a run.
Tick(r) ==
  /\ pc[r] = "idle"
  /\ Goto(r, "fetch")
  /\ done' = [done EXCEPT ![r] = FALSE] /\ bad' = [bad EXCEPT ![r] = FALSE]
  /\ overlap' = (overlap \/ \E q \in Run : pc[q] # "idle")
  /\ UNCHANGED <<env, record, pre, externalIP, at, fails, partial, lost>>

\* The body of the answer is taken for the address, whatever the status says:
\* it may be empty, or any other text, for which another member of IP stands.
GetExternalIP(r) ==
  /\ pc[r] = "fetch"
  /\ \/ externalIP' = [externalIP EXCEPT ![r] = ip] /\ UNCHANGED fails
     \/ Fail /\ \E x \in Text \ {ip} : externalIP' = [externalIP EXCEPT ![r] = x]
  /\ Goto(r, "compare")
  /\ UNCHANGED <<env, record, pre, at, history>>

\* preIP == x: the lengths are equal, and then so are the bytes; a pointer and
\* a length of different texts are equal to none of them, except that a
\* length of 0 is the empty string whatever the pointer.
Holds(x) == preLen = Length[x] /\ (prePtr = x \/ Length[x] = 0)

\* Mutant: a preIP that is not empty is taken for the address.
CompareEmpty(r) ==
  /\ pc[r] = "compare"
  /\ Goto(r, IF prePtr # NoIP THEN "idle" ELSE "describe")
  /\ UNCHANGED <<env, record, pre, externalIP, at, fails, history>>

Compare(r) ==
  /\ pc[r] = "compare"
  /\ Goto(r, IF Holds(externalIP[r]) THEN "idle" ELSE "describe")
  /\ UNCHANGED <<env, record, pre, externalIP, at, fails, history>>

DescribeDomainRecords(r) ==
  /\ pc[r] = "describe"
  /\ at' = [at EXCEPT ![r] = 1]
  /\ Goto(r, "update")
  /\ UNCHANGED <<env, record, pre, externalIP, fails, history>>

\* Fetching the address or listing the records fails, and the run ends.
CallFails(r) ==
  /\ pc[r] \in {"fetch", "describe"}
  /\ Fail
  /\ Goto(r, "idle")
  /\ UNCHANGED <<env, record, pre, externalIP, at, history>>

\* A record that is not an A record is passed over.
Skip(r) ==
  /\ pc[r] = "update" /\ at[r] \in Place \ ARecord
  /\ at' = [at EXCEPT ![r] = @ + 1]
  /\ UNCHANGED <<env, record, pre, pc, externalIP, fails, history>>

UpdateDomainRecord(r) ==
  /\ pc[r] = "update" /\ at[r] \in ARecord
  /\ record' = [record EXCEPT ![at[r]] = externalIP[r]]
  /\ done' = [done EXCEPT ![r] = TRUE] /\ partial' = (partial \/ bad[r])
  /\ Goto(r, "len")
  /\ UNCHANGED <<env, pre, externalIP, at, fails, bad, overlap, lost>>

\* Mutant: preIP is assigned although the update failed.
UpdateFailsRemembered(r) ==
  /\ pc[r] = "update" /\ at[r] \in ARecord
  /\ Fail
  /\ bad' = [bad EXCEPT ![r] = TRUE] /\ partial' = (partial \/ done[r])
  /\ Goto(r, "len")
  /\ UNCHANGED <<env, record, pre, externalIP, at, done, overlap, lost>>

\* The update fails and the loop goes on with the next record.
UpdateFails(r) ==
  /\ pc[r] = "update" /\ at[r] \in ARecord
  /\ Fail
  /\ at' = [at EXCEPT ![r] = @ + 1]
  /\ bad' = [bad EXCEPT ![r] = TRUE] /\ partial' = (partial \/ done[r])
  /\ UNCHANGED <<env, record, pre, pc, externalIP, done, overlap, lost>>

\* The update takes effect, but its answer does not arrive.
UpdateLost(r) ==
  /\ pc[r] = "update" /\ at[r] \in ARecord
  /\ Fail
  /\ record' = [record EXCEPT ![at[r]] = externalIP[r]]
  /\ at' = [at EXCEPT ![r] = @ + 1]
  /\ lost' = TRUE
  /\ bad' = [bad EXCEPT ![r] = TRUE] /\ partial' = (partial \/ done[r])
  /\ UNCHANGED <<env, pre, pc, externalIP, done, overlap>>

\* preIP = externalIP, in two stores.
StoreLen(r) ==
  /\ pc[r] = "len"
  /\ preLen' = Length[externalIP[r]]
  /\ Goto(r, "ptr")
  /\ UNCHANGED <<env, record, prePtr, externalIP, at, fails, history>>

StorePtr(r) ==
  /\ pc[r] = "ptr"
  /\ prePtr' = externalIP[r]
  /\ at' = [at EXCEPT ![r] = @ + 1]
  /\ Goto(r, "update")
  /\ UNCHANGED <<env, record, preLen, externalIP, fails, history>>

Return(r) ==
  /\ pc[r] = "update" /\ at[r] > Len(Records)
  /\ Goto(r, "idle")
  /\ UNCHANGED <<env, record, pre, externalIP, at, fails, history>>

Step(r) ==
  \/ Tick(r) \/ GetExternalIP(r) \/ Compare(r) \/ DescribeDomainRecords(r) \/ CallFails(r)
  \/ Skip(r) \/ UpdateDomainRecord(r) \/ UpdateFails(r) \/ UpdateLost(r)
  \/ StoreLen(r) \/ StorePtr(r) \/ Return(r)

Next == (\E r \in Run : Step(r)) \/ \E x \in IP : Change(x)

Spec == Init /\ [][Next]_vars

\* cron keeps starting runs, and every call returns.
FairSpec == Spec /\ \A r \in Run : WF_vars(Step(r))

(***************************************************************************)
(* Properties.                                                             *)
(***************************************************************************)
Current(x) == \A i \in ARecord : record[i] = x

\* No run is under way, and the next ones will find preIP equal to the
\* address and leave the records alone: then all of them have that address,
\* unless runs overlapped, a run updated some records and failed to update
\* others, or an update took effect and was reported as failed.  These are
\* the three ways in which "ip not change" leaves a record behind.
UnchangedMeansCurrent ==
  (\A r \in Run : pc[r] = "idle") /\ Holds(ip) /\ ~overlap /\ ~partial /\ ~lost => Current(ip)

\* Whatever overlaps or fails, once the address stays preIP comes to hold it
\* and keeps it: a mixture of two stores, or a late store of an old address,
\* makes the next run update again.  If nothing overlapped, failed in part or
\* was lost, the records come to hold it too.
Settles == <>[] (Holds(ip) /\ (overlap \/ partial \/ lost \/ Current(ip)))
=============================================================================
