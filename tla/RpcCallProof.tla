---------------------------- MODULE RpcCallProof ----------------------------
(***************************************************************************)
(* Proofs about a connection of mg_server, from the bytes a client sends   *)
(* to the bytes it is sent, for any messages of any lengths: RpcFraming    *)
(* cuts the stream into requests, RpcCall answers them, and SendQueue      *)
(* sends the answers.                                                      *)
(*                                                                         *)
(* RpcFraming.  Aligned ties the parser's counters to the layout of the    *)
(* stream: it says, for every parse type, which byte comes next and what   *)
(* the partial request covers.  It holds while the parser is Guided by     *)
(* lengths that are not negative; the inductive invariant Framed adds what *)
(* stays true behind the first negative one.                               *)
(*                                                                         *)
(* RpcCall.  With Framed, CallInv says what has been answered.  The rest   *)
(* is about the operators of RpcMessage: the loop of the parser, run on    *)
(* the bytes of the guards until a field ends it, makes of a header what   *)
(* Going, LastOf and EndsInside say of its fields.                         *)
(*                                                                         *)
(* SendQueue.  QueueInv says how the queue's guards continue the wire.     *)
(***************************************************************************)
EXTENDS RpcCall, SendQueue, SequenceTheorems, NaturalsInduction, WellFoundedInduction, TLAPS

(***************************************************************************)
(* Induction up to a number.                                               *)
(***************************************************************************)
\* A set of naturals that contains 0 and the successors of its members, up to
\* m, contains 0 .. m: the least number left out has no predecessor in it.
LEMMA UpTo ==
  ASSUME NEW m \in Nat, NEW Q, 0 \in Q, \A i \in 0..m : i \in Q /\ i < m => i + 1 \in Q
  PROVE  \A i \in 0..m : i \in Q
<1> SUFFICES ASSUME NEW j \in 0..m, j \notin Q PROVE FALSE
  OBVIOUS
<1>1. PICK T : T = {i \in 0..m : i \notin Q}
  OBVIOUS
<1>2. T \subseteq Nat /\ T # {}
  BY <1>1
<1>3. IsWellFoundedOn(OpToRel(<, Nat), Nat)
  BY NatLessThanWellFounded
<1>4. PICK R : R = OpToRel(<, Nat)
  OBVIOUS
<1>5. \A x, y \in Nat : y < x => <<y, x>> \in R
  BY <1>4 DEF OpToRel
<1>6. PICK x \in T : \A y \in T : ~(<<y, x>> \in R)
  BY <1>2, <1>3, <1>4, WFMin
<1>7. x \in 0..m /\ x \notin Q /\ x # 0
  BY <1>1, <1>6
<1>8. x - 1 \in 0..m /\ x - 1 < m /\ (x - 1) + 1 = x /\ x - 1 \in Nat /\ x - 1 < x /\ x \in Nat
  BY <1>7
<1>9. x - 1 \notin Q
  BY <1>7, <1>8
<1>10. x - 1 \in T
  BY <1>1, <1>8, <1>9
<1> QED BY <1>5, <1>6, <1>8, <1>10

\* There is a first member of Bad among 1..m, or none.
LEMMA BeforeIs ==
  ASSUME NEW m \in Nat, NEW Bad
  PROVE  /\ Before(m, Bad) \in 0..m
         /\ \A k \in 1..Before(m, Bad) : k \notin Bad
         /\ Before(m, Bad) < m => Before(m, Bad) + 1 \in Bad
<1> DEFINE First(j) == \E i \in 0..j : (\A k \in 1..i : k \notin Bad) /\ (i < j => i + 1 \in Bad)
<1>0. PICK Q : Q = {j \in 0..m : First(j)}
  OBVIOUS
<1>1. \A j : j \in Q <=> j \in 0..m /\ First(j)
  <2> HIDE DEF First
  <2> QED BY <1>0
<1>2. 0 \in Q
  <2>1. 0 \in 0..0 /\ 0 \in 0..m /\ \A k \in 1..0 : FALSE
    OBVIOUS
  <2> QED BY <2>1, <1>1
<1>3. ASSUME NEW j \in 0..m, j \in Q, j < m
      PROVE  j + 1 \in Q
  <2>1. PICK i \in 0..j : (\A k \in 1..i : k \notin Bad) /\ (i < j => i + 1 \in Bad)
    BY <1>1, <1>3
  <2>2. j + 1 \in 0..m /\ i \in 0..j+1
    BY <1>3
  <2>3. CASE i < j \/ j + 1 \in Bad
    <3>1. i + 1 \in Bad
      BY <2>1, <2>3, <1>3
    <3> QED BY <3>1, <2>1, <2>2, <1>1
  <2>4. CASE ~(i < j) /\ j + 1 \notin Bad
    <3>1. i = j /\ \A k \in 1..j+1 : k \in 1..i \/ k = j + 1
      BY <2>4, <1>3
    <3>2. \A k \in 1..j+1 : k \notin Bad
      BY <3>1, <2>1, <2>4
    <3>3. j + 1 \in 0..j+1 /\ ~(j + 1 < j + 1)
      BY <1>3
    <3> QED BY <3>2, <3>3, <2>2, <1>1
  <2> QED BY <2>3, <2>4
<1>4. \A i \in 0..m : i \in Q
  BY <1>2, <1>3, UpTo
<1>5. m \in Q
  BY <1>4
<1>6. \E i \in 0..m : (\A k \in 1..i : k \notin Bad) /\ (i < m => i + 1 \in Bad)
  BY <1>1, <1>5
<1> QED BY <1>6 DEF Before

(***************************************************************************)
(* The parser: RpcFraming.                                                 *)
(***************************************************************************)

\* The message being parsed, and where its length header is read from.
Cur == Len(reqs) + 1
From == IF reqs = <<>> THEN MagicLen ELSE EndOf(Len(reqs))

\* The lengths that the header read from there decodes to.
CurHdr == IF Cur <= Understood THEN Hdr[Cur] ELSE Total + 1
HdrFrom == From + HeaderLen
BodyFrom == HdrFrom + CurHdr

\* No message from a negative length on has been begun.
Guided == Cur <= Sound \/ Sound = N

Aligned ==
  /\ parse_type # "M_MAGIC" => magic_remain = 0
  /\ parse_type = "M_MAGIC" =>
       /\ header_buf = <<>> /\ body_buf = <<>> /\ header_remain = HeaderLen
       /\ pos = From - magic_remain
       /\ reqs = <<>> \/ magic_remain = 0
  /\ parse_type = "M_HEADER" =>
       /\ header_buf = <<>> /\ body_buf = <<>> /\ header_remain > 0
       /\ pos = HdrFrom - header_remain
       /\ \A i \in Offset : i < HeaderLen - header_remain
                              => length_header[i] = From + i
  /\ parse_type \in {"M_RPC_HEADER", "M_RPC_CONTENT"} =>
       \A i \in Offset : length_header[i] = From + i
  /\ parse_type = "M_RPC_HEADER" =>
       /\ body_buf = <<>>
       /\ Covers(header_buf, HdrFrom, pos)
       /\ rpc_remain >= 0 /\ pos = BodyFrom - rpc_remain
  /\ parse_type = "M_RPC_CONTENT" =>
       /\ Cur <= Understood
       /\ Covers(header_buf, HdrFrom, BodyFrom)
       /\ Covers(body_buf, BodyFrom, pos)
       /\ rpc_remain >= 0 /\ pos = BodyFrom + Body[Cur] - rpc_remain
       /\ rpc_remain = 0 => Body[Cur] = 0

OnTrack == TypeOK /\ RequestsAreMessages /\ Aligned

Framed == TypeOK /\ RequestsAreMessages /\ (Guided => Aligned)

\* The sizes are numbers.
LEMMA Sizes ==
  /\ N \in Nat /\ N >= 1 /\ 1 \in 1..N
  /\ HeaderLen \in Nat /\ HeaderLen >= 1
  /\ MagicLen \in Nat /\ MagicLen >= 1
  /\ Gap \in Nat /\ (Gap = 0 \/ Gap = MagicLen)
  /\ Start[1] = MagicLen
BY StreamAssumption

\* The messages in front of a negative length.
LEMMA SoundIs ==
  /\ Sound \in 0..N /\ Understood \in 0..N /\ Understood <= Sound
  /\ Sound >= 1 => Understood >= 1
  /\ \A k \in 1..N : /\ Hdr[k] \in Int /\ Sent(Hdr[k]) \in Nat
                     /\ Body[k] \in Int /\ Sent(Body[k]) \in Nat
                     /\ k <= Sound => /\ Hdr[k] \in Nat /\ Sent(Hdr[k]) = Hdr[k]
                                      /\ Body[k] \in Nat /\ Sent(Body[k]) = Body[k]
<1>1. PICK Bad : Bad = {k \in 1..N : Hdr[k] < 0 \/ Body[k] < 0}
  OBVIOUS
<1>2. PICK n : n = Sound
  OBVIOUS
<1>3. n \in 0..N /\ \A k \in 1..n : k \notin Bad
  <2>1. Sound = Before(N, Bad) /\ N \in Nat
    BY <1>1, Sizes DEF Sound
  <2> QED BY <2>1, <1>2, BeforeIs
<1>4. ASSUME NEW k \in 1..N
      PROVE  /\ Hdr[k] \in Int /\ Sent(Hdr[k]) \in Nat
             /\ Body[k] \in Int /\ Sent(Body[k]) \in Nat
             /\ k <= n => /\ Hdr[k] \in Nat /\ Sent(Hdr[k]) = Hdr[k]
                          /\ Body[k] \in Nat /\ Sent(Body[k]) = Body[k]
  <2>1. Hdr[k] \in Int /\ Body[k] \in Int
    BY StreamAssumption
  <2>2. k <= n => ~(Hdr[k] < 0) /\ ~(Body[k] < 0)
    BY <1>1, <1>3
  <2> QED BY <2>1, <2>2 DEF Sent
<1>5. Understood \in 0..N /\ Understood <= n /\ (n >= 1 => Understood >= 1)
  BY <1>2, <1>3, Sizes DEF Understood, Min2
<1> QED BY <1>2, <1>3, <1>4, <1>5

\* Where the parts of a message lie, and that messages do not overlap.
LEMMA Layout ==
  /\ Understood \in 0..N /\ Understood <= Sound /\ Sound \in 0..N
  /\ Total \in Nat
  /\ \A k \in 1..N : /\ Start[k] \in Nat /\ Sent(Hdr[k]) \in Nat /\ Sent(Body[k]) \in Nat
                     /\ EndOf(k) = Start[k] + HeaderLen + Sent(Hdr[k]) + Sent(Body[k])
                     /\ EndOf(k) = Start[k+1] - Gap
                     /\ EndOf(k) \in Nat
                     /\ EndOf(k) <= Total
  /\ EndOf(N) = Total
  /\ \A j, k \in 1..N : j < k => EndOf(j) + Gap <= Start[k]
<1>1. ASSUME NEW k \in 1..N
      PROVE  /\ k \in 1..N+1 /\ k + 1 \in 1..N+1
             /\ Start[k] \in Nat /\ Start[k+1] \in Nat
             /\ Sent(Hdr[k]) \in Nat /\ Sent(Body[k]) \in Nat
  <2>1. k \in 1..N+1 /\ k + 1 \in 1..N+1
    BY StreamAssumption
  <2>2. QED
    BY <2>1, SoundIs, StreamAssumption
<1>2. ASSUME NEW k \in 1..N
      PROVE  /\ EndOf(k) = Start[k] + HeaderLen + Sent(Hdr[k]) + Sent(Body[k])
             /\ EndOf(k) = Start[k+1] - Gap
             /\ EndOf(k) \in Nat
  <2>1. Start[k+1] = Start[k] + HeaderLen + Sent(Hdr[k]) + Sent(Body[k]) + Gap
    BY StreamAssumption
  <2>2. HeaderLen \in Nat /\ Gap \in Nat
    BY StreamAssumption
  <2>3. QED
    BY <1>1, <2>1, <2>2 DEF EndOf, BodyAt, HdrAt
<1>3. N \in 1..N /\ N+1 \in 1..N+1
  BY StreamAssumption
<1>4. Total = EndOf(N) /\ Total \in Nat
  BY <1>2, <1>3 DEF Total
<1>5. ASSUME NEW k \in 1..N
      PROVE  EndOf(k) <= Total
  <2>1. k < N+1
    BY StreamAssumption
  <2>2. Start[k+1] <= Start[N+1]
    BY <1>1, <1>3, <2>1, StreamAssumption
  <2>3. Start[N+1] \in Nat /\ Gap \in Nat
    BY <1>1, <1>3, StreamAssumption
  <2>4. QED
    BY <1>1, <1>2, <2>2, <2>3 DEF Total
<1>6. ASSUME NEW j \in 1..N, NEW k \in 1..N, j < k
      PROVE  EndOf(j) + Gap <= Start[k]
  <2>1. Start[j+1] <= Start[k]
    BY <1>1, <1>6, StreamAssumption
  <2>2. QED
    BY <1>1, <1>2, <2>1, StreamAssumption
<1>7. QED
  BY <1>1, <1>2, <1>4, <1>5, <1>6, SoundIs

\* Appending a guard of r bytes at byte p extends what a buffer covers.
LEMMA CoverAppend ==
  ASSUME NEW buf \in Seq(Slice), NEW a \in Int, NEW p \in Int, NEW r \in Nat,
         Covers(buf, a, p)
  PROVE  LET new == Append(buf, [at |-> p, size |-> r])
         IN new \in Seq(Slice) /\ Covers(new, a, p + r)
<1> DEFINE s == [at |-> p, size |-> r]
           new == Append(buf, s)
<1>1. s \in Slice /\ s.at = p /\ s.size = r
  BY DEF Slice
<1>2. /\ new \in Seq(Slice) /\ Len(new) = Len(buf) + 1 /\ Len(buf) \in Nat
      /\ new[Len(buf) + 1] = s /\ new # <<>>
      /\ \A i \in 1..Len(buf) : new[i] = buf[i]
  BY <1>1
<1> HIDE DEF s, new
<1>3. ASSUME NEW i \in 1..Len(new)
      PROVE  /\ new[i].size >= 0
             /\ new[i].at = IF i = 1 THEN a ELSE new[i-1].at + new[i-1].size
  <2>1. CASE i <= Len(buf)
    <3>1. i \in 1..Len(buf) /\ (i # 1 => i - 1 \in 1..Len(buf))
      BY <1>2, <2>1
    <3>2. QED
      BY <1>2, <3>1 DEF Covers
  <2>2. CASE i = Len(buf) + 1
    <3>1. CASE buf = <<>>
      BY <1>1, <1>2, <2>2, <3>1 DEF Covers
    <3>2. CASE buf # <<>>
      <4>1. Len(buf) \in 1..Len(buf)
        BY <3>2, <1>2
      <4>2. QED
        BY <1>1, <1>2, <2>2, <3>2, <4>1 DEF Covers
    <3>3. QED
      BY <3>1, <3>2
  <2>3. QED
    BY <1>2, <2>1, <2>2
<1>4. new[Len(new)].at + new[Len(new)].size = p + r
  BY <1>1, <1>2
<1>5. new \in Seq(Slice) /\ Covers(new, a, p + r)
  BY <1>2, <1>3, <1>4 DEF Covers
<1>6. QED
  BY <1>5 DEF new, s

\* The length header of the current message is read from its own place, or,
\* after a repeated magic, from the magic of the second message.
LEMMA WhereFrom ==
  ASSUME TypeOK, RequestsAreMessages, Guided
  PROVE  /\ From \in Nat /\ Cur \in 1..N+1 /\ Cur <= Understood + 1
         /\ Cur <= Understood => From = Start[Cur] /\ Cur \in 1..N
         /\ Cur > Understood /\ From < Total =>
              Gap = MagicLen /\ Cur = 2 /\ N >= 2 /\ From = Start[2] - Gap
         /\ From <= Total
<1>0. Sound \in 0..N /\ N \in Nat /\ N >= 1 /\ Understood \in 0..N /\ (Sound >= 1 => Understood >= 1)
  BY SoundIs, Sizes
<1>1. Len(reqs) \in Nat /\ Len(reqs) <= Understood
  <2>1. Len(reqs) \in Nat
    BY DEF TypeOK
  <2>2. Sound = N \/ InStep
    BY <2>1, <1>0 DEF Guided, Cur, InStep
  <2> QED BY <2>1, <2>2 DEF RequestsAreMessages
<1>2. reqs = <<>> <=> Len(reqs) = 0
  BY DEF TypeOK
<1>3. Understood \in 1..N /\ N \in Nat /\ Sound >= 1
  <2>1. Sound >= 1
    BY <1>0, <1>1 DEF Guided, Cur
  <2> QED BY <2>1, <1>0
<1>4. Cur \in 1..N+1 /\ Cur <= Understood + 1
  BY <1>1, <1>3 DEF Cur
<1>5. CASE Len(reqs) = 0
  <2>1. From = MagicLen /\ Cur = 1 /\ MagicLen = Start[1]
    BY <1>2, <1>5, StreamAssumption DEF From, Cur
  <2>2. 1 \in 1..N /\ Start[1] \in Nat /\ Start[1] <= Total
    <3>1. /\ Start[1] \in Nat /\ Sent(Hdr[1]) \in Nat /\ Sent(Body[1]) \in Nat
          /\ EndOf(1) = Start[1] + HeaderLen + Sent(Hdr[1]) + Sent(Body[1])
          /\ EndOf(1) <= Total
      BY Layout, Sizes
    <3>2. QED
      BY <3>1, Layout, Sizes
  <2>3. QED
    BY <1>3, <1>4, <2>1, <2>2
<1>6. CASE Len(reqs) > 0
  <2>1. Len(reqs) \in 1..N /\ From = EndOf(Len(reqs))
    BY <1>1, <1>2, <1>3, <1>6 DEF From
  <2>2. /\ From \in Nat /\ From <= Total /\ From = Start[Cur] - Gap
    BY <2>1, Layout DEF Cur
  <2>3. CASE Gap = 0
    <3>1. Understood = Sound
      BY <2>3 DEF Understood
    <3>2. Cur <= Understood => Cur \in 1..N /\ Start[Cur] \in Nat
      <4>1. Cur <= Understood => Cur \in 1..N
        BY <1>3, <1>4
      <4> QED BY <4>1, Layout
    <3>3. Cur > Understood => Len(reqs) = N /\ From = Total
      <4>1. Cur > Understood => Sound = N
        BY <3>1, <1>0, <1>4 DEF Guided
      <4>2. Cur > Understood => Len(reqs) = N
        BY <4>1, <3>1, <1>0, <1>1 DEF Cur
      <4> QED BY <4>2, <2>1, Layout
    <3>4. Total \in Nat
      BY Layout
    <3>5. QED
      BY <1>4, <2>2, <2>3, <3>2, <3>3, <3>4
  <2>4. CASE Gap # 0
    <3>1. Understood = 1 /\ Gap = MagicLen
      BY <2>4, <1>0, <1>3, StreamAssumption DEF Understood, Min2
    <3>2. Len(reqs) = 1 /\ Cur = 2
      BY <3>1, <1>1, <1>6 DEF Cur
    <3>3. N = 1 => From = Total
      BY <3>2, <2>1, Layout
    <3>4. QED
      BY <1>3, <1>4, <2>2, <3>1, <3>2, <3>3
  <2>5. QED
    BY <2>3, <2>4
<1>7. QED
  BY <1>1, <1>5, <1>6

\* What a complete length header decodes to.
LEMMA Decode ==
  ASSUME TypeOK, RequestsAreMessages, Guided, From < Total,
         NEW lh \in [Offset -> Int], \A i \in Offset : lh[i] = From + i
  PROVE  /\ RPCHeaderLength(lh) = {CurHdr} /\ CurHdr \in Nat
         /\ Cur <= Understood => RPCBodyLength(lh) = {Body[Cur]} /\ Body[Cur] \in Nat
<1>0. InStep
  <2>1. Len(reqs) \in Nat /\ Len(reqs) + 1 <= N + 1 /\ Sound \in Nat /\ N \in Nat
    BY WhereFrom, SoundIs, Sizes DEF Cur, TypeOK
  <2> QED BY <2>1 DEF Guided, InStep, Cur
<1>1. 0 \in Offset /\ lh[0] = From
  BY WhereFrom, StreamAssumption DEF Offset
<1>2. ASSUME NEW k \in 1..N
      PROVE  k \in HeaderStart(lh) <=> Start[k] = From
  <2>1. Offset \subseteq Int /\ Start[k] \in Nat /\ From \in Nat
    BY Layout, WhereFrom, Sizes DEF Offset
  <2>2. Start[k] = From => k \in HeaderStart(lh)
    BY <2>1 DEF HeaderStart
  <2>3. k \in HeaderStart(lh) => Start[k] = From
    BY <1>1, <2>1 DEF HeaderStart
  <2>4. QED
    BY <2>2, <2>3
<1>3. CASE Cur <= Understood
  <2>1. Cur \in 1..N /\ From = Start[Cur]
    BY <1>3, WhereFrom
  <2>2. ASSUME NEW k \in 1..N, Start[k] = From
        PROVE  k = Cur
    <3>1. /\ EndOf(k) = Start[k] + HeaderLen + Sent(Hdr[k]) + Sent(Body[k])
          /\ EndOf(Cur) = Start[Cur] + HeaderLen + Sent(Hdr[Cur]) + Sent(Body[Cur])
          /\ {Start[k], Sent(Hdr[k]), Sent(Body[k])} \subseteq Nat
          /\ {Start[Cur], Sent(Hdr[Cur]), Sent(Body[Cur])} \subseteq Nat
      BY <2>1, Layout
    <3>2. HeaderLen \in Nat \ {0} /\ Gap \in Nat
      BY StreamAssumption
    <3>3. /\ k < Cur => EndOf(k) + Gap <= Start[Cur]
          /\ Cur < k => EndOf(Cur) + Gap <= Start[k]
      BY <2>1, Layout
    <3>4. QED
      BY <2>1, <2>2, <3>1, <3>2, <3>3
  <2>3. HeaderStart(lh) = {Cur}
    BY <1>2, <2>1, <2>2 DEF HeaderStart
  <2>4. RPCHeaderLength(lh) = {Hdr[Cur]} /\ RPCBodyLength(lh) = {Body[Cur]}
    BY <1>0, <2>3 DEF RPCHeaderLength, RPCBodyLength, Decoded
  <2>5. Hdr[Cur] \in Nat /\ Body[Cur] \in Nat
    <3>1. Cur <= Sound
      BY <1>3, <2>1, SoundIs, Sizes
    <3> QED BY <3>1, <2>1, SoundIs
  <2>6. QED
    BY <1>3, <2>4, <2>5 DEF CurHdr
<1>4. CASE ~(Cur <= Understood)
  <2>1. Gap = MagicLen /\ Cur = 2 /\ N >= 2 /\ From = Start[2] - Gap
    BY <1>4, WhereFrom, Layout
  <2>2. ASSUME NEW k \in 1..N
        PROVE  Start[k] # From
    <3>1. 1 \in 1..N /\ 2 \in 1..N
      BY <2>1, Sizes
    <3>2. /\ {Start[1], Sent(Hdr[1]), Sent(Body[1])} \subseteq Nat
          /\ {Start[2], Sent(Hdr[2]), Sent(Body[2])} \subseteq Nat
          /\ EndOf(1) = Start[1] + HeaderLen + Sent(Hdr[1]) + Sent(Body[1])
          /\ EndOf(2) = Start[2] + HeaderLen + Sent(Hdr[2]) + Sent(Body[2])
          /\ EndOf(1) = Start[1+1] - Gap
          /\ Start[k] \in Nat
          /\ k > 2 => EndOf(2) + Gap <= Start[k]
      BY <3>1, Layout
    <3>3. From = EndOf(1)
      BY <2>1, <3>2
    <3>4. CASE k = 1
      BY <3>2, <3>3, <3>4, Sizes
    <3>5. CASE k = 2
      BY <2>1, <3>2, <3>5, Sizes
    <3>6. CASE k > 2
      BY <2>1, <3>2, <3>6, Sizes
    <3>7. QED
      BY <3>4, <3>5, <3>6
  <2>3. HeaderStart(lh) = {}
    BY <1>2, <2>2 DEF HeaderStart
  <2>4. QED
    BY <1>0, <1>4, <2>3, Layout DEF RPCHeaderLength, Decoded, CurHdr
<1>5. QED
  BY <1>3, <1>4

\* A step that hands over no request leaves the place of the message alone.
LEMMA SameMessage ==
  ASSUME reqs' = reqs, RequestsAreMessages
  PROVE  /\ From' = From /\ Cur' = Cur /\ CurHdr' = CurHdr
         /\ HdrFrom' = HdrFrom /\ BodyFrom' = BodyFrom
         /\ RequestsAreMessages' /\ (Guided' <=> Guided)
BY DEF From, Cur, CurHdr, HdrFrom, BodyFrom, RequestsAreMessages, Guided, InStep,
       Understood, Total, EndOf, BodyAt, HdrAt, Covers

\* The counters are numbers.
LEMMA Place ==
  ASSUME TypeOK
  PROVE  /\ pos \in Int /\ length \in Nat /\ Total \in Nat /\ pos + length <= Total
         /\ magic_remain \in Nat /\ magic_remain <= MagicLen
         /\ header_remain \in Nat /\ header_remain <= HeaderLen
         /\ length > 0 => pos < Total
BY Layout, Sizes DEF TypeOK

\* Consuming bytes of the recv, or going back over some, never leads behind
\* what was received.
LEMMA PlaceStep ==
  ASSUME TypeOK, NEW r \in Int, r <= length, pos' = pos + r, length' = length - r
  PROVE  pos' \in Int /\ pos' <= Total /\ length' \in 0..Total-pos'
BY Place

\* Whatever a length header decodes to is a number.
LEMMA DecodedInt == \A lh : RPCHeaderLength(lh) \subseteq Int /\ RPCBodyLength(lh) \subseteq Int
<1>1. \A lh : \A k \in HeaderStart(lh) : Hdr[k] \in Int /\ Body[k] \in Int
  BY SoundIs DEF HeaderStart
<1>2. Uninit \subseteq Int /\ Total + 1 \in Int
  BY Layout, StreamAssumption
<1> QED BY <1>1, <1>2 DEF RPCHeaderLength, RPCBodyLength, Decoded

\* The types hold for any lengths, negative ones too.
LEMMA TypeStep == TypeOK /\ Next => TypeOK'
<1> SUFFICES ASSUME TypeOK, Next PROVE TypeOK'
  OBVIOUS
<1>1. CASE \E n \in 1..MaxRecv : Recv(n)
  <2>1. PICK n \in 1..MaxRecv : Recv(n)
    BY <1>1
  <2>2. pos' = pos /\ length' \in 0..Total-pos'
    BY <2>1, Place, StreamAssumption DEF Recv
  <2> QED BY <2>1, <2>2 DEF Recv, TypeOK
<1>2. CASE ParseMagic
  <2>1. PICK remain : remain = Min2(magic_remain, length)
    OBVIOUS
  <2>2. remain \in 0..magic_remain /\ remain <= length /\ remain \in Int
    BY <2>1, Place DEF Min2
  <2>3. pos' = pos + remain /\ length' = length - remain /\ magic_remain' = magic_remain - remain
    BY <2>1, <1>2 DEF ParseMagic, Consume
  <2>4. pos' \in Int /\ pos' <= Total /\ length' \in 0..Total-pos'
    BY <2>2, <2>3, PlaceStep
  <2>5. magic_remain' \in 0..MagicLen
    BY <2>2, <2>3, Place, Sizes
  <2> QED BY <2>4, <2>5, <1>2 DEF ParseMagic, TypeOK, ParseType
<1>3. CASE SplitHeader
  <2>1. PICK remain : remain = Min2(header_remain, length)
    OBVIOUS
  <2>2. remain \in 0..header_remain /\ remain <= length /\ remain \in Int
    BY <2>1, Place DEF Min2
  <2>3. pos' = pos + remain /\ length' = length - remain /\ header_remain' = header_remain - remain
    BY <2>1, <1>3 DEF SplitHeader, Consume
  <2>4. pos' \in Int /\ pos' <= Total /\ length' \in 0..Total-pos'
    BY <2>2, <2>3, PlaceStep
  <2>5. header_remain' \in 0..HeaderLen
    BY <2>2, <2>3, Place, Sizes
  <2>6. length_header' \in [Offset -> Int]
    <3>1. PICK first : first = HeaderLen - header_remain
      OBVIOUS
    <3>2. first \in Int /\ \A i \in Offset : i \in Int /\ length_header[i] \in Int
      BY <3>1, Place, Sizes DEF TypeOK, Offset
    <3>3. \A i \in Offset : pos + (i - first) \in Int
      BY <3>2, Place
    <3>4. length_header' = [i \in Offset |-> IF i \in first..first+remain-1
                                             THEN pos + (i - first) ELSE length_header[i]]
      BY <2>1, <3>1, <1>3 DEF SplitHeader
    <3> QED BY <3>2, <3>3, <3>4
  <2>7. rpc_remain' \in Int /\ parse_type' \in ParseType
    <3>1. RPCHeaderLength(length_header') \subseteq Int
      BY DecodedInt
    <3>2. /\ rpc_remain' = rpc_remain \/ rpc_remain' \in RPCHeaderLength(length_header')
          /\ parse_type' = parse_type \/ parse_type' = "M_RPC_HEADER"
      BY <1>3 DEF SplitHeader
    <3> QED BY <3>1, <3>2 DEF TypeOK, ParseType
  <2>8. UNCHANGED <<magic_remain, header_buf, body_buf, reqs>>
    BY <1>3 DEF SplitHeader
  <2> QED BY <2>4, <2>5, <2>6, <2>7, <2>8 DEF TypeOK
<1>4. CASE SplitRpcHeader \/ SplitContent
  <2>1. PICK remain : remain = Min2(rpc_remain, length)
    OBVIOUS
  <2>2. remain <= length /\ remain \in Int /\ rpc_remain - remain \in Int
    BY <2>1, Place DEF Min2, TypeOK
  <2>3. pos' = pos + remain /\ length' = length - remain
    BY <2>1, <1>4 DEF SplitRpcHeader, SplitContent, Consume
  <2>4. pos' \in Int /\ pos' <= Total /\ length' \in 0..Total-pos'
    BY <2>2, <2>3, PlaceStep
  <2>5. PICK s : s = [at |-> pos, size |-> remain]
    OBVIOUS
  <2>6. s \in Slice /\ header_buf \in Seq(Slice) /\ body_buf \in Seq(Slice)
    BY <2>2, <2>5 DEF Slice, TypeOK
  <2>7. PICK h, c : h = Append(header_buf, s) /\ c = Append(body_buf, s)
    OBVIOUS
  <2>8. h \in Seq(Slice) /\ c \in Seq(Slice)
    BY <2>6, <2>7
  <2>9. CASE SplitRpcHeader
    <3>1. RPCBodyLength(length_header) \subseteq Int
      BY DecodedInt
    <3>2. /\ rpc_remain' = rpc_remain - remain \/ rpc_remain' \in RPCBodyLength(length_header)
          /\ parse_type' = parse_type \/ parse_type' = "M_RPC_CONTENT"
      BY <2>1, <2>9 DEF SplitRpcHeader
    <3>3. rpc_remain' \in Int /\ parse_type' \in ParseType
      BY <3>1, <3>2, <2>2 DEF TypeOK, ParseType
    <3>4. header_buf' = h /\ UNCHANGED <<magic_remain, header_remain, length_header, body_buf, reqs>>
      BY <2>1, <2>5, <2>7, <2>9 DEF SplitRpcHeader
    <3> QED BY <3>3, <3>4, <2>4, <2>8 DEF TypeOK
  <2>10. CASE SplitContent
    <3>1. PICK R : R = [header : Seq(Slice), body : Seq(Slice)]
      OBVIOUS
    <3>2. PICK q : q = [header |-> header_buf, body |-> c]
      OBVIOUS
    <3>3. q \in R /\ reqs \in Seq(R)
      BY <3>1, <3>2, <2>6, <2>8 DEF TypeOK
    <3>4. Append(reqs, q) \in Seq(R)
      BY <3>3
    <3>5. UNCHANGED magic_remain
      BY <2>10 DEF SplitContent
    <3>6. CASE rpc_remain - remain > 0
      <4>1. /\ rpc_remain' = rpc_remain - remain /\ body_buf' = c
            /\ UNCHANGED <<parse_type, header_remain, length_header, header_buf, reqs>>
        BY <3>6, <2>1, <2>5, <2>7, <2>10 DEF SplitContent
      <4> QED BY <4>1, <3>5, <2>2, <2>4, <2>8 DEF TypeOK
    <3>7. CASE ~(rpc_remain - remain > 0)
      <4>1. /\ reqs' = Append(reqs, q) /\ header_buf' = <<>> /\ body_buf' = <<>>
            /\ length_header' = [i \in Offset |-> -1] /\ header_remain' = HeaderLen
            /\ rpc_remain' = 0 /\ parse_type' = "M_MAGIC"
        BY <3>2, <3>7, <2>1, <2>5, <2>7, <2>10 DEF SplitContent
      <4>2. length_header' \in [Offset -> Int] /\ header_remain' \in 0..HeaderLen
        BY <4>1, Sizes
      <4> QED BY <4>1, <4>2, <3>1, <3>4, <3>5, <2>4 DEF TypeOK, ParseType
    <3> QED BY <3>6, <3>7
  <2> QED BY <2>9, <2>10, <1>4
<1> QED BY <1>1, <1>2, <1>3, <1>4 DEF Next, Parse

\* Framed holds on a new connection.
LEMMA FramedInit == Init => Framed
<1> SUFFICES ASSUME Init PROVE Framed
  OBVIOUS
<1>1. TypeOK
  BY Layout, Sizes, StreamAssumption DEF Init, TypeOK, ParseType, Offset
<1>2. RequestsAreMessages
  <2>1. reqs = <<>> /\ Len(reqs) = 0
    BY DEF Init
  <2>2. Understood \in Nat /\ Min2(Len(reqs), Understood) = 0
    BY <2>1, SoundIs, Sizes DEF Min2
  <2>3. \A k \in 1..0 : FALSE
    OBVIOUS
  <2> QED BY <2>1, <2>2, <2>3 DEF RequestsAreMessages
<1>3. Aligned
  BY Sizes DEF Init, Aligned, From
<1> QED BY <1>1, <1>2, <1>3 DEF Framed

\* A recv only adds bytes to parse.
LEMMA RecvStep == ASSUME OnTrack, NEW n \in 1..MaxRecv, Recv(n) PROVE OnTrack'
<1>1. reqs' = reqs /\ pos' = pos
  BY DEF Recv
<1>2. TypeOK'
  BY TypeStep DEF OnTrack, Next
<1> QED BY <1>1, <1>2, SameMessage DEF Recv, OnTrack, Aligned, Covers

\* The bytes of the magic, and the passage to the length header.
LEMMA MagicStep == ASSUME OnTrack, Guided, ParseMagic PROVE OnTrack'
<1> DEFINE remain == Min2(magic_remain, length)
<1>1. /\ remain \in 0..magic_remain /\ remain \in 0..length
      /\ magic_remain - remain > 0 => length - remain = 0
  BY Layout, Sizes DEF OnTrack, Aligned, TypeOK, ParseMagic, Min2
<1>2. /\ pos' = pos + remain /\ length' = length - remain
      /\ magic_remain' = magic_remain - remain /\ reqs' = reqs
      /\ parse_type' = IF magic_remain' > 0 THEN parse_type ELSE "M_HEADER"
      /\ UNCHANGED <<header_remain, rpc_remain, length_header, header_buf,
                     body_buf, reqs>>
  BY DEF ParseMagic, Consume
<1> HIDE DEF remain
<1>5. TypeOK'
  BY TypeStep DEF OnTrack, Next, Parse
<1>6. /\ From \in Nat /\ pos = From - magic_remain /\ header_remain = HeaderLen
      /\ parse_type = "M_MAGIC" /\ (reqs = <<>> \/ magic_remain = 0)
      /\ header_buf = <<>> /\ body_buf = <<>> /\ magic_remain \in Nat
  BY WhereFrom, Place DEF OnTrack, Aligned, ParseMagic
<1>7. pos' = From - magic_remain'
  BY <1>1, <1>2, <1>6
<1>8. RequestsAreMessages' /\ From' = From /\ HdrFrom' = HdrFrom
  BY <1>2, SameMessage DEF OnTrack, Aligned
<1>9. CASE magic_remain' > 0
  BY <1>1, <1>2, <1>5, <1>6, <1>7, <1>8, <1>9 DEF OnTrack, Aligned
<1>10. CASE ~(magic_remain' > 0)
  <2>1. magic_remain' = 0 /\ pos' = HdrFrom - header_remain'
    <3>1. magic_remain' = 0
      BY <1>1, <1>2, <1>6, <1>10
    <3>2. header_remain' = HeaderLen /\ HeaderLen \in Nat /\ From \in Nat /\ pos' = From - 0
      BY <1>2, <1>6, <1>7, <3>1, Sizes
    <3> QED BY <3>1, <3>2 DEF HdrFrom
  <2>2. \A i \in Offset : ~(i < HeaderLen - header_remain')
    BY <1>2, <1>6, Sizes DEF Offset
  <2>3. QED
    BY <1>2, <1>5, <1>6, <1>8, <1>10, <2>1, <2>2, Sizes DEF OnTrack, Aligned
<1>11. QED
  BY <1>9, <1>10

\* The bytes of the length header, and what it decodes to.
LEMMA HeaderStep == ASSUME OnTrack, Guided, SplitHeader PROVE OnTrack'
<1> DEFINE remain == Min2(header_remain, length)
           first == HeaderLen - header_remain
<1>1. /\ remain \in 0..header_remain /\ remain \in 0..length
      /\ remain = header_remain \/ remain = length
      /\ length > 0 /\ remain > 0
  BY Layout, Sizes DEF OnTrack, Aligned, TypeOK, SplitHeader, Min2
<1>2. /\ pos' = pos + remain /\ length' = length - remain
      /\ header_remain' = header_remain - remain
      /\ length_header' =
           [i \in Offset |-> IF i \in first..first+remain-1
                             THEN pos + (i - first) ELSE length_header[i]]
      /\ IF header_remain' > 0
         THEN UNCHANGED <<parse_type, rpc_remain>>
         ELSE /\ parse_type' = "M_RPC_HEADER"
              /\ rpc_remain' \in RPCHeaderLength(length_header')
      /\ UNCHANGED <<magic_remain, header_buf, body_buf, reqs>>
      /\ parse_type = "M_HEADER"
  BY DEF SplitHeader, Consume
<1> HIDE DEF remain
<1>3. /\ From \in Nat /\ pos = From + first /\ first \in 0..HeaderLen
      /\ pos \in Nat /\ header_remain \in 1..HeaderLen
      /\ From < Total /\ TypeOK'
  <2>1. /\ From \in Nat /\ pos = From + HeaderLen - header_remain
        /\ header_remain > 0
    <3>1. From \in Nat /\ HeaderLen \in Nat /\ header_remain \in Nat
      BY WhereFrom, Sizes, Place DEF OnTrack, Aligned
    <3>2. pos = HdrFrom - header_remain /\ header_remain > 0
      BY <1>2 DEF OnTrack, Aligned
    <3>3. QED
      BY <3>1, <3>2 DEF HdrFrom
  <2>2. header_remain \in 1..HeaderLen /\ pos \in Nat /\ pos < Total /\ Total \in Nat
    <3>1. pos \in Int /\ pos < Total /\ Total \in Nat /\ header_remain \in Nat /\ header_remain <= HeaderLen
      BY <1>1, Place DEF OnTrack
    <3> QED BY <2>1, <3>1, Sizes
  <2>3. pos = From + first /\ first \in 0..HeaderLen /\ From < Total
    BY <2>1, <2>2, Sizes
  <2>4. TypeOK'
    BY TypeStep DEF OnTrack, Next, Parse
  <2>5. QED
    BY <2>1, <2>2, <2>3, <2>4
<1>4. /\ length_header' \in [Offset -> Int]
      /\ \A i \in Offset : i < HeaderLen - header_remain' =>
                             length_header'[i] = From + i
  <2>1. length_header' \in [Offset -> Int]
    BY <1>3 DEF TypeOK
  <2>2. ASSUME NEW i \in Offset, i < HeaderLen - header_remain'
        PROVE  length_header'[i] = From + i
    <3>1. i \in Nat /\ i < first + remain
      BY <1>1, <1>2, <1>3, <2>2, Sizes DEF Offset
    <3>2. CASE i < first
      <4>1. length_header[i] = From + i
        BY <1>2, <3>1, <3>2, Sizes DEF OnTrack, Aligned
      <4>2. QED
        BY <1>2, <1>3, <3>1, <3>2, <4>1
    <3>3. CASE ~(i < first)
      BY <1>1, <1>2, <1>3, <3>1, <3>3
    <3>4. QED
      BY <3>2, <3>3
  <2>3. QED
    BY <2>1, <2>2
<1>5. CASE header_remain' > 0
  <2>2. QED
    BY <1>1, <1>2, <1>3, <1>4, <1>5, SameMessage, Sizes
    DEF OnTrack, Aligned, HdrFrom
<1>6. CASE ~(header_remain' > 0)
  <2>1. header_remain' = 0 /\ \A i \in Offset : length_header'[i] = From + i
    BY <1>1, <1>2, <1>3, <1>4, <1>6, Sizes DEF Offset
  <2>2. RPCHeaderLength(length_header') = {CurHdr} /\ CurHdr \in Nat
    BY <1>3, <1>4, <2>1, Decode DEF OnTrack, Aligned
  <2>3. rpc_remain' = CurHdr
    BY <1>2, <1>6, <2>2
  <2>4. pos' = HdrFrom
    BY <1>1, <1>2, <1>3, <2>1, Sizes DEF HdrFrom
  <2>5. Covers(header_buf', HdrFrom', pos')
    BY <1>2, <2>4, SameMessage DEF OnTrack, Aligned, Covers
  <2>6. QED
    BY <1>2, <1>3, <1>6, <2>1, <2>2, <2>3, <2>4, <2>5, SameMessage, Sizes
    DEF OnTrack, Aligned, HdrFrom, BodyFrom
<1>7. QED
  BY <1>5, <1>6

\* The parts of the current message as numbers.
LEMMA Parts ==
  ASSUME TypeOK, RequestsAreMessages, Guided
  PROVE  /\ From \in Nat /\ HdrFrom \in Nat /\ CurHdr \in Nat /\ BodyFrom \in Nat
         /\ From < HdrFrom /\ HdrFrom <= BodyFrom
         /\ BodyFrom <= Total => Cur <= Understood
         /\ Cur <= Understood =>
              /\ Cur \in 1..N /\ Body[Cur] \in Nat
              /\ HdrFrom = HdrAt(Cur) /\ BodyFrom = BodyAt(Cur)
              /\ EndOf(Cur) = BodyFrom + Body[Cur]
<1>1. From \in Nat /\ HeaderLen \in Nat /\ HeaderLen >= 1 /\ Total \in Nat
  BY WhereFrom, Sizes, Layout
<1>2. CASE Cur <= Understood
  <2>1. Cur \in 1..N /\ From = Start[Cur] /\ Cur <= Sound
    BY <1>2, WhereFrom, SoundIs, Sizes
  <2>2. /\ CurHdr = Hdr[Cur] /\ Hdr[Cur] \in Nat /\ Body[Cur] \in Nat
        /\ Sent(Hdr[Cur]) = Hdr[Cur] /\ Sent(Body[Cur]) = Body[Cur]
    BY <1>2, <2>1, SoundIs DEF CurHdr
  <2>3. QED
    BY <1>1, <1>2, <2>1, <2>2 DEF HdrFrom, BodyFrom, HdrAt, BodyAt, EndOf
<1>3. CASE ~(Cur <= Understood)
  <2>1. CurHdr = Total + 1
    BY <1>3 DEF CurHdr
  <2>2. QED
    BY <1>1, <1>3, <2>1 DEF HdrFrom, BodyFrom
<1>4. QED
  BY <1>2, <1>3

\* The bytes of the rpc header.
LEMMA RpcHeaderStep == ASSUME OnTrack, Guided, SplitRpcHeader PROVE OnTrack'
<1> DEFINE remain == Min2(rpc_remain, length)
           buf == Append(header_buf, [at |-> pos, size |-> remain])
<1>1. /\ rpc_remain \in Nat /\ pos = BodyFrom - rpc_remain /\ body_buf = <<>>
      /\ Covers(header_buf, HdrFrom, pos) /\ magic_remain = 0
      /\ parse_type = "M_RPC_HEADER" /\ length > 0
      /\ \A i \in Offset : length_header[i] = From + i
  BY DEF OnTrack, Aligned, TypeOK, SplitRpcHeader
<1>2. /\ remain \in 0..length /\ remain \in 0..rpc_remain /\ remain \in Nat
  BY <1>1, Place DEF OnTrack, Aligned, Min2
<1>3. /\ pos' = pos + remain /\ length' = length - remain /\ header_buf' = buf
      /\ IF rpc_remain - remain > 0
         THEN rpc_remain' = rpc_remain - remain /\ UNCHANGED parse_type
         ELSE /\ rpc_remain' \in RPCBodyLength(length_header)
              /\ parse_type' = "M_RPC_CONTENT"
      /\ UNCHANGED <<magic_remain, header_remain, length_header, body_buf, reqs>>
  BY DEF SplitRpcHeader, Consume
<1> HIDE DEF remain
<1>4. TypeOK' /\ pos' \in Int /\ pos' <= Total /\ pos \in Int /\ Total \in Nat
  <2>1. TypeOK'
    BY TypeStep DEF OnTrack, Next, Parse
  <2> QED BY <2>1, Place, Layout DEF OnTrack, TypeOK
<1>5. header_buf' \in Seq(Slice) /\ Covers(header_buf', HdrFrom, pos')
  <2>1. header_buf \in Seq(Slice) /\ HdrFrom \in Nat /\ pos' = pos + remain
    BY <1>3, Parts DEF OnTrack, TypeOK
  <2> QED BY <1>1, <1>2, <1>3, <1>4, <2>1, CoverAppend
<1>6. /\ RequestsAreMessages' /\ From' = From /\ HdrFrom' = HdrFrom
      /\ BodyFrom' = BodyFrom /\ Cur' = Cur
  BY <1>3, SameMessage DEF OnTrack, Aligned
<1>7. CASE rpc_remain - remain > 0
  <2>1. rpc_remain' \in Nat /\ pos' = BodyFrom - rpc_remain'
    BY SMTT(30), <1>1, <1>2, <1>3, <1>4, <1>7, Parts DEF OnTrack, Aligned
  <2>3. QED
    BY SMTT(30), <1>1, <1>3, <1>4, <1>5, <1>6, <1>7, <2>1 DEF OnTrack, Aligned, Covers
<1>8. CASE ~(rpc_remain - remain > 0)
  <2>1. pos' = BodyFrom
    <3>1. remain = rpc_remain /\ BodyFrom \in Nat
      BY <1>1, <1>2, <1>8, Parts DEF OnTrack, Aligned
    <3>2. QED
      BY <1>1, <1>3, <3>1
  <2>2. Cur <= Understood /\ From < Total
    BY <1>4, <2>1, Parts DEF OnTrack, Aligned
  <2>3. rpc_remain' = Body[Cur] /\ Body[Cur] \in Nat
    BY <1>1, <1>3, <1>8, <2>2, Decode, Parts DEF OnTrack, Aligned, TypeOK
  <2>5. Covers(body_buf', BodyFrom, pos')
    BY <1>1, <1>3, <2>1 DEF Covers
  <2>6. pos' = BodyFrom + Body[Cur] - rpc_remain'
    BY <2>1, <2>3, Parts DEF OnTrack, Aligned
  <2>7. QED
    BY <1>1, <1>3, <1>4, <1>5, <1>6, <1>8, <2>1, <2>2, <2>3, <2>5, <2>6
    DEF OnTrack, Aligned, Understood
<1>9. QED
  BY <1>7, <1>8

\* The bytes of the rpc body, and the request they complete.
LEMMA ContentStep == ASSUME OnTrack, Guided, SplitContent PROVE OnTrack'
<1> DEFINE remain == Min2(rpc_remain, length)
           body == Append(body_buf, [at |-> pos, size |-> remain])
           req == [header |-> header_buf, body |-> body]
<1>1. /\ rpc_remain \in Nat /\ pos = BodyFrom + Body[Cur] - rpc_remain
      /\ Cur <= Understood /\ magic_remain = 0
      /\ Covers(header_buf, HdrFrom, BodyFrom) /\ Covers(body_buf, BodyFrom, pos)
      /\ parse_type = "M_RPC_CONTENT" /\ length > 0
      /\ \A i \in Offset : length_header[i] = From + i
  BY DEF OnTrack, Aligned, TypeOK, SplitContent
<1>2. /\ remain \in 0..length /\ remain \in 0..rpc_remain /\ remain \in Nat
  BY <1>1, Place DEF OnTrack, Aligned, Min2
<1>3. /\ pos' = pos + remain /\ length' = length - remain
      /\ UNCHANGED magic_remain
      /\ IF rpc_remain - remain > 0
         THEN /\ rpc_remain' = rpc_remain - remain
              /\ body_buf' = body
              /\ UNCHANGED <<parse_type, header_remain, length_header,
                             header_buf, reqs>>
         ELSE /\ reqs' = Append(reqs, req)
              /\ header_buf' = <<>>
              /\ body_buf' = <<>>
              /\ length_header' = [i \in Offset |-> -1]
              /\ header_remain' = HeaderLen
              /\ rpc_remain' = 0
              /\ parse_type' = "M_MAGIC"
  BY DEF SplitContent, Consume
<1> HIDE DEF remain
<1>4. TypeOK' /\ pos' \in Int /\ pos' <= Total /\ pos \in Int /\ Total \in Nat
  <2>1. TypeOK'
    BY TypeStep DEF OnTrack, Next, Parse
  <2> QED BY <2>1, Place, Layout DEF OnTrack, TypeOK
<1>5. body \in Seq(Slice) /\ Covers(body, BodyFrom, pos')
  <2>1. body_buf \in Seq(Slice) /\ BodyFrom \in Nat /\ pos' = pos + remain
    BY <1>3, Parts DEF OnTrack, TypeOK
  <2> QED BY <1>1, <1>2, <1>4, <2>1, CoverAppend
<1> HIDE DEF body
<1>6. CASE rpc_remain - remain > 0
  <2>1. /\ RequestsAreMessages' /\ From' = From /\ HdrFrom' = HdrFrom
        /\ BodyFrom' = BodyFrom /\ Cur' = Cur
    BY <1>3, <1>6, SameMessage DEF OnTrack, Aligned
  <2>2. /\ rpc_remain' \in Nat /\ rpc_remain' > 0
        /\ pos' = BodyFrom + Body[Cur] - rpc_remain'
    BY <1>1, <1>2, <1>3, <1>4, <1>6, Parts DEF OnTrack, Aligned
  <2>4. QED
    BY <1>1, <1>3, <1>4, <1>5, <1>6, <2>1, <2>2 DEF OnTrack, Aligned, Understood
<1>7. CASE ~(rpc_remain - remain > 0)
  <2>1. pos' = EndOf(Cur)
    <3>1. remain = rpc_remain
      BY <1>1, <1>2, <1>7
    <3>2. /\ BodyFrom \in Nat /\ Body[Cur] \in Nat
          /\ EndOf(Cur) = BodyFrom + Body[Cur]
      BY <1>1, Parts DEF OnTrack, Aligned
    <3>3. QED
      BY <1>1, <1>3, <3>1, <3>2
  <2>2. req \in [header : Seq(Slice), body : Seq(Slice)]
    BY <1>5 DEF OnTrack, Aligned, TypeOK
  <2>3. /\ reqs' \in Seq([header : Seq(Slice), body : Seq(Slice)])
        /\ Len(reqs') = Cur /\ Cur \in Nat /\ Cur >= 1
        /\ reqs'[Cur] = req /\ reqs' # <<>>
        /\ \A k \in 1..Len(reqs) : reqs'[k] = reqs[k]
        /\ Len(reqs) \in Nat
    <3> DEFINE R == [header : Seq(Slice), body : Seq(Slice)]
    <3>1. reqs \in Seq(R) /\ req \in R /\ reqs' = Append(reqs, req)
      BY <1>3, <1>7, <2>2 DEF OnTrack, Aligned, TypeOK
    <3> HIDE DEF R, req
    <3>2. /\ reqs' \in Seq(R) /\ Len(reqs') = Len(reqs) + 1 /\ Len(reqs) \in Nat
          /\ reqs'[Len(reqs) + 1] = req
          /\ \A k \in 1..Len(reqs) : reqs'[k] = reqs[k]
      BY <3>1
    <3>3. reqs' # <<>>
      BY <3>2
    <3>4. QED
      BY <3>2, <3>3 DEF R, Cur
  <2>4. Covers(req.header, HdrAt(Cur), BodyAt(Cur))
    BY <1>1, Parts DEF OnTrack, Aligned
  <2>5. Covers(req.body, BodyAt(Cur), EndOf(Cur))
    BY <1>1, <1>5, <2>1, Parts DEF OnTrack, Aligned
  <2>6. RequestsAreMessages'
    <3>0. Min2(Len(reqs'), Understood) = Cur /\ Min2(Len(reqs), Understood) = Len(reqs) /\ Understood \in Nat
      BY <1>1, <2>3, SoundIs, Sizes DEF Min2, Cur
    <3>1. ASSUME NEW k \in 1..Cur
          PROVE  /\ Covers(reqs'[k].header, HdrAt(k), BodyAt(k))
                 /\ Covers(reqs'[k].body, BodyAt(k), EndOf(k))
      <4>1. CASE k = Cur
        BY <2>3, <2>4, <2>5, <4>1
      <4>2. CASE k # Cur
        <5>1. k \in 1..Len(reqs)
          BY <2>3, <4>2 DEF Cur
        <5>2. QED
          BY <2>3, <3>0, <5>1 DEF OnTrack, RequestsAreMessages
      <4>3. QED
        BY <4>1, <4>2
    <3>2. QED
      BY <1>1, <2>3, <3>0, <3>1
      DEF RequestsAreMessages, Covers, HdrAt, BodyAt, EndOf, Understood
  <2>7. From' = EndOf(Cur)
    BY <2>3 DEF From, EndOf, BodyAt, HdrAt
  <2>9. pos' = From' - magic_remain'
    BY <1>1, <1>3, <1>4, <2>1, <2>7
  <2>10. QED
    BY <1>1, <1>3, <1>4, <1>7, <2>6, <2>9 DEF OnTrack, Aligned
<1>8. QED
  BY <1>6, <1>7

\* Behind a negative length requests may still appear, but those in front of
\* it stay as they are.
LEMMA LostStep == ASSUME Framed, ~Guided, Next PROVE Framed' /\ ~Guided'
<1>1. TypeOK' /\ TypeOK /\ RequestsAreMessages
  BY TypeStep DEF Framed
<1>2. PICK R : R = [header : Seq(Slice), body : Seq(Slice)]
  OBVIOUS
<1>3. reqs \in Seq(R) /\ reqs' \in Seq(R)
  BY <1>1, <1>2 DEF TypeOK
<1>4. CASE reqs' = reqs
  BY <1>1, <1>4, SameMessage DEF Framed
<1>5. CASE \E q : reqs' = Append(reqs, q)
  <2>1. PICK q : reqs' = Append(reqs, q)
    BY <1>5
  <2>2. /\ Len(reqs) \in Nat /\ Len(reqs') = Len(reqs) + 1
        /\ \A k \in 1..Len(reqs) : reqs'[k] = reqs[k]
    BY <2>1, <1>3
  <2>3. Sound \in Nat /\ Understood \in Nat /\ Understood <= Sound /\ Sound # N
    BY SoundIs, Sizes DEF Guided
  <2>4. Len(reqs) >= Sound
    BY <2>2, <2>3 DEF Guided, Cur
  <2>5. ~(Len(reqs') + 1 <= Sound) /\ ~(Len(reqs') <= Sound)
    BY <2>2, <2>3, <2>4
  <2>6. ~Guided'
    BY <2>3, <2>5 DEF Guided, Cur
  <2>7. /\ Min2(Len(reqs'), Understood) = Understood /\ Min2(Len(reqs), Understood) = Understood
        /\ \A k \in 1..Understood : k \in 1..Len(reqs)
    BY <2>2, <2>3, <2>4 DEF Min2
  <2>8. RequestsAreMessages'
    <3>1. ASSUME NEW k \in 1..Understood
          PROVE  /\ Covers(reqs'[k].header, HdrAt(k), BodyAt(k))
                 /\ Covers(reqs'[k].body, BodyAt(k), EndOf(k))
      <4>1. reqs'[k] = reqs[k] /\ k \in 1..Min2(Len(reqs), Understood)
        BY <2>2, <2>7
      <4> QED BY <4>1, <1>1 DEF RequestsAreMessages
    <3>2. ~(Sound = N \/ InStep')
      BY <2>3, <2>5 DEF InStep
    <3> QED BY <3>1, <3>2, <2>7
        DEF RequestsAreMessages, InStep, Covers, HdrAt, BodyAt, EndOf, Understood
  <2> QED BY <1>1, <2>6, <2>8 DEF Framed
<1>6. reqs' = reqs \/ \E q : reqs' = Append(reqs, q)
  BY DEF Next, Parse, Recv, ParseMagic, SplitHeader, SplitRpcHeader, SplitContent
<1> QED BY <1>4, <1>5, <1>6

\* A step of the parser keeps its place in the stream.
LEMMA FramedStep == Framed /\ [Next]_vars => Framed'
<1> SUFFICES ASSUME Framed, [Next]_vars PROVE Framed'
  OBVIOUS
<1>1. CASE UNCHANGED vars
  BY <1>1, SameMessage
  DEF vars, Framed, Aligned, TypeOK, Covers, HdrFrom, BodyFrom, Cur, From, CurHdr
<1>2. CASE Next /\ Guided
  <2>1. OnTrack
    BY <1>2 DEF Framed, OnTrack
  <2>2. OnTrack'
    BY <2>1, <1>2, RecvStep, MagicStep, HeaderStep, RpcHeaderStep, ContentStep DEF Next, Parse
  <2> QED BY <2>2 DEF Framed, OnTrack
<1>3. CASE Next /\ ~Guided
  BY <1>3, LostStep
<1> QED BY <1>1, <1>2, <1>3

\* The parser never loses its place in the stream, up to a negative length.
THEOREM FramedInvariant == Spec => []Framed
BY FramedInit, FramedStep, PTL DEF Spec

\* For any messages, and however the stream is cut into recvs, the requests
\* are exactly the client's messages, in order, up to a negative length.
THEOREM RequestsCorrect == Spec => []RequestsAreMessages
BY FramedInvariant, PTL DEF Framed

\* The parser's state is well typed, whatever lengths are announced: the
\* position, from which a negative length goes back and perhaps in front of
\* the stream, is never behind what was received, and what is left of a recv
\* stays inside it.
THEOREM FramingTyping == Spec => []TypeOK
<1>1. Init => TypeOK
  BY FramedInit DEF Framed
<1>2. TypeOK /\ [Next]_vars => TypeOK'
  <2>1. TypeOK /\ UNCHANGED vars => TypeOK'
    BY DEF vars, TypeOK
  <2> QED BY <2>1, TypeStep
<1> QED BY <1>1, <1>2, PTL DEF Spec

\* A complete message is held back only if its body is empty and nothing has
\* followed it.
THEOREM Prompt == Spec => []NoneHeldBack
<1>1. Framed => NoneHeldBack
  <2> SUFFICES ASSUME Framed, length = 0, NEW k \in 1..Understood,
                      IF Body[k] > 0 THEN EndOf(k) <= pos ELSE EndOf(k) < pos,
                      ~(Len(reqs) >= k)
               PROVE  FALSE
    BY DEF NoneHeldBack
  <2>1. /\ Cur <= k /\ Cur \in Nat /\ Cur <= Understood /\ k \in 1..N
        /\ k \in Nat
    <3>1. Len(reqs) \in Nat /\ Understood \in 0..N /\ N \in Nat
      BY Layout, Sizes DEF Framed, TypeOK
    <3>2. QED
      BY <3>1 DEF Cur
  <2>0. Guided /\ Aligned /\ TypeOK /\ RequestsAreMessages
    <3>1. Guided
      BY <2>1, SoundIs, Sizes DEF Guided
    <3> QED BY <3>1 DEF Framed
  <2>2. /\ Cur \in 1..N /\ Body[Cur] \in Nat /\ From \in Nat /\ From < HdrFrom
        /\ HdrFrom \in Nat /\ BodyFrom \in Nat /\ HdrFrom <= BodyFrom
        /\ EndOf(Cur) = BodyFrom + Body[Cur]
    BY <2>1, <2>0, Parts
  <2>3. /\ EndOf(k) \in Nat /\ Body[k] \in Nat
        /\ Cur # k => EndOf(Cur) < EndOf(k)
    <3>0. k <= Sound
      BY <2>1, SoundIs, Sizes
    <3>1. /\ EndOf(k) \in Nat /\ Body[k] \in Nat /\ Hdr[k] \in Nat /\ Start[k] \in Nat
          /\ EndOf(k) = Start[k] + HeaderLen + Hdr[k] + Body[k]
          /\ Cur < k => EndOf(Cur) + Gap <= Start[k]
      BY <2>1, <2>2, <3>0, Layout, SoundIs
    <3>2. EndOf(Cur) \in Nat /\ (Cur # k => Cur < k)
      BY <2>1, <2>2
    <3>3. QED
      BY SMTT(30), <3>1, <3>2, Sizes
  <2>4. pos \in Int /\ magic_remain \in Nat /\ header_remain \in Nat /\ rpc_remain \in Int
    BY Place DEF Framed, TypeOK
  <2>5. CASE parse_type = "M_MAGIC"
    BY <2>0, <2>2, <2>3, <2>4, <2>5 DEF Aligned
  <2>6. CASE parse_type = "M_HEADER"
    BY <2>0, <2>2, <2>3, <2>4, <2>6 DEF Aligned
  <2>7. CASE parse_type = "M_RPC_HEADER"
    BY <2>0, <2>2, <2>3, <2>4, <2>7 DEF Aligned
  <2>8. CASE parse_type = "M_RPC_CONTENT"
    BY SMTT(30), <2>0, <2>2, <2>3, <2>4, <2>8 DEF Aligned
  <2>9. QED
    BY <2>5, <2>6, <2>7, <2>8 DEF Framed, TypeOK, ParseType
<1>2. QED
  BY <1>1, FramedInvariant, PTL

(***************************************************************************)
(* FlattenSeq.                                                             *)
(***************************************************************************)
\* F lists what the first i of m sequences make.
Joined(A, m, ss, F) ==
  /\ F \in [0..m -> Seq(A)]
  /\ F[0] = <<>>
  /\ \A i \in 1..m : F[i] = F[i - 1] \o ss[i]

\* FlattenSeq joins the sequences one after the other.
LEMMA FlattenIs ==
  ASSUME NEW A, NEW m \in Nat, NEW ss \in [1..m -> Seq(A)], NEW F, Joined(A, m, ss, F)
  PROVE  FlattenSeq(ss) = F[m]
<1>1. Len(ss) = m /\ ss \in Seq(Seq(A))
  OBVIOUS
<1>2. CASE m = 0
  <2>1. ss = <<>>
    BY <1>1, <1>2
  <2> QED BY <1>1, <1>2, <2>1 DEF FlattenSeq, Joined
<1>3. CASE m # 0
  <2> DEFINE Loop(f) == [i \in 1..m |-> IF i = 1 THEN ss[i] ELSE f[i - 1] \o ss[i]]
             flatten == CHOOSE f : f = Loop(f)
  <2>1. FlattenSeq(ss) = flatten[m]
    BY <1>1, <1>3 DEF FlattenSeq
  <2>2. \A i \in 1..m : i # 1 => i - 1 \in 1..m
    OBVIOUS
  <2>3. PICK e : e = [i \in 1..m |-> F[i]]
    OBVIOUS
  <2>4. \A i \in 1..m : e[i] = F[i]
    BY <2>3
  <2>5. F[1] = ss[1]
    <3>1. 1 \in 1..m /\ 1 - 1 = 0
      BY <1>3
    <3>2. F[1] = <<>> \o ss[1]
      BY <3>1 DEF Joined
    <3>3. ss[1] \in Seq(A)
      BY <3>1
    <3> QED BY <3>2, <3>3
  <2>6. \A i \in 1..m : e[i] = IF i = 1 THEN ss[i] ELSE e[i - 1] \o ss[i]
    BY <2>2, <2>4, <2>5 DEF Joined
  <2>7. e = Loop(e)
    BY <2>3, <2>6
  <2>8. flatten = Loop(flatten)
    BY <2>7
  <2> HIDE DEF flatten
  <2>9. PICK s : s = flatten /\ s = Loop(s)
    BY <2>8
  <2>10. s = flatten
    BY <2>9
  <2>11. \A i \in 1..m : s[i] = IF i = 1 THEN ss[i] ELSE s[i - 1] \o ss[i]
    BY <2>9
  <2> HIDE DEF Loop
  <2>12. PICK Q : Q = {i \in 0..m : i = 0 \/ s[i] = F[i]}
    OBVIOUS
  <2>13. 0 \in Q
    BY <2>12
  <2>14. ASSUME NEW i \in 0..m, i \in Q, i < m
         PROVE  i + 1 \in Q
    <3>1. i + 1 \in 1..m /\ i + 1 \in 0..m /\ (i + 1) - 1 = i /\ (i + 1 = 1 <=> i = 0)
      BY <2>14
    <3>2. s[i + 1] = IF i + 1 = 1 THEN ss[i + 1] ELSE s[i] \o ss[i + 1]
      BY <2>11, <3>1
    <3>3. F[i + 1] = F[i] \o ss[i + 1]
      BY <3>1 DEF Joined
    <3>4. CASE i = 0
      BY <3>1, <3>2, <3>4, <2>5, <2>12
    <3>5. CASE i # 0
      BY <3>1, <3>2, <3>3, <3>5, <2>12, <2>14
    <3> QED BY <3>4, <3>5
  <2>15. \A i \in 0..m : i \in Q
    BY <2>13, <2>14, UpTo
  <2>16. s[m] = F[m]
    <3>1. m \in 0..m
      OBVIOUS
    <3> QED BY <3>1, <2>12, <2>15, <1>3
  <2> QED BY <2>1, <2>10, <2>16
<1> QED BY <1>2, <1>3

\* One more sequence.
LEMMA JoinedMore ==
  ASSUME NEW A, NEW m \in Nat, NEW ss \in [1..m+1 -> Seq(A)], NEW F, Joined(A, m, ss, F),
         NEW E, E = [i \in 0..m+1 |-> IF i = m + 1 THEN F[m] \o ss[m + 1] ELSE F[i]]
  PROVE  Joined(A, m + 1, ss, E)
<1>1. \A i \in 0..m+1 : i # m + 1 => i \in 0..m
  OBVIOUS
<1>2. F[m] \in Seq(A) /\ ss[m + 1] \in Seq(A) /\ m + 1 \in 0..m+1 /\ 0 \in 0..m
  BY DEF Joined
<1>3. PICK z : z = F[m] \o ss[m + 1]
  OBVIOUS
<1>4. z \in Seq(A)
  BY <1>2, <1>3
<1>0. E = [i \in 0..m+1 |-> IF i = m + 1 THEN z ELSE F[i]]
  BY <1>3
<1>5. /\ \A i \in 0..m : E[i] = F[i]
      /\ E[m + 1] = z
  <2>1. \A i \in 0..m : i \in 0..m+1 /\ i # m + 1
    OBVIOUS
  <2> QED BY <2>1, <1>0, <1>2
<1>6. E \in [0..m+1 -> Seq(A)]
  BY <1>0, <1>1, <1>4 DEF Joined
<1>7. E[0] = <<>>
  BY <1>2, <1>5 DEF Joined
<1>8. ASSUME NEW i \in 1..m+1
      PROVE  E[i] = E[i - 1] \o ss[i]
  <2>1. i - 1 \in 0..m
    BY <1>8
  <2>2. CASE i = m + 1
    <3>1. i - 1 = m
      BY <2>2
    <3> QED BY <2>1, <2>2, <3>1, <1>3, <1>5
  <2>3. CASE i # m + 1
    <3>1. i \in 0..m /\ i \in 1..m
      BY <2>3, <1>8
    <3> QED BY <2>1, <3>1, <1>5 DEF Joined
  <2> QED BY <2>2, <2>3
<1> QED BY <1>6, <1>7, <1>8 DEF Joined

\* There is always such a list.
LEMMA JoinedExists ==
  ASSUME NEW A, NEW m \in Nat, NEW ss \in [1..m -> Seq(A)]
  PROVE  \E F : Joined(A, m, ss, F)
<1>1. PICK Q : Q = {k \in 0..m : \E F : Joined(A, k, [i \in 1..k |-> ss[i]], F)}
  OBVIOUS
<1>2. 0 \in Q
  <2>1. PICK F : F = [i \in 0..0 |-> <<>>]
    OBVIOUS
  <2>2. <<>> \in Seq(A)
    OBVIOUS
  <2>3. F \in [0..0 -> Seq(A)] /\ F[0] = <<>>
    BY <2>1, <2>2
  <2>4. Joined(A, 0, [i \in 1..0 |-> ss[i]], F)
    BY <2>3 DEF Joined
  <2>5. 0 \in 0..m
    OBVIOUS
  <2> QED BY <2>4, <2>5, <1>1
<1>3. ASSUME NEW k \in 0..m, k \in Q, k < m
      PROVE  k + 1 \in Q
  <2>1. PICK F : Joined(A, k, [i \in 1..k |-> ss[i]], F)
    BY <1>1, <1>3
  <2>2. PICK tt : tt = [i \in 1..k+1 |-> ss[i]]
    OBVIOUS
  <2>3. k \in Nat /\ k + 1 \in 0..m /\ \A i \in 1..k+1 : i \in 1..m
    BY <1>3
  <2>4. tt \in [1..k+1 -> Seq(A)]
    BY <2>2, <2>3
  <2>5. \A i \in 1..k : [j \in 1..k |-> ss[j]][i] = tt[i]
    BY <2>2, <2>3
  <2>6. Joined(A, k, tt, F)
    BY <2>1, <2>5 DEF Joined
  <2>7. \E E : Joined(A, k + 1, tt, E)
    BY <2>3, <2>4, <2>6, JoinedMore
  <2> QED BY <2>2, <2>3, <2>7, <1>1
<1>4. \A i \in 0..m : i \in Q
  BY <1>2, <1>3, UpTo
<1>5. m \in 0..m /\ ss = [i \in 1..m |-> ss[i]]
  OBVIOUS
<1> QED BY <1>1, <1>4, <1>5

\* A sequence of sequences and one more.
LEMMA FlattenMore ==
  ASSUME NEW A, NEW m \in Nat, NEW ss \in [1..m+1 -> Seq(A)],
         NEW tt, tt = [i \in 1..m |-> ss[i]]
  PROVE  /\ FlattenSeq(tt) \in Seq(A)
         /\ FlattenSeq(ss) = FlattenSeq(tt) \o ss[m + 1]
<1>1. tt \in [1..m -> Seq(A)] /\ \A i \in 1..m : tt[i] = ss[i]
  OBVIOUS
<1>2. PICK F : Joined(A, m, tt, F)
  BY <1>1, JoinedExists
<1>3. FlattenSeq(tt) = F[m]
  BY <1>1, <1>2, FlattenIs
<1>4. Joined(A, m, ss, F)
  BY <1>1, <1>2 DEF Joined
<1>5. PICK E : E = [i \in 0..m+1 |-> IF i = m + 1 THEN F[m] \o ss[m + 1] ELSE F[i]]
  OBVIOUS
<1>6. Joined(A, m + 1, ss, E)
  BY <1>4, <1>5, JoinedMore
<1>7. FlattenSeq(ss) = E[m + 1]
  <2>1. m + 1 \in Nat
    OBVIOUS
  <2> QED BY <2>1, <1>6, FlattenIs
<1>8. E[m + 1] = F[m] \o ss[m + 1]
  <2>1. m + 1 \in 1..m+1 /\ (m + 1) - 1 = m /\ m \in 0..m+1 /\ m # m + 1
    OBVIOUS
  <2>2. E[m + 1] = E[m] \o ss[m + 1]
    BY <2>1, <1>6 DEF Joined
  <2>3. E[m] = F[m]
    BY <2>1, <1>5
  <2> QED BY <2>2, <2>3
<1>9. F[m] \in Seq(A)
  BY <1>2 DEF Joined
<1> QED BY <1>3, <1>7, <1>8, <1>9

(***************************************************************************)
(* The loop of _InternalParse.                                             *)
(***************************************************************************)
\* The bytes of turn k of t.
Turn(b, t, k) == SubSeq(b, WireSize * (k - 1) + 1, IF k < t THEN WireSize * k ELSE Len(b))

\* Turn k of the loop, with the message msg: nothing behind a field that ends it.
ParseTurn(known, b, t, k, msg) ==
  IF \E j \in 1..k-1 : EndsParse(known, ReadField(Turn(b, t, j))) THEN msg
  ELSE ParseField(known, msg, Turn(b, t, k))

\* e lists the message after each turn.
Parsed(known, b, t, e) ==
  /\ e = [k \in 0..t |-> e[k]]
  /\ e[0] = New(known)
  /\ \A k \in 1..t : e[k] = ParseTurn(known, b, t, k, e[k - 1])

\* The recursive function of InternalParse is that list.
LEMMA ParseIs ==
  ASSUME NEW known, NEW b, NEW t \in Nat, t = (Len(b) + WireSize - 1) \div WireSize,
         NEW e, Parsed(known, b, t, e)
  PROVE  InternalParse(known, b) = e[t]
<1> DEFINE Loop(f) ==
      [k \in 0..t |->
        IF k = 0 THEN New(known)
        ELSE IF \E j \in 1..k-1 : EndsParse(known, ReadField(Turn(b, t, j))) THEN f[k - 1]
        ELSE ParseField(known, f[k - 1], Turn(b, t, k))]
           after == CHOOSE f : f = Loop(f)
<1>1. InternalParse(known, b) = after[t]
  BY DEF InternalParse, Turn
<1>2. \A k \in 0..t : k # 0 => k \in 1..t
  OBVIOUS
<1>3. \A k \in 0..t : e[k] = IF k = 0 THEN New(known) ELSE ParseTurn(known, b, t, k, e[k - 1])
  BY <1>2 DEF Parsed
<1>4. e = [k \in 0..t |-> e[k]]
  BY DEF Parsed
<1>5. e = [k \in 0..t |-> IF k = 0 THEN New(known) ELSE ParseTurn(known, b, t, k, e[k - 1])]
  BY <1>3, <1>4
<1>6. e = Loop(e)
  BY <1>5 DEF ParseTurn
<1>7. after = Loop(after)
  BY <1>6
<1> HIDE DEF after
<1>8. PICK s : s = after /\ s = Loop(s)
  BY <1>7
<1>9. s = after
  BY <1>8
<1>10. \A k \in 0..t : s[k] = IF k = 0 THEN New(known) ELSE ParseTurn(known, b, t, k, s[k - 1])
  BY <1>8 DEF ParseTurn
<1> HIDE DEF Loop
<1>11. PICK Q : Q = {k \in 0..t : s[k] = e[k]}
  OBVIOUS
<1>12. 0 \in Q
  BY <1>3, <1>10, <1>11
<1>13. ASSUME NEW k \in 0..t, k \in Q, k < t
       PROVE  k + 1 \in Q
  <2>1. k + 1 \in 0..t /\ k + 1 # 0 /\ (k + 1) - 1 = k
    BY <1>13
  <2>2. s[k] = e[k]
    BY <1>11, <1>13
  <2>3. s[k + 1] = ParseTurn(known, b, t, k + 1, s[k])
    BY <1>10, <2>1
  <2>4. e[k + 1] = ParseTurn(known, b, t, k + 1, e[k])
    BY <1>3, <2>1
  <2> QED BY <2>1, <2>2, <2>3, <2>4, <1>11
<1>14. \A k \in 0..t : k \in Q
  BY <1>12, <1>13, UpTo
<1>15. t \in 0..t
  OBVIOUS
<1>16. s[t] = e[t]
  BY <1>11, <1>14, <1>15
<1> QED BY <1>1, <1>9, <1>16

\* STRING; that its members below are strings has to be said to the prover.
Text == STRING \cup {Absent, Torn, "varint", "bytes", "RESPONSE", "hello", "world"}

\* A field on the wire, and a byte of one.
WireField == [num : Nat, wire : Text, v : Text]
Byte == [of : WireField, i : {0, 1}]

\* The two bytes of each field.
LEMMA EncodeIs ==
  ASSUME NEW fs \in Seq(WireField)
  PROVE  /\ Encode(fs) \in Seq(Byte) /\ Len(Encode(fs)) = 2 * Len(fs)
         /\ \A j \in 1..Len(fs) : /\ Encode(fs)[2 * j - 1].of = fs[j]
                                  /\ Encode(fs)[2 * j].of = fs[j]
<1>1. PICK m : m = Len(fs)
  OBVIOUS
<1>2. m \in Nat /\ \A j \in 1..m : fs[j] \in WireField
  BY <1>1
<1>3. PICK e : e = Encode(fs)
  OBVIOUS
<1>4. e = [i \in 1..2 * m |-> [of |-> fs[(i - 1) \div 2 + 1], i |-> (i - 1) % 2]]
  BY <1>1, <1>3 DEF Encode, WireSize
<1>5. \A i \in 1..2 * m : (i - 1) \div 2 + 1 \in 1..m /\ (i - 1) % 2 \in {0, 1}
  BY <1>2
<1>6. \A i \in 1..2 * m : [of |-> fs[(i - 1) \div 2 + 1], i |-> (i - 1) % 2] \in Byte
  BY <1>2, <1>5 DEF Byte
<1>7. e \in Seq(Byte) /\ Len(e) = 2 * m
  BY <1>2, <1>4, <1>6
<1>8. \A j \in 1..m : /\ 2 * j - 1 \in 1..2 * m /\ ((2 * j - 1) - 1) \div 2 + 1 = j
                      /\ 2 * j \in 1..2 * m /\ (2 * j - 1) \div 2 + 1 = j
  BY <1>2
<1>9. \A i \in 1..2 * m : e[i].of = fs[(i - 1) \div 2 + 1]
  BY <1>4
<1>10. \A j \in 1..m : e[2 * j - 1].of = fs[j] /\ e[2 * j].of = fs[j]
  BY <1>8, <1>9
<1> QED BY <1>1, <1>3, <1>7, <1>10

\* A turn of the loop with the whole of a field, and with its tag only.
Take(known, msg, f) ==
  IF Sets(known, f) THEN Set(msg, f.num, ValueOf(f))
  ELSE IF EndsParse(known, f) THEN msg ELSE [msg EXCEPT !.unknown = Append(@, f)]
Cut(known, msg, f) ==
  IF Accepts(known, f) /\ f.wire # "varint" THEN Set(msg, f.num, Torn) ELSE msg

\* What the loop reads of a field.
LEMMA TakeTurn ==
  ASSUME NEW known, NEW msg, NEW w \in Seq(Byte), NEW f \in WireField, w[1].of = f,
         Len(w) = 1 \/ (Len(w) = 2 /\ w[2].of = f)
  PROVE  /\ ParseField(known, msg, w) =
              IF Len(w) = 2 THEN Take(known, msg, f) ELSE Cut(known, msg, f)
         /\ Len(w) = 2 => ReadField(w) = f
<1>1. CASE Len(w) = 2 /\ w[2].of = f
  <2>1. \A i \in 2..Len(w) : w[i].of = f
    <3>1. \A i \in 2..2 : i = 2
      OBVIOUS
    <3> QED BY <3>1, <1>1
  <2>2. ~(Len(w) < 2)
    BY <1>1
  <2>3. [f EXCEPT !.v = f.v] = f
    BY DEF WireField
  <2>4. ReadField(w) = f
    BY <1>1, <2>1, <2>3 DEF ReadField, WireSize
  <2> QED BY <1>1, <2>2, <2>4 DEF ParseField, Take, WireSize
<1>2. CASE Len(w) = 1
  <2>1. Len(w) < 2 /\ Len(w) # 2
    BY <1>2
  <2>2. PICK g : g = ReadField(w)
    OBVIOUS
  <2>3. g = [f EXCEPT !.v = Torn]
    BY <2>1, <2>2 DEF ReadField, WireSize
  <2>4. g.num = f.num /\ g.wire = f.wire /\ g.v = Torn
    BY <2>3 DEF WireField
  <2>5. Torn # Malformed
    BY DEF Torn, Malformed
  <2>6. (Sets(known, g) <=> Accepts(known, f)) /\ ValueOf(g) = Torn
    BY <2>4, <2>5 DEF Sets, Accepts, ValueOf
  <2> QED BY <2>1, <2>2, <2>4, <2>6 DEF ParseField, Cut, WireSize
<1> QED BY <1>1, <1>2

\* b is the beginning, n bytes long, of the encoding of fs.
Beginning(b, n, fs) ==
  /\ b \in Seq(Byte) /\ Len(b) = n
  /\ fs \in Seq(WireField) /\ n <= 2 * Len(fs)
  /\ \A i \in 1..n : b[i] = Encode(fs)[i]

\* Turn k has the bytes of field k, all of them or its tag only.
LEMMA TurnIs ==
  ASSUME NEW b, NEW n \in Nat, NEW fs, Beginning(b, n, fs),
         NEW t \in Nat, t = (n + WireSize - 1) \div WireSize, NEW k \in 1..t
  PROVE  /\ k \in 1..Len(fs) /\ fs[k] \in WireField
         /\ Turn(b, t, k) \in Seq(Byte) /\ Turn(b, t, k)[1].of = fs[k]
         /\ k <= n \div 2 => Len(Turn(b, t, k)) = 2 /\ Turn(b, t, k)[2].of = fs[k]
         /\ ~(k <= n \div 2) => Len(Turn(b, t, k)) = 1
<1>1. PICK m : m = Len(fs)
  OBVIOUS
<1>2. /\ b \in Seq(Byte) /\ Len(b) = n /\ fs \in Seq(WireField) /\ m \in Nat /\ n <= 2 * m
      /\ \A i \in 1..m : fs[i] \in WireField
      /\ \A i \in 1..n : b[i] = Encode(fs)[i]
  BY <1>1 DEF Beginning
<1>3. t = (n + 1) \div 2
  BY DEF WireSize
<1>4. k \in 1..m /\ 2 * k - 1 \in 1..n /\ 2 * (k - 1) + 1 = 2 * k - 1
  BY <1>2, <1>3
<1>5. Encode(fs)[2 * k - 1].of = fs[k] /\ Encode(fs)[2 * k].of = fs[k]
  BY <1>1, <1>2, <1>4, EncodeIs
<1>6. b[2 * k - 1].of = fs[k] /\ fs[k] \in WireField
  BY <1>2, <1>4, <1>5
<1>7. PICK last : last = IF k < t THEN 2 * k ELSE n
  OBVIOUS
<1>8. PICK w : w = SubSeq(b, 2 * k - 1, last)
  OBVIOUS
<1>9. Turn(b, t, k) = w
  BY <1>2, <1>4, <1>7, <1>8 DEF Turn, WireSize
<1>10. CASE k <= n \div 2
  <2>1. last = 2 * k /\ 2 * k \in 1..n /\ 2 * k - 1 \in 1..n
    BY <1>3, <1>7, <1>10
  <2>2. w \in Seq(Byte) /\ Len(w) = 2 /\ w[1] = b[2 * k - 1] /\ w[2] = b[2 * k]
    <3>0. PICK p : p = 2 * k - 1
      OBVIOUS
    <3>4. p \in 1..n /\ p + 1 \in 1..n /\ last = p + 1 /\ w = SubSeq(b, p, p + 1)
      BY <3>0, <2>1, <1>8
    <3>1. /\ w \in Seq(Byte) /\ Len(w) = 2
      BY <3>4, <1>2
    <3>5. \A i \in 1..2 : w[i] = b[p + i - 1]
      BY <3>4, <1>2
    <3>2. \A i \in 1..2 : w[i] = b[(2 * k - 1) + i - 1]
      BY <3>0, <3>5
    <3>3. (2 * k - 1) + 1 - 1 = 2 * k - 1 /\ (2 * k - 1) + 2 - 1 = 2 * k
      OBVIOUS
    <3> QED BY <3>1, <3>2, <3>3
  <2>3. b[2 * k].of = fs[k]
    BY <2>1, <1>2, <1>5
  <2> QED BY <2>2, <2>3, <1>1, <1>4, <1>6, <1>9, <1>10
<1>11. CASE ~(k <= n \div 2)
  <2>1. last = n /\ n = 2 * k - 1
    BY <1>3, <1>4, <1>7, <1>11
  <2>2. w \in Seq(Byte) /\ Len(w) = 1 /\ w[1] = b[2 * k - 1]
    <3>1. 2 * k - 1 \in 1..n
      BY <1>4
    <3>2. /\ w \in Seq(Byte) /\ Len(w) = 1
      BY <2>1, <3>1, <1>2, <1>8
    <3>3. \A i \in 1..1 : w[i] = b[(2 * k - 1) + i - 1]
      BY <2>1, <3>1, <1>2, <1>8
    <3>4. (2 * k - 1) + 1 - 1 = 2 * k - 1
      OBVIOUS
    <3> QED BY <3>2, <3>3, <3>4
  <2> QED BY <2>2, <1>1, <1>4, <1>6, <1>9, <1>11
<1> QED BY <1>10, <1>11

\* A field before field k ends the loop.
Ended(known, fs, k) == \E j \in 1..k-1 : EndsParse(known, fs[j])

\* Turn k reads field k, unless a field before it has ended the loop.
LEMMA BeginningTurn ==
  ASSUME NEW b, NEW n \in Nat, NEW fs, Beginning(b, n, fs), NEW known, NEW msg,
         NEW t \in Nat, t = (n + WireSize - 1) \div WireSize, NEW k \in 1..t
  PROVE  ParseTurn(known, b, t, k, msg) =
           IF Ended(known, fs, k) THEN msg
           ELSE IF k <= n \div 2 THEN Take(known, msg, fs[k]) ELSE Cut(known, msg, fs[k])
<1>1. ASSUME NEW j \in 1..k-1 PROVE ReadField(Turn(b, t, j)) = fs[j]
  <2>1. j \in 1..t /\ j <= n \div 2
    BY DEF WireSize
  <2>2. PICK w : w = Turn(b, t, j)
    OBVIOUS
  <2>3. w \in Seq(Byte) /\ w[1].of = fs[j] /\ Len(w) = 2 /\ w[2].of = fs[j] /\ fs[j] \in WireField
    BY <2>1, <2>2, TurnIs
  <2> QED BY <2>2, <2>3, TakeTurn
<1>2. PICK w : w = Turn(b, t, k)
  OBVIOUS
<1>3. /\ w \in Seq(Byte) /\ w[1].of = fs[k] /\ fs[k] \in WireField
      /\ k <= n \div 2 => Len(w) = 2 /\ w[2].of = fs[k]
      /\ ~(k <= n \div 2) => Len(w) = 1
  BY <1>2, TurnIs
<1>4. ParseField(known, msg, w) =
        IF k <= n \div 2 THEN Take(known, msg, fs[k]) ELSE Cut(known, msg, fs[k])
  <2>1. CASE k <= n \div 2
    BY <2>1, <1>3, TakeTurn
  <2>2. CASE ~(k <= n \div 2)
    <3>1. Len(w) = 1 /\ Len(w) # 2
      BY <2>2, <1>3
    <3> QED BY <2>2, <3>1, <1>3, TakeTurn
  <2> QED BY <2>1, <2>2
<1> QED BY <1>1, <1>2, <1>4 DEF ParseTurn, Ended

(***************************************************************************)
(* The rpc header that arrives.                                            *)
(***************************************************************************)
\* Where field num is among fields, and what the parser does not know of f.
Has(fields, num) == {i \in DOMAIN fields : fields[i].num = num /\ Sets(RpcHeader, fields[i])}
Other(f) == IF Accepts(RpcHeader, f) \/ EndsParse(RpcHeader, f) THEN <<>> ELSE <<f>>

\* The message that fields make when all of them are whole.
Whole(fields) ==
  [val |-> [n \in DOMAIN RpcHeader |-> LastOf(fields, n)],
   unknown |-> FlattenSeq([i \in DOMAIN fields |-> Other(fields[i])])]

\* A set of numbers up to m has a greatest one.
LEMMA Greatest ==
  ASSUME NEW m \in Nat, NEW T \in SUBSET (1..m), T # {}
  PROVE  \E x \in T : \A y \in T : y <= x
<1>1. PICK Q : Q = {k \in 0..m : \A U \in SUBSET (1..k) : U # {} => \E x \in U : \A y \in U : y <= x}
  OBVIOUS
<1>2. 0 \in Q
  <2>1. \A i \in 1..0 : FALSE
    OBVIOUS
  <2>2. \A U \in SUBSET (1..0) : U = {}
    BY <2>1
  <2>3. 0 \in 0..m
    OBVIOUS
  <2> QED BY <2>2, <2>3, <1>1
<1>3. ASSUME NEW k \in 0..m, k \in Q, k < m
      PROVE  k + 1 \in Q
  <2>1. k + 1 \in 0..m /\ k \in Nat
    BY <1>3
  <2>2. ASSUME NEW U \in SUBSET (1..k+1), U # {}
        PROVE  \E x \in U : \A y \in U : y <= x
    <3>1. CASE k + 1 \in U
      <4>1. \A y \in U : y <= k + 1
        BY <2>1
      <4> QED BY <3>1, <4>1
    <3>2. CASE k + 1 \notin U
      <4>1. \A y \in U : y \in 1..k
        BY <2>1, <3>2
      <4>2. U \in SUBSET (1..k)
        BY <4>1
      <4> QED BY <4>2, <2>2, <1>1, <1>3
    <3> QED BY <3>1, <3>2
  <2> QED BY <2>1, <2>2, <1>1
<1>4. \A i \in 0..m : i \in Q
  BY <1>2, <1>3, UpTo
<1>5. m \in 0..m
  OBVIOUS
<1> QED BY <1>1, <1>4, <1>5

\* The last value of a field.
LEMMA LastIs ==
  ASSUME NEW fields \in Seq(WireField), NEW num
  PROVE  /\ Has(fields, num) = {} => LastOf(fields, num) = Absent
         /\ Has(fields, num) # {} =>
              \E x \in Has(fields, num) : /\ \A y \in Has(fields, num) : y <= x
                                          /\ LastOf(fields, num) = ValueOf(fields[x])
         /\ \A x \in Has(fields, num) :
              (\A y \in Has(fields, num) : y <= x) => LastOf(fields, num) = ValueOf(fields[x])
<1>1. PICK T : T = Has(fields, num)
  OBVIOUS
<1>2. PICK m : m = Len(fields)
  OBVIOUS
<1>3. m \in Nat /\ T \in SUBSET (1..m) /\ \A x \in T : x \in Int
  BY <1>1, <1>2 DEF Has
<1>4. LastOf(fields, num) = IF T = {} THEN Absent ELSE ValueOf(fields[CHOOSE i \in T : \A j \in T : j <= i])
  BY <1>1 DEF LastOf, Has
<1>5. ASSUME NEW x \in T, \A y \in T : y <= x
      PROVE  LastOf(fields, num) = ValueOf(fields[x])
  <2>1. PICK c : c = CHOOSE i \in T : \A j \in T : j <= i
    OBVIOUS
  <2>2. c \in T /\ \A j \in T : j <= c
    BY <1>5, <2>1
  <2>3. c = x
    BY <1>3, <1>5, <2>2
  <2> QED BY <1>4, <2>1, <2>3
<1>6. T # {} => \E x \in T : \A y \in T : y <= x
  BY <1>3, Greatest
<1> QED BY <1>1, <1>4, <1>5, <1>6

\* One more field.
LEMMA LastMore ==
  ASSUME NEW a \in Seq(WireField), NEW f \in WireField, NEW num
  PROVE  /\ f.num = num /\ Sets(RpcHeader, f) => LastOf(Append(a, f), num) = ValueOf(f)
         /\ ~(f.num = num /\ Sets(RpcHeader, f)) => LastOf(Append(a, f), num) = LastOf(a, num)
<1>0. SUFFICES ASSUME NEW c, c = Append(a, f)
               PROVE  /\ f.num = num /\ Sets(RpcHeader, f) => LastOf(c, num) = ValueOf(f)
                      /\ ~(f.num = num /\ Sets(RpcHeader, f)) => LastOf(c, num) = LastOf(a, num)
  OBVIOUS
<1>1. PICK m : m = Len(a)
  OBVIOUS
<1>2. /\ m \in Nat /\ c \in Seq(WireField) /\ Len(c) = m + 1 /\ c[m + 1] = f
      /\ \A i \in 1..m : c[i] = a[i]
  BY <1>0, <1>1
<1>3. \A i \in 1..m+1 : i = m + 1 \/ i \in 1..m
  BY <1>2
<1>4. \A i \in Has(a, num) : i \in 1..m /\ i \in Has(c, num)
  BY <1>1, <1>2 DEF Has
<1>5. CASE f.num = num /\ Sets(RpcHeader, f)
  <2>1. m + 1 \in Has(c, num)
    BY <1>2, <1>5 DEF Has
  <2>2. \A y \in Has(c, num) : y <= m + 1
    BY <1>2 DEF Has
  <2>3. LastOf(c, num) = ValueOf(c[m + 1])
    BY <2>1, <2>2, <1>2, LastIs
  <2> QED BY <2>3, <1>2, <1>5
<1>6. CASE ~(f.num = num /\ Sets(RpcHeader, f))
  <2>1. Has(c, num) = Has(a, num)
    <3>1. \A i \in Has(c, num) : i \in Has(a, num)
      BY <1>1, <1>2, <1>3, <1>6 DEF Has
    <3> QED BY <3>1, <1>4
  <2>2. CASE Has(a, num) = {}
    BY <2>1, <2>2, <1>2, <1>6, LastIs
  <2>3. CASE Has(a, num) # {}
    <3>1. PICK x \in Has(a, num) : (\A y \in Has(a, num) : y <= x) /\ LastOf(a, num) = ValueOf(a[x])
      BY <2>3, LastIs
    <3>3. x \in Has(c, num) /\ \A y \in Has(c, num) : y <= x
      BY <3>1, <2>1
    <3>2. LastOf(c, num) = ValueOf(c[x])
      BY <3>3, <1>2, LastIs
    <3> QED BY <3>1, <3>2, <1>2, <1>4, <1>6
  <2> QED BY <2>2, <2>3
<1> QED BY <1>0, <1>5, <1>6

\* The type of a message in memory.
Message == [val : [1..3 -> Text], unknown : Seq(WireField)]

\* The fields that RpcHeader knows.
LEMMA Known ==
  /\ DOMAIN RpcHeader = 1..3 /\ RpcHeader[1] = "varint" /\ RpcHeader[2] = "bytes" /\ RpcHeader[3] = "bytes"
  /\ \A f \in WireField : Accepts(RpcHeader, f) <=> f.num \in 1..3 /\ f.wire = RpcHeader[f.num]
  /\ \A f \in WireField : Sets(RpcHeader, f) => Accepts(RpcHeader, f) /\ f.num \in 1..3
  /\ \A f \in WireField : Accepts(RpcHeader, f) /\ ~Sets(RpcHeader, f) => EndsParse(RpcHeader, f)
<1>1. DOMAIN RpcHeader = 1..3 /\ RpcHeader[1] = "varint" /\ RpcHeader[2] = "bytes" /\ RpcHeader[3] = "bytes"
  BY DEF RpcHeader
<1>2. \A f \in WireField : Accepts(RpcHeader, f) <=> f.num \in 1..3 /\ f.wire = RpcHeader[f.num]
  BY <1>1 DEF Accepts
<1>3. \A f \in WireField : Sets(RpcHeader, f) => Accepts(RpcHeader, f)
  BY DEF Sets
<1>4. \A f \in WireField : Accepts(RpcHeader, f) /\ ~Sets(RpcHeader, f) => EndsParse(RpcHeader, f)
  BY DEF Sets, EndsParse
<1> QED BY <1>1, <1>2, <1>3, <1>4

\* What no field makes, and what one more makes of a message.
LEMMA WholeMore ==
  /\ Whole(<<>>) = New(RpcHeader)
  /\ \A a \in Seq(WireField) : Whole(a) \in Message
  /\ \A a \in Seq(WireField) : \A f \in WireField : Whole(Append(a, f)) = Take(RpcHeader, Whole(a), f)
<1>1. Whole(<<>>) = New(RpcHeader)
  <2>1. \A n : LastOf(<<>>, n) = Absent
    BY DEF LastOf
  <2>2. DOMAIN <<>> = {} /\ FlattenSeq([i \in {} |-> Other(<<>>[i])]) = <<>>
    <3>1. [i \in {} |-> Other(<<>>[i])] = <<>>
      OBVIOUS
    <3>2. Len(<<>>) = 0
      OBVIOUS
    <3> QED BY <3>1, <3>2 DEF FlattenSeq
  <2> QED BY <2>1, <2>2 DEF Whole, New
<1>2. ASSUME NEW a \in Seq(WireField)
      PROVE  /\ LastOf(a, 1) \in Text /\ LastOf(a, 2) \in Text /\ LastOf(a, 3) \in Text
             /\ FlattenSeq([i \in DOMAIN a |-> Other(a[i])]) \in Seq(WireField)
  <2>1. ASSUME NEW n PROVE LastOf(a, n) \in Text
    <3>1. \A x \in Has(a, n) : ValueOf(a[x]) \in Text
      <4>1. \A x \in DOMAIN a : a[x] \in WireField
        OBVIOUS
      <4>2. \A x \in Has(a, n) : x \in DOMAIN a
        BY DEF Has
      <4>3. Torn \in Text /\ \A f \in WireField : f.v \in Text
        BY DEF Text, WireField
      <4> QED BY <4>1, <4>2, <4>3 DEF ValueOf
    <3>2. Absent \in Text
      BY DEF Text
    <3> QED BY <3>1, <3>2, LastIs
  <2>2. FlattenSeq([i \in DOMAIN a |-> Other(a[i])]) \in Seq(WireField)
    <3>1. PICK m : m = Len(a)
      OBVIOUS
    <3>2. m \in Nat /\ DOMAIN a = 1..m /\ \A i \in 1..m : a[i] \in WireField
      BY <3>1
    <3>3. \A f \in WireField : Other(f) \in Seq(WireField)
      BY DEF Other
    <3>4. PICK ss : ss = [i \in 1..m |-> Other(a[i])]
      OBVIOUS
    <3>5. ss \in [1..m -> Seq(WireField)]
      BY <3>2, <3>3, <3>4
    <3>6. PICK F : Joined(WireField, m, ss, F)
      BY <3>2, <3>5, JoinedExists
    <3>7. FlattenSeq(ss) = F[m] /\ F[m] \in Seq(WireField)
      <4>1. FlattenSeq(ss) = F[m]
        BY <3>2, <3>5, <3>6, FlattenIs
      <4>2. m \in 0..m
        BY <3>2
      <4> QED BY <4>1, <4>2, <3>6 DEF Joined
    <3> QED BY <3>2, <3>4, <3>7
  <2> QED BY <2>1, <2>2
<1>3. ASSUME NEW a \in Seq(WireField) PROVE Whole(a) \in Message
  <2>1. \A n \in 1..3 : n = 1 \/ n = 2 \/ n = 3
    OBVIOUS
  <2>2. [n \in 1..3 |-> LastOf(a, n)] \in [1..3 -> Text]
    BY <1>2, <2>1
  <2> QED BY <2>2, <1>2, Known DEF Whole, Message
<1>4. ASSUME NEW a \in Seq(WireField), NEW f \in WireField
      PROVE  Whole(Append(a, f)) = Take(RpcHeader, Whole(a), f)
  <2>1. PICK c : c = Append(a, f)
    OBVIOUS
  <2>2. PICK m : m = Len(a)
    OBVIOUS
  <2>3. /\ m \in Nat /\ DOMAIN a = 1..m /\ DOMAIN c = 1..m+1 /\ c[m + 1] = f
        /\ \A i \in 1..m : c[i] = a[i]
        /\ \A i \in 1..m+1 : c[i] \in WireField
    BY <2>1, <2>2
  <2>4. PICK ss : ss = [i \in 1..m+1 |-> Other(c[i])]
    OBVIOUS
  <2>5. PICK tt : tt = [i \in 1..m |-> Other(a[i])]
    OBVIOUS
  <2>6. \A g \in WireField : Other(g) \in Seq(WireField)
    BY DEF Other
  <2>7. ss \in [1..m+1 -> Seq(WireField)] /\ ss[m + 1] = Other(f)
    BY <2>3, <2>4, <2>6
  <2>8. tt = [i \in 1..m |-> ss[i]]
    BY <2>3, <2>4, <2>5
  <2>9. FlattenSeq(ss) = FlattenSeq(tt) \o Other(f) /\ FlattenSeq(tt) \in Seq(WireField)
    BY <2>3, <2>7, <2>8, FlattenMore
  <2>10. FlattenSeq(ss) = IF Accepts(RpcHeader, f) \/ EndsParse(RpcHeader, f) THEN FlattenSeq(tt)
                          ELSE Append(FlattenSeq(tt), f)
    BY <2>9 DEF Other
  <2>11. PICK va : va = [n \in 1..3 |-> LastOf(a, n)]
    OBVIOUS
  <2>12. PICK vc : vc = [n \in 1..3 |-> LastOf(c, n)]
    OBVIOUS
  <2>13. ASSUME NEW n \in 1..3
         PROVE  vc[n] = IF f.num = n /\ Sets(RpcHeader, f) THEN ValueOf(f) ELSE va[n]
    <3>1. /\ f.num = n /\ Sets(RpcHeader, f) => LastOf(c, n) = ValueOf(f)
          /\ ~(f.num = n /\ Sets(RpcHeader, f)) => LastOf(c, n) = LastOf(a, n)
      BY <2>1, LastMore
    <3> QED BY <3>1, <2>11, <2>12
  <2>14. Whole(a) = [val |-> va, unknown |-> FlattenSeq(tt)] /\ Whole(c) = [val |-> vc, unknown |-> FlattenSeq(ss)]
    BY <2>3, <2>4, <2>5, <2>11, <2>12, Known DEF Whole
  <2>15. vc = IF Sets(RpcHeader, f) THEN [va EXCEPT ![f.num] = ValueOf(f)] ELSE va
    <3>1. Sets(RpcHeader, f) => f.num \in 1..3
      BY Known
    <3>2. va = [n \in 1..3 |-> va[n]] /\ vc = [n \in 1..3 |-> vc[n]]
      BY <2>11, <2>12
    <3> QED BY <3>1, <3>2, <2>13
  <2>16. PICK ua : ua = FlattenSeq(tt)
    OBVIOUS
  <2>17. Whole(a) = [val |-> va, unknown |-> ua]
    BY <2>14, <2>16
  <2>18. CASE Sets(RpcHeader, f)
    <3>1. Whole(c) = [val |-> [va EXCEPT ![f.num] = ValueOf(f)], unknown |-> ua]
      BY <2>10, <2>14, <2>15, <2>16, <2>18, Known
    <3>2. PICK z : z = Take(RpcHeader, Whole(a), f)
      OBVIOUS
    <3>3. z = [[val |-> va, unknown |-> ua] EXCEPT !.val[f.num] = ValueOf(f)]
      BY <2>17, <2>18, <3>2 DEF Take, Set
    <3>4. z = [val |-> [va EXCEPT ![f.num] = ValueOf(f)], unknown |-> ua]
      BY <3>3
    <3> QED BY <2>1, <3>1, <3>2, <3>4
  <2>19. CASE ~Sets(RpcHeader, f) /\ EndsParse(RpcHeader, f)
    <3>1. Whole(c) = Whole(a)
      BY <2>10, <2>14, <2>15, <2>16, <2>17, <2>19
    <3> QED BY <2>1, <2>19, <3>1 DEF Take
  <2>20. CASE ~Sets(RpcHeader, f) /\ ~EndsParse(RpcHeader, f)
    <3>0. ~Accepts(RpcHeader, f)
      BY <2>20, Known
    <3>1. Whole(c) = [val |-> va, unknown |-> Append(ua, f)]
      BY <2>10, <2>14, <2>15, <2>16, <2>20, <3>0
    <3>2. PICK z : z = Take(RpcHeader, Whole(a), f)
      OBVIOUS
    <3>3. z = [[val |-> va, unknown |-> ua] EXCEPT !.unknown = Append(@, f)]
      BY <2>17, <2>20, <3>2 DEF Take
    <3>4. z = [val |-> va, unknown |-> Append(ua, f)]
      BY <3>3
    <3> QED BY <2>1, <3>1, <3>2, <3>4
  <2> QED BY <2>18, <2>19, <2>20
<1> QED BY <1>1, <1>3, <1>4

\* The header that is read from its beginning.
LEMMA HeaderParsed ==
  ASSUME NEW b, NEW n \in Nat, NEW fs, Beginning(b, n, fs), NEW w, w = n \div 2
  PROVE  /\ Arrived(fs, n) \in Seq(WireField)
         /\ ParseRpcHeader(b) =
              IF n % 2 = 0 \/ Going(fs, n) # w THEN Whole(Arrived(fs, n))
              ELSE Cut(RpcHeader, Whole(Arrived(fs, n)), fs[w + 1])
<1>1. PICK m : m = Len(fs)
  OBVIOUS
<1>2. /\ Len(b) = n /\ fs \in Seq(WireField) /\ m \in Nat /\ n <= 2 * m
      /\ \A i \in 1..m : fs[i] \in WireField
  BY <1>1 DEF Beginning
<1>3. PICK t : t = (n + WireSize - 1) \div WireSize
  OBVIOUS
<1>4. /\ t \in Nat /\ w \in Nat /\ w <= m /\ w <= t /\ t <= m
      /\ t <= w + 1
      /\ n % 2 = 0 => t = w
      /\ n % 2 # 0 => t = w + 1
  BY <1>2, <1>3 DEF WireSize
<1>17. PICK g : g = Going(fs, n)
  OBVIOUS
<1>18. /\ g \in 0..w /\ \A j \in 1..g : ~EndsParse(RpcHeader, fs[j])
       /\ g < w => g + 1 \in 1..w /\ EndsParse(RpcHeader, fs[g + 1])
  <2>1. PICK Bad : Bad = {i \in 1..w : EndsParse(RpcHeader, fs[i])}
    OBVIOUS
  <2>2. g = Before(w, Bad)
    BY <1>17, <2>1 DEF Going, WireSize
  <2>3. /\ g \in 0..w /\ \A j \in 1..g : j \notin Bad
        /\ g < w => g + 1 \in Bad
    BY <2>2, <1>4, BeforeIs
  <2>4. \A j \in 1..g : j \in 1..w
    BY <2>3, <1>4
  <2> QED BY <2>1, <2>3, <2>4
<1>19. PICK a : a = Min2(g + 1, w)
  OBVIOUS
<1>20. a \in 0..w /\ a <= m /\ a <= t /\ a <= g + 1 /\ (g < w => a = g + 1) /\ (g = w => a = w)
  BY <1>4, <1>2, <1>18, <1>19 DEF Min2
<1>21. Arrived(fs, n) = SubSeq(fs, 1, a)
  BY <1>17, <1>19 DEF Arrived, WireSize
<1>22. SubSeq(fs, 1, a) \in Seq(WireField)
  BY <1>1, <1>2, <1>4, <1>20
<1>5. PICK whole : whole = [j \in 0..m |-> Whole(SubSeq(fs, 1, j))]
  OBVIOUS
<1>6. whole[0] = New(RpcHeader)
  <2>1. SubSeq(fs, 1, 0) = <<>>
    BY <1>2
  <2>2. 0 \in 0..m
    BY <1>2
  <2>3. whole[0] = Whole(<<>>)
    BY <2>1, <2>2, <1>5
  <2> QED BY <2>3, WholeMore
<1>7. ASSUME NEW k \in 1..m PROVE whole[k] = Take(RpcHeader, whole[k - 1], fs[k])
  <2>1. k \in 0..m /\ k - 1 \in 0..m /\ k \in Nat
    BY <1>2
  <2>2. PICK p : p = SubSeq(fs, 1, k - 1)
    OBVIOUS
  <2>3. p \in Seq(WireField) /\ SubSeq(fs, 1, k) = Append(p, fs[k])
    <3>1. p \in Seq(WireField) /\ Len(p) = k - 1 /\ \A i \in 1..k-1 : p[i] = fs[i]
      BY <2>1, <2>2, <1>1, <1>2
    <3>2. PICK c : c = SubSeq(fs, 1, k)
      OBVIOUS
    <3>3. c \in Seq(WireField) /\ Len(c) = k /\ \A i \in 1..k : c[i] = fs[i]
      BY <2>1, <3>2, <1>1, <1>2
    <3>4. PICK d : d = Append(p, fs[k])
      OBVIOUS
    <3>5. d \in Seq(WireField) /\ Len(d) = k /\ d[k] = fs[k] /\ \A i \in 1..k-1 : d[i] = p[i]
      BY <3>1, <3>4, <2>1, <1>2
    <3>6. \A i \in 1..k : i = k \/ i \in 1..k-1
      OBVIOUS
    <3>7. \A i \in 1..k : c[i] = d[i]
      BY <3>1, <3>3, <3>5, <3>6
    <3>8. c = d
      BY <3>3, <3>5, <3>7, SeqEqual
    <3> QED BY <3>1, <3>2, <3>4, <3>8
  <2>4. whole[k] = Whole(Append(p, fs[k])) /\ whole[k - 1] = Whole(p)
    BY <2>1, <2>2, <2>3, <1>5
  <2>5. Whole(Append(p, fs[k])) = Take(RpcHeader, Whole(p), fs[k])
    BY <2>3, <1>2, WholeMore
  <2> QED BY <2>4, <2>5
<1>8. PICK z : z = IF g < w THEN whole[a] ELSE Cut(RpcHeader, whole[a], fs[w + 1])
  OBVIOUS
<1>9. PICK e : e = [j \in 0..t |-> IF j <= a THEN whole[j] ELSE z]
  OBVIOUS
<1>10. \A j \in 0..t : e[j] = IF j <= a THEN whole[j] ELSE z
  BY <1>9
<1>11. Parsed(RpcHeader, b, t, e)
  <2>1. e = [j \in 0..t |-> e[j]]
    BY <1>9
  <2>2. e[0] = New(RpcHeader)
    <3>1. 0 \in 0..t /\ 0 <= a
      BY <1>4, <1>20
    <3> QED BY <3>1, <1>6, <1>10
  <2>3. ASSUME NEW k \in 1..t
        PROVE  e[k] = ParseTurn(RpcHeader, b, t, k, e[k - 1])
    <3>1. PICK msg : msg = e[k - 1]
      OBVIOUS
    <3>8. ParseTurn(RpcHeader, b, t, k, msg) =
            IF Ended(RpcHeader, fs, k) THEN msg
            ELSE IF k <= n \div 2 THEN Take(RpcHeader, msg, fs[k]) ELSE Cut(RpcHeader, msg, fs[k])
      BY <1>3, <1>4, BeginningTurn
    <3>2. ParseTurn(RpcHeader, b, t, k, msg) =
            IF Ended(RpcHeader, fs, k) THEN msg
            ELSE IF k <= w THEN Take(RpcHeader, msg, fs[k]) ELSE Cut(RpcHeader, msg, fs[k])
      BY <3>8
    <3>3. k \in 0..t /\ k - 1 \in 0..t /\ k \in 1..m /\ k \in Int /\ k <= w + 1
      <4>1. k \in Int /\ 1 <= k /\ k <= t
        BY <1>4, <2>3
      <4> QED BY <4>1, <1>2, <1>4
    <3>4. e[k] = (IF k <= a THEN whole[k] ELSE z) /\ msg = (IF k - 1 <= a THEN whole[k - 1] ELSE z)
      BY <3>1, <3>3, <1>10
    <3>5. CASE k <= a
      <4>1. k - 1 <= a /\ k <= w /\ \A j \in 1..k-1 : j \in 1..g
        BY <3>3, <3>5, <1>4, <1>18, <1>20
      <4>2. ~Ended(RpcHeader, fs, k)
        BY <4>1, <1>18 DEF Ended
      <4> QED BY <4>1, <4>2, <3>1, <3>2, <3>3, <3>4, <3>5, <1>7
    <3>6. CASE ~(k <= a) /\ g < w
      <4>1. g + 1 \in 1..k-1 /\ a = g + 1 /\ (k - 1 <= a => k - 1 = a)
        BY <3>3, <3>6, <1>18, <1>20
      <4>2. Ended(RpcHeader, fs, k)
        BY <4>1, <3>6, <1>18 DEF Ended
      <4>3. msg = whole[a] /\ e[k] = whole[a]
        BY <4>1, <3>4, <3>6, <1>8
      <4> QED BY <4>2, <4>3, <3>1, <3>2
    <3>7. CASE ~(k <= a) /\ ~(g < w)
      <4>1. g = w /\ a = w /\ k = w + 1 /\ k - 1 = a /\ ~(k <= w) /\ k - 1 <= a
        BY <3>3, <3>7, <1>4, <1>18, <1>20
      <4>2. ~Ended(RpcHeader, fs, k)
        BY <4>1, <1>18 DEF Ended
      <4>3. msg = whole[a] /\ e[k] = Cut(RpcHeader, whole[a], fs[w + 1])
        BY <4>1, <3>4, <3>7, <1>8
      <4> QED BY <4>1, <4>2, <4>3, <3>1, <3>2
    <3> QED BY <3>5, <3>6, <3>7
  <2> QED BY <2>1, <2>2, <2>3 DEF Parsed
<1>12. t = (Len(b) + WireSize - 1) \div WireSize
  BY <1>2, <1>3
<1>13. ParseRpcHeader(b) = e[t]
  BY <1>4, <1>11, <1>12, ParseIs DEF ParseRpcHeader
<1>14. whole[a] = Whole(Arrived(fs, n)) /\ t \in 0..t
  BY <1>2, <1>4, <1>5, <1>20, <1>21
<1>15. CASE n % 2 = 0 \/ g < w
  <2>1. t <= a => t = a
    BY <1>4, <1>20
  <2>2. ~(t <= a) => g < w
    BY <1>4, <1>15, <1>18, <1>20
  <2>3. e[t] = whole[a]
    BY <2>1, <2>2, <1>8, <1>10, <1>14
  <2>4. n % 2 = 0 \/ g # w
    BY <1>15, <1>4, <1>18
  <2> QED BY <2>3, <2>4, <1>13, <1>14, <1>17, <1>21, <1>22
<1>16. CASE n % 2 # 0 /\ ~(g < w)
  <2>1. ~(t <= a) /\ g = w
    BY <1>4, <1>16, <1>18, <1>20
  <2> QED BY <2>1, <1>8, <1>10, <1>13, <1>14, <1>16, <1>17, <1>21, <1>22
<1> QED BY <1>15, <1>16

\* The fields that may come, as the prover reads them.
LEMMA FieldsAreText ==
  \A fs \in Seq([num : Nat, wire : STRING, v : STRING]) : fs \in Seq(WireField)
<1>1. PICK S : S = [num : Nat, wire : STRING, v : STRING]
  OBVIOUS
<1>2. \A f \in S : f \in WireField
  BY <1>1 DEF WireField, Text
<1>3. ASSUME NEW fs \in Seq(S) PROVE fs \in Seq(WireField)
  <2>1. PICK m : m = Len(fs)
    OBVIOUS
  <2>2. m \in Nat /\ fs = [i \in 1..m |-> fs[i]] /\ \A i \in 1..m : fs[i] \in S
    BY <2>1
  <2> QED BY <2>2, <1>2
<1> QED BY <1>1, <1>3

\* The header of message k is announced no longer than its fields.
LEMMA HeaderFields ==
  ASSUME NEW k \in 1..N
  PROVE  /\ HdrFields[k] \in Seq(WireField) /\ Hdr[k] <= 2 * Len(HdrFields[k])
         /\ k <= Sound => Hdr[k] \in Nat
<1>1. PICK fs : fs = HdrFields[k]
  OBVIOUS
<1>2. fs \in Seq([num : Nat, wire : STRING, v : STRING]) /\ Hdr[k] <= Len(Encode(fs))
  BY <1>1, CallAssumption
<1>3. fs \in Seq(WireField)
  BY <1>2, FieldsAreText
<1>4. Len(Encode(fs)) = 2 * Len(fs)
  BY <1>3, EncodeIs
<1> QED BY <1>1, <1>2, <1>3, <1>4, SoundIs

(***************************************************************************)
(* The answer.                                                             *)
(***************************************************************************)
\* The type and the function of an answer; its timeout; its body.
FrontFields == <<Field(1, "varint", "RESPONSE"), Field(2, "bytes", "hello")>>
Timeout(v) == IF v = Absent THEN <<>> ELSE <<Field(3, "bytes", v)>>
World == <<Field(1, "bytes", "world")>>

\* The answer with the timeout v and the unknown fields u.
Answer(v, u) ==
  LET header == Encode(FrontFields \o Timeout(v) \o u)
      body == Encode(World)
  IN [rpc_header_length |-> Len(header), rpc_body_length |-> Len(body), bytes |-> header \o body]

\* These are sequences of fields, and so many of them.
LEMMA AnswerFields ==
  ASSUME NEW v \in Text, NEW u \in Seq(WireField)
  PROVE  /\ FrontFields \in Seq(WireField) /\ Len(FrontFields) = 2
         /\ Timeout(v) \in Seq(WireField) /\ Len(Timeout(v)) = IF v = Absent THEN 0 ELSE 1
         /\ World \in Seq(WireField) /\ Len(World) = 1
         /\ FrontFields \o Timeout(v) \o u \in Seq(WireField)
         /\ Len(FrontFields \o Timeout(v) \o u) = 2 + Len(Timeout(v)) + Len(u)
<1>1. \A i \in Nat : \A x, y \in Text : Field(i, x, y) \in WireField
  BY DEF Field, WireField
<1>2. "varint" \in Text /\ "bytes" \in Text /\ "RESPONSE" \in Text /\ "hello" \in Text /\ "world" \in Text
  BY DEF Text
<1>3. PICK f1 \in WireField : f1 = Field(1, "varint", "RESPONSE")
  BY <1>1, <1>2
<1>4. PICK f2 \in WireField : f2 = Field(2, "bytes", "hello")
  BY <1>1, <1>2
<1>5. PICK f3 \in WireField : f3 = Field(3, "bytes", v)
  BY <1>1, <1>2
<1>6. PICK f4 \in WireField : f4 = Field(1, "bytes", "world")
  BY <1>1, <1>2
<1>7. FrontFields \in Seq(WireField) /\ Len(FrontFields) = 2
  BY <1>3, <1>4 DEF FrontFields
<1>8. Timeout(v) \in Seq(WireField) /\ Len(Timeout(v)) = IF v = Absent THEN 0 ELSE 1
  BY <1>5 DEF Timeout
<1>9. World \in Seq(WireField) /\ Len(World) = 1
  BY <1>6 DEF World
<1>10. PICK a \in Seq(WireField) : a = FrontFields
  BY <1>7
<1>11. PICK c \in Seq(WireField) : c = Timeout(v)
  BY <1>8
<1>12. a \o c \o u \in Seq(WireField) /\ Len(a \o c \o u) = Len(a) + Len(c) + Len(u)
  OBVIOUS
<1> QED BY <1>7, <1>8, <1>9, <1>10, <1>11, <1>12

\* What ByteSizeLong and SerializeToArray make of the body of an answer.
LEMMA BodySerialized ==
  /\ SerializeHelloRes(HelloTask) = Encode(World)
  /\ ByteSizeHelloRes(HelloTask) = Len(Encode(World))
  /\ HelloTask.val = [n \in {1} |-> "world"] /\ HelloTask.unknown = <<>>
<1>1. DOMAIN HelloRes = {1} /\ HelloRes[1] = "bytes"
  BY DEF HelloRes
<1>2. HelloTask.val = [n \in {1} |-> "world"] /\ HelloTask.unknown = <<>>
  <2>1. New(HelloRes) = [val |-> [n \in {1} |-> Absent], unknown |-> <<>>]
    BY <1>1 DEF New
  <2>2. HelloTask = [New(HelloRes) EXCEPT !.val[1] = "world"]
    BY DEF HelloTask, Set
  <2>3. PICK o : o = [n \in {1} |-> Absent]
    OBVIOUS
  <2>4. HelloTask.val = [o EXCEPT ![1] = "world"] /\ HelloTask.unknown = <<>>
    BY <2>1, <2>2, <2>3
  <2> QED BY <2>3, <2>4
<1>3. HelloTask.val[1] = "world" /\ "world" # Absent
  BY <1>2 DEF Absent
<1>4. PICK ss : ss = [n \in {1} |-> World]
  OBVIOUS
<1>5. World \in Seq(WireField) /\ Len(World) = 1
  <2>1. Absent \in Text /\ <<>> \in Seq(WireField)
    BY DEF Text
  <2> QED BY <2>1, AnswerFields
<1>6. FlattenSeq(ss) = World
  <2>1. 1..1 = {1} /\ ss \in [1..1 -> Seq(WireField)]
    BY <1>4, <1>5
  <2>2. PICK F : F = [i \in 0..1 |-> IF i = 0 THEN <<>> ELSE World]
    OBVIOUS
  <2>3. F[0] = <<>> /\ F[1] = World /\ ss[1] = World
    BY <2>2, <1>4
  <2>4. F \in [0..1 -> Seq(WireField)]
    BY <2>2, <1>5
  <2>5. \A i \in 1..1 : F[i] = F[i - 1] \o ss[i]
    <3>1. \A i \in 1..1 : i = 1 /\ i - 1 = 0
      OBVIOUS
    <3>2. F[1] = F[0] \o ss[1]
      BY <2>3, <1>5
    <3> QED BY <3>1, <3>2
  <2>6. Joined(WireField, 1, ss, F)
    BY <2>3, <2>4, <2>5 DEF Joined
  <2>7. FlattenSeq(ss) = F[1]
    <3>1. 1 \in Nat /\ ss \in [1..1 -> Seq(WireField)]
      BY <2>1
    <3> QED BY <3>1, <2>6, FlattenIs
  <2> QED BY <2>3, <2>7
<1>7. SerializeHelloRes(HelloTask) = Encode(World)
  <2>1. [n \in DOMAIN HelloRes |-> IF HelloTask.val[n] = Absent THEN <<>>
                                   ELSE <<Field(n, HelloRes[n], HelloTask.val[n])>>] = ss
    BY <1>1, <1>3, <1>4 DEF World
  <2>2. World \o <<>> = World
    BY <1>5
  <2> QED BY <2>1, <2>2, <1>2, <1>6 DEF SerializeHelloRes, InternalSerialize
<1>8. ByteSizeHelloRes(HelloTask) = 2
  BY <1>2, <1>3 DEF ByteSizeHelloRes, FieldSize, UnknownSize, WireSize
<1>9. Len(Encode(World)) = 2
  <2>1. Len(Encode(World)) = 2 * Len(World)
    BY <1>5, EncodeIs
  <2> QED BY <2>1, <1>5
<1> QED BY <1>2, <1>7, <1>8, <1>9

\* What do_response makes of the header of a call.
LEMMA ResponseIs ==
  ASSUME NEW h \in Message, h.val[2] = "hello"
  PROVE  Response(h) = Answer(h.val[3], h.unknown)
<1>1. PICK v : v = h.val[3]
  OBVIOUS
<1>2. PICK u : u = h.unknown
  OBVIOUS
<1>3. PICK r : r = Set(h, 1, "RESPONSE")
  OBVIOUS
<1>4. v \in Text /\ u \in Seq(WireField) /\ h.val \in [1..3 -> Text]
  BY <1>1, <1>2 DEF Message
<1>5. r.val[1] = "RESPONSE" /\ r.val[2] = "hello" /\ r.val[3] = v /\ r.unknown = u
  BY <1>1, <1>2, <1>3, <1>4 DEF Set, Message
<1>6. "RESPONSE" # Absent /\ "hello" # Absent
  BY DEF Absent
<1>7. PICK a : a = FrontFields \o Timeout(v) \o u
  OBVIOUS
<1>8. /\ a \in Seq(WireField) /\ Len(a) = 2 + (IF v = Absent THEN 0 ELSE 1) + Len(u)
      /\ Timeout(v) \in Seq(WireField) /\ FrontFields \in Seq(WireField)
  <2>1. v \in Text /\ u \in Seq(WireField)
    BY <1>4
  <2>2. /\ Timeout(v) \in Seq(WireField) /\ Len(Timeout(v)) = IF v = Absent THEN 0 ELSE 1
        /\ FrontFields \in Seq(WireField)
    BY <2>1, AnswerFields
  <2>3. a \in Seq(WireField) /\ Len(a) = 2 + Len(Timeout(v)) + Len(u)
    BY <2>1, <1>7, AnswerFields
  <2> QED BY <2>2, <2>3
<1>9. PICK ss : ss = [n \in 1..3 |-> IF r.val[n] = Absent THEN <<>> ELSE <<Field(n, RpcHeader[n], r.val[n])>>]
  OBVIOUS
<1>10. PICK s1 : s1 = <<Field(1, "varint", "RESPONSE")>>
  OBVIOUS
<1>11. PICK s2 : s2 = <<Field(2, "bytes", "hello")>>
  OBVIOUS
<1>12. /\ s1 \in Seq(WireField) /\ s2 \in Seq(WireField) /\ FrontFields = s1 \o s2
  <2>1. "varint" \in Text /\ "bytes" \in Text /\ "RESPONSE" \in Text /\ "hello" \in Text
    BY DEF Text
  <2>2. Field(1, "varint", "RESPONSE") \in WireField /\ Field(2, "bytes", "hello") \in WireField
    BY <2>1 DEF Field, WireField
  <2> QED BY <2>2, <1>10, <1>11 DEF FrontFields
<1>13. ss[1] = s1 /\ ss[2] = s2 /\ ss[3] = Timeout(v)
  <2>1. ss[1] = s1
    BY <1>5, <1>6, <1>9, <1>10, Known
  <2>2. ss[2] = s2
    BY <1>5, <1>6, <1>9, <1>11, Known
  <2>3. ss[3] = Timeout(v)
    BY <1>5, <1>9, Known DEF Timeout
  <2> QED BY <2>1, <2>2, <2>3
<1>14. FlattenSeq(ss) = FrontFields \o Timeout(v)
  <2>1. \A i \in 1..3 : i = 1 \/ i = 2 \/ i = 3
    OBVIOUS
  <2>2. ss \in [1..3 -> Seq(WireField)]
    BY <2>1, <1>8, <1>9, <1>12, <1>13
  <2>3. PICK t3 \in Seq(WireField) : t3 = Timeout(v)
    BY <1>8
  <2>4. PICK F : F = [i \in 0..3 |-> IF i = 0 THEN <<>> ELSE IF i = 1 THEN s1
                                     ELSE IF i = 2 THEN s1 \o s2 ELSE s1 \o s2 \o t3]
    OBVIOUS
  <2>5. F[0] = <<>> /\ F[1] = s1 /\ F[2] = s1 \o s2 /\ F[3] = s1 \o s2 \o t3
    BY <2>4
  <2>6. s1 \o s2 \in Seq(WireField) /\ s1 \o s2 \o t3 \in Seq(WireField) /\ <<>> \o s1 = s1 /\ <<>> \in Seq(WireField)
    BY <1>12, <2>3
  <2>7. F \in [0..3 -> Seq(WireField)]
    <3>1. \A i \in 0..3 : i = 0 \/ i = 1 \/ i = 2 \/ i = 3
      OBVIOUS
    <3>2. \A i \in 0..3 : F[i] \in Seq(WireField)
      BY <3>1, <2>5, <2>6, <1>12
    <3>3. F = [i \in 0..3 |-> F[i]]
      BY <2>4
    <3> QED BY <3>2, <3>3
  <2>8. \A i \in 1..3 : F[i] = F[i - 1] \o ss[i]
    <3>1. 1 - 1 = 0 /\ 2 - 1 = 1 /\ 3 - 1 = 2
      OBVIOUS
    <3>2. F[1] = F[0] \o ss[1] /\ F[2] = F[1] \o ss[2] /\ F[3] = F[2] \o ss[3]
      BY <2>3, <2>5, <2>6, <1>13
    <3> QED BY <3>1, <3>2, <2>1
  <2>9. Joined(WireField, 3, ss, F)
    BY <2>5, <2>7, <2>8 DEF Joined
  <2>10. FlattenSeq(ss) = F[3]
    BY <2>2, <2>9, FlattenIs
  <2> QED BY <2>3, <2>5, <2>10, <1>12
<1>15. SerializeRpcHeader(r) = Encode(a)
  <2>1. ss = [n \in DOMAIN RpcHeader |-> IF r.val[n] = Absent THEN <<>> ELSE <<Field(n, RpcHeader[n], r.val[n])>>]
    BY <1>9, Known
  <2> QED BY <2>1, <1>5, <1>7, <1>14 DEF SerializeRpcHeader, InternalSerialize
<1>16. ByteSizeRpcHeader(r) = Len(Encode(a))
  <2>1. Len(Encode(a)) = 2 * Len(a)
    BY <1>8, EncodeIs
  <2>2. FieldSize(r, 1) = 2 /\ FieldSize(r, 2) = 2 /\ FieldSize(r, 3) = (IF v = Absent THEN 0 ELSE 2)
    BY <1>5, <1>6 DEF FieldSize, WireSize
  <2>3. UnknownSize(r) = 2 * Len(u) /\ Len(u) \in Nat
    BY <1>4, <1>5 DEF UnknownSize, WireSize
  <2>4. ByteSizeRpcHeader(r) = 2 + (IF v = Absent THEN 0 ELSE 2) + 2 + 2 * Len(u)
    BY <2>2, <2>3 DEF ByteSizeRpcHeader
  <2>5. CASE v = Absent
    <3>1. ByteSizeRpcHeader(r) = 4 + 2 * Len(u) /\ Len(a) = 2 + Len(u)
      BY <2>3, <2>4, <2>5, <1>8
    <3> QED BY <2>1, <2>3, <3>1
  <2>6. CASE v # Absent
    <3>1. ByteSizeRpcHeader(r) = 6 + 2 * Len(u) /\ Len(a) = 3 + Len(u)
      BY <2>3, <2>4, <2>6, <1>8
    <3> QED BY <2>1, <2>3, <3>1
  <2> QED BY <2>5, <2>6
<1> QED BY <1>1, <1>2, <1>3, <1>7, <1>15, <1>16, BodySerialized DEF Response, Answer

\* A message whose header begins with n bytes of the fields fs is answered as
\* expected.
LEMMA HeaderAnsweredIs ==
  ASSUME NEW fs \in Seq(WireField), NEW n \in Nat, n <= 2 * Len(fs),
         NEW b, Beginning(b, n, fs)
  PROVE  /\ (ParseRpcHeader(b).val[2] = "hello") <=> Calls(fs, n)
         /\ Calls(fs, n) => Response(ParseRpcHeader(b)) = Expected(fs, n)
<1>3. PICK w : w = n \div 2
  OBVIOUS
<1>4. PICK p : p = Arrived(fs, n)
  OBVIOUS
<1>5. PICK h : h = ParseRpcHeader(b)
  OBVIOUS
<1>6. PICK f : f = fs[w + 1]
  OBVIOUS
<1>7. Len(fs) \in Nat /\ \A i \in 1..Len(fs) : fs[i] \in WireField
  OBVIOUS
<1>8. w \in Nat /\ w <= Len(fs) /\ (n % 2 # 0 => w + 1 \in 1..Len(fs))
  BY <1>3, <1>7
<1>9. p \in Seq(WireField) /\ Arrived(fs, n) = p
  BY <1>3, <1>4, HeaderParsed
<1>10. PICK g : g = Whole(p)
  OBVIOUS
<1>11. g \in Message /\ g.val \in [1..3 -> Text] /\ g.unknown \in Seq(WireField)
  <2>1. g \in Message
    BY <1>9, <1>10, WholeMore
  <2> QED BY <2>1 DEF Message
<1>12. /\ g.val[2] = LastOf(p, 2) /\ g.val[3] = LastOf(p, 3)
       /\ g.unknown = FlattenSeq([i \in DOMAIN p |-> Other(p[i])])
  BY <1>10, Known DEF Whole
<1>13. h = IF n % 2 = 0 \/ Going(fs, n) # w THEN g ELSE Cut(RpcHeader, g, f)
  BY <1>3, <1>4, <1>5, <1>6, <1>10, HeaderParsed
<1>14. \A num : EndsInside(fs, n, num) <=>
                  n % 2 # 0 /\ Going(fs, n) = w /\ f.num = num /\ Accepts(RpcHeader, f)
  BY <1>3, <1>6 DEF EndsInside, WireSize
<1>15. PICK v : v = IF EndsInside(fs, n, 3) THEN Torn ELSE LastOf(p, 3)
  OBVIOUS
<1>16. Expected(fs, n) = Answer(v, g.unknown)
  BY <1>9, <1>12, <1>15
  DEF Expected, Answer, Other, FrontFields, Timeout, World
<1>17. Calls(fs, n) <=> (LastOf(p, 2) = "hello" /\ ~EndsInside(fs, n, 2))
  BY <1>9 DEF Calls
<1>18. /\ h \in Message
       /\ h.val[2] = (IF EndsInside(fs, n, 2) THEN Torn ELSE LastOf(p, 2))
       /\ h.val[3] = v
       /\ h.unknown = g.unknown
  <2>1. CASE n % 2 = 0 \/ Going(fs, n) # w \/ ~(Accepts(RpcHeader, f) /\ f.wire # "varint")
    <3>1. h = g
      BY <2>1, <1>13 DEF Cut
    <3>2. ~EndsInside(fs, n, 2) /\ ~EndsInside(fs, n, 3)
      <4>1. n % 2 # 0 => f \in WireField
        BY <1>6, <1>7, <1>8
      <4> QED BY <4>1, <2>1, <1>14, Known
    <3> QED BY <3>1, <3>2, <1>11, <1>12, <1>15
  <2>2. CASE n % 2 # 0 /\ Going(fs, n) = w /\ Accepts(RpcHeader, f) /\ f.wire # "varint"
    <3>1. f \in WireField
      BY <2>2, <1>6, <1>7, <1>8
    <3>2. f.num = 2 \/ f.num = 3
      <4>1. f.num \in 1..3 /\ f.wire = RpcHeader[f.num]
        BY <3>1, <2>2, Known
      <4> QED BY <4>1, <2>2, Known
    <3>3. h = [g EXCEPT !.val[f.num] = Torn]
      BY <2>2, <1>13 DEF Cut, Set
    <3>4. Torn \in Text
      BY DEF Text
    <3>5. PICK gv : gv = g.val
      OBVIOUS
    <3>6. h.val = [gv EXCEPT ![f.num] = Torn] /\ h.unknown = g.unknown
      BY <3>3, <3>5, <1>11 DEF Message
    <3>7. h \in Message
      BY <3>2, <3>3, <3>4, <1>11 DEF Message
    <3>8. CASE f.num = 2
      <4>1. h.val[2] = Torn /\ h.val[3] = g.val[3]
        BY <3>5, <3>6, <3>8, <1>11
      <4>2. EndsInside(fs, n, 2) /\ ~EndsInside(fs, n, 3)
        BY <2>2, <3>8, <1>14
      <4> QED BY <4>1, <4>2, <3>6, <3>7, <1>12, <1>15
    <3>9. CASE f.num = 3
      <4>1. h.val[3] = Torn /\ h.val[2] = g.val[2]
        BY <3>5, <3>6, <3>9, <1>11
      <4>2. EndsInside(fs, n, 3) /\ ~EndsInside(fs, n, 2)
        BY <2>2, <3>9, <1>14
      <4> QED BY <4>1, <4>2, <3>6, <3>7, <1>12, <1>15
    <3> QED BY <3>2, <3>8, <3>9
  <2> QED BY <2>1, <2>2
<1>19. Torn # "hello"
  BY DEF Torn
<1>20. (h.val[2] = "hello") <=> Calls(fs, n)
  BY <1>17, <1>18, <1>19
<1>21. Calls(fs, n) => Response(h) = Expected(fs, n)
  <2>1. Calls(fs, n) => Response(h) = Answer(h.val[3], h.unknown)
    BY <1>18, <1>20, ResponseIs
  <2> QED BY <2>1, <1>16, <1>18
<1> QED BY <1>5, <1>20, <1>21

\* Every header of any fields, of which any number of bytes has arrived, is
\* answered as it should be, also where the parser fails or stops half-way.
THEOREM EveryHeaderAnswered ==
  \A fs \in Seq([num : Nat, wire : STRING, v : STRING]) :
    \A n \in 0..Len(Encode(fs)) : HeaderAnswered(fs, n)
<1> SUFFICES ASSUME NEW fs \in Seq([num : Nat, wire : STRING, v : STRING]),
                    NEW n \in 0..Len(Encode(fs))
             PROVE  HeaderAnswered(fs, n)
  OBVIOUS
<1>1. fs \in Seq(WireField) /\ Len(fs) \in Nat
  BY FieldsAreText
<1>2. PICK c : c = Encode(fs)
  OBVIOUS
<1>3. c \in Seq(Byte) /\ Len(c) = 2 * Len(fs)
  BY <1>1, <1>2, EncodeIs
<1>4. n \in Nat /\ n <= Len(c)
  BY <1>1, <1>2, <1>3
<1>5. PICK b : b = SubSeq(c, 1, n)
  OBVIOUS
<1>6. b \in Seq(Byte) /\ Len(b) = n /\ \A i \in 1..n : b[i] = c[i]
  BY <1>3, <1>4, <1>5
<1>7. Beginning(b, n, fs)
  BY <1>1, <1>2, <1>3, <1>4, <1>6 DEF Beginning
<1>8. /\ (ParseRpcHeader(b).val[2] = "hello") <=> Calls(fs, n)
      /\ Calls(fs, n) => Response(ParseRpcHeader(b)) = Expected(fs, n)
  BY <1>1, <1>3, <1>4, <1>7, HeaderAnsweredIs
<1> QED BY <1>2, <1>5, <1>8 DEF HeaderAnswered

(***************************************************************************)
(* The bytes of a header, however the stream was cut.                      *)
(***************************************************************************)
\* Positions belong to one header.
LEMMA HeaderByteIs ==
  ASSUME NEW k \in 1..N, NEW p \in Nat, HdrAt(k) <= p, p < BodyAt(k)
  PROVE  HeaderByte(p) = Encode(HdrFields[k])[p - HdrAt(k) + 1]
<1>1. \A j \in 1..N : /\ HdrAt(j) \in Nat /\ BodyAt(j) \in Nat /\ EndOf(j) \in Nat
                      /\ Start[j] \in Nat /\ Start[j] <= HdrAt(j) /\ BodyAt(j) <= EndOf(j)
  BY Layout, Sizes DEF HdrAt, BodyAt, EndOf
<1>2. \A i, j \in 1..N : i < j => EndOf(i) <= Start[j]
  <2>1. Gap \in Nat
    BY Sizes
  <2>2. \A i, j \in 1..N : i < j => EndOf(i) + Gap <= Start[j]
    BY Layout
  <2> QED BY <2>1, <2>2, <1>1
<1>3. ASSUME NEW j \in 1..N, HdrAt(j) <= p, p < BodyAt(j) PROVE j = k
  <2>1. j \in Nat /\ k \in Nat
    BY Sizes
  <2>2. CASE j < k
    <3>1. EndOf(j) <= Start[k]
      BY <2>2, <1>2
    <3> QED BY <3>1, <1>1, <1>3
  <2>3. CASE k < j
    <3>1. EndOf(k) <= Start[j]
      BY <2>3, <1>2
    <3> QED BY <3>1, <1>1, <1>3
  <2> QED BY <2>1, <2>2, <2>3
<1>4. PICK c : c = CHOOSE j \in 1..N : HdrAt(j) <= p /\ p < BodyAt(j)
  OBVIOUS
<1>5. c \in 1..N /\ HdrAt(c) <= p /\ p < BodyAt(c)
  BY <1>4
<1>6. c = k
  BY <1>3, <1>5
<1> QED BY <1>4, <1>6 DEF HeaderByte

\* The ends of adjacent guards lie between the ends of the bytes they cover.
LEMMA Adjacent ==
  ASSUME NEW m \in Nat, NEW from \in Nat, NEW to \in Nat, NEW E \in [0..m -> Int],
         E[0] = from, E[m] = to, \A i \in 1..m : E[i - 1] <= E[i]
  PROVE  \A i \in 0..m : from <= E[i] /\ E[i] <= to
<1>1. PICK Q : Q = {i \in 0..m : from <= E[i]}
  OBVIOUS
<1>2. PICK R : R = {i \in 0..m : E[m - i] <= to}
  OBVIOUS
<1>3. 0 \in Q
  <2>1. 0 \in 0..m /\ from <= E[0]
    OBVIOUS
  <2> QED BY <2>1, <1>1
<1>4. ASSUME NEW i \in 0..m, i \in Q, i < m
      PROVE  i + 1 \in Q
  <2>1. i + 1 \in 1..m /\ i + 1 \in 0..m /\ (i + 1) - 1 = i
    BY <1>4
  <2>2. from <= E[i] /\ E[i] <= E[i + 1] /\ E[i] \in Int /\ E[i + 1] \in Int
    BY <2>1, <1>1, <1>4
  <2>3. from <= E[i + 1]
    BY <2>2
  <2> QED BY <2>1, <2>3, <1>1
<1>5. \A i \in 0..m : i \in Q
  BY <1>3, <1>4, UpTo
<1>6. 0 \in R
  <2>1. 0 \in 0..m /\ m - 0 = m /\ E[m] <= to
    OBVIOUS
  <2> QED BY <2>1, <1>2
<1>7. ASSUME NEW i \in 0..m, i \in R, i < m
      PROVE  i + 1 \in R
  <2>1. /\ i + 1 \in 0..m /\ m - i \in 1..m /\ (m - i) - 1 = m - (i + 1)
        /\ m - i \in 0..m /\ m - (i + 1) \in 0..m
    BY <1>7
  <2>2. E[m - i] <= to /\ E[m - (i + 1)] <= E[m - i] /\ E[m - i] \in Int /\ E[m - (i + 1)] \in Int
    BY <2>1, <1>2, <1>7
  <2>3. E[m - (i + 1)] <= to
    BY <2>2
  <2> QED BY <2>1, <2>3, <1>2
<1>8. \A i \in 0..m : i \in R
  BY <1>6, <1>7, UpTo
<1>9. \A i \in 0..m : m - i \in 0..m /\ m - (m - i) = i
  OBVIOUS
<1>10. \A i \in 0..m : E[i] <= to
  BY <1>2, <1>8, <1>9
<1> QED BY <1>1, <1>5, <1>10

\* The guards of header k hold its bytes.
LEMMA ContentsIs ==
  ASSUME NEW k \in 1..N, k <= Sound, NEW buf \in Seq(Slice), Covers(buf, HdrAt(k), BodyAt(k))
  PROVE  Beginning(Contents(buf), Hdr[k], HdrFields[k])
<1>1. PICK H : H = HdrAt(k)
  OBVIOUS
<1>2. PICK n : n = Hdr[k]
  OBVIOUS
<1>3. PICK fs : fs = HdrFields[k]
  OBVIOUS
<1>4. PICK m : m = Len(buf)
  OBVIOUS
<1>5. H \in Nat /\ n \in Nat /\ BodyAt(k) = H + n
  <2>1. Start[k] \in Nat /\ HeaderLen \in Nat /\ Hdr[k] \in Nat /\ Sent(Hdr[k]) = Hdr[k]
    BY Layout, Sizes, SoundIs
  <2> QED BY <2>1, <1>1, <1>2 DEF HdrAt, BodyAt
<1>6. fs \in Seq(WireField) /\ n <= 2 * Len(fs)
  BY <1>2, <1>3, HeaderFields
<1>7. PICK c : c = Encode(fs)
  OBVIOUS
<1>8. c \in Seq(Byte) /\ Len(c) = 2 * Len(fs)
  BY <1>6, <1>7, EncodeIs
<1>9. \A j \in 1..n : c[j] \in Byte
  <2>1. \A j \in 1..n : j \in 1..Len(c)
    BY <1>5, <1>6, <1>8
  <2> QED BY <2>1, <1>8
<1>10. \A j \in 1..n : HeaderByte(H + j - 1) = c[j]
  <2> SUFFICES ASSUME NEW j \in 1..n PROVE HeaderByte(H + j - 1) = c[j]
    OBVIOUS
  <2>1. PICK q : q = H + j - 1
    OBVIOUS
  <2>2. q \in Nat /\ H <= q /\ q < H + n /\ q - H + 1 = j
    BY <2>1, <1>5
  <2>3. HeaderByte(q) = Encode(HdrFields[k])[q - HdrAt(k) + 1]
    BY <2>2, <1>1, <1>5, HeaderByteIs
  <2> QED BY <2>1, <2>2, <2>3, <1>1, <1>3, <1>7
<1>11. /\ m \in Nat /\ DOMAIN buf = 1..m
       /\ \A i \in 1..m : /\ buf[i].at \in Int /\ buf[i].size \in Nat
                          /\ buf[i].at = IF i = 1 THEN H ELSE buf[i-1].at + buf[i-1].size
       /\ m = 0 => H = H + n
       /\ m # 0 => buf[m].at + buf[m].size = H + n
  <2>1. m \in Nat /\ DOMAIN buf = 1..m /\ (buf = <<>> <=> m = 0)
    BY <1>4
  <2>2. \A i \in 1..m : buf[i] \in Slice
    BY <1>4
  <2>3. \A i \in 1..m : buf[i].at \in Int /\ buf[i].size \in Int
    BY <2>2 DEF Slice
  <2>4. \A i \in 1..m : buf[i].size >= 0 /\ buf[i].at = IF i = 1 THEN H ELSE buf[i-1].at + buf[i-1].size
    BY <1>1, <1>4 DEF Covers
  <2>5. IF buf = <<>> THEN H = H + n ELSE buf[m].at + buf[m].size = H + n
    BY <1>1, <1>4, <1>5 DEF Covers
  <2> QED BY <2>1, <2>3, <2>4, <2>5
<1>30. /\ m \in Nat
       /\ \A i \in 1..m : buf[i].at \in Int /\ buf[i].size \in Nat
  BY <1>11
<1>12. PICK E : E = [i \in 0..m |-> IF i = 0 THEN H ELSE buf[i].at + buf[i].size]
  OBVIOUS
<1>13. /\ \A i \in 1..m : E[i] = buf[i].at + buf[i].size
       /\ E[0] = H
  <2>1. \A i \in 1..m : i \in 0..m /\ i # 0
    BY <1>11
  <2>2. 0 \in 0..m
    BY <1>11
  <2> QED BY <2>1, <2>2, <1>12
<1>14. \A i \in 1..m : buf[i].at = E[i - 1]
  <2> SUFFICES ASSUME NEW i \in 1..m PROVE buf[i].at = E[i - 1]
    OBVIOUS
  <2>1. CASE i = 1
    BY <2>1, <1>11, <1>13
  <2>2. CASE i # 1
    <3>1. i - 1 \in 1..m
      BY <2>2, <1>11
    <3> QED BY <2>2, <3>1, <1>11, <1>13
  <2> QED BY <2>1, <2>2
<1>15. E \in [0..m -> Int]
  <2>1. \A i \in 0..m : i # 0 => i \in 1..m
    BY <1>11
  <2>2. \A i \in 0..m : E[i] \in Int
    <3> SUFFICES ASSUME NEW i \in 0..m PROVE E[i] \in Int
      OBVIOUS
    <3>1. CASE i = 0
      BY <3>1, <1>5, <1>13
    <3>2. CASE i # 0
      <4>1. i \in 1..m
        BY <3>2, <2>1
      <4>2. E[i] = buf[i].at + buf[i].size /\ buf[i].at \in Int /\ buf[i].size \in Nat
        BY <4>1, <1>13, <1>30
      <4> QED BY <4>2
    <3> QED BY <3>1, <3>2
  <2> QED BY <2>2, <1>12
<1>16. \A i \in 1..m : E[i] = E[i - 1] + buf[i].size /\ E[i - 1] <= E[i]
  <2> SUFFICES ASSUME NEW i \in 1..m PROVE E[i] = E[i - 1] + buf[i].size /\ E[i - 1] <= E[i]
    OBVIOUS
  <2>1. E[i] = buf[i].at + buf[i].size /\ buf[i].at = E[i - 1]
    BY <1>13, <1>14
  <2>2. buf[i].at \in Int /\ buf[i].size \in Nat
    BY <1>30
  <2> QED BY <2>1, <2>2
<1>17. E[m] = H + n
  <2>1. m # 0 => m \in 1..m
    BY <1>11
  <2> QED BY <2>1, <1>11, <1>13
<1>18. \A i \in 0..m : H <= E[i] /\ E[i] <= H + n
  <2>1. H + n \in Nat
    BY <1>5
  <2>2. \A i \in 1..m : E[i - 1] <= E[i]
    BY <1>16
  <2> QED BY <2>1, <2>2, <1>5, <1>11, <1>13, <1>15, <1>17, Adjacent
<1>19. PICK L : L = [i \in 0..m |-> E[i] - H]
  OBVIOUS
<1>20. /\ \A i \in 0..m : L[i] \in 0..n
       /\ L[0] = 0 /\ L[m] = n
       /\ \A i \in 1..m : /\ i - 1 \in 0..m /\ L[i] = L[i - 1] + buf[i].size /\ i \in 0..m
                          /\ buf[i].at = H + L[i - 1] /\ buf[i].size \in Nat
  <2>1. 0 \in 0..m /\ m \in 0..m /\ \A i \in 1..m : i \in 0..m /\ i - 1 \in 0..m
    BY <1>11
  <2>2. \A i \in 0..m : E[i] \in Int /\ L[i] = E[i] - H
    BY <1>15, <1>19
  <2>3. \A i \in 0..m : L[i] \in 0..n
    BY <2>2, <1>5, <1>18
  <2>4. L[0] = 0 /\ L[m] = n
    BY <2>1, <2>2, <1>5, <1>13, <1>17
  <2>5. \A i \in 1..m : L[i] = L[i - 1] + buf[i].size /\ buf[i].at = H + L[i - 1]
    <3> SUFFICES ASSUME NEW i \in 1..m PROVE L[i] = L[i - 1] + buf[i].size /\ buf[i].at = H + L[i - 1]
      OBVIOUS
    <3>1. i \in 0..m /\ i - 1 \in 0..m
      BY <2>1
    <3>2. L[i] = E[i] - H /\ L[i - 1] = E[i - 1] - H /\ E[i] \in Int /\ E[i - 1] \in Int
      BY <3>1, <2>2
    <3>3. E[i] = E[i - 1] + buf[i].size /\ buf[i].at = E[i - 1] /\ buf[i].size \in Nat
      BY <1>14, <1>16, <1>30
    <3> QED BY <3>2, <3>3, <1>5
  <2> QED BY <2>1, <2>3, <2>4, <2>5, <1>11
<1>21. PICK ss : ss = [i \in 1..m |-> [j \in 1..buf[i].size |-> HeaderByte(buf[i].at + j - 1)]]
  OBVIOUS
<1>22. Contents(buf) = FlattenSeq(ss)
  BY <1>11, <1>21 DEF Contents
<1>23. ASSUME NEW i \in 1..m
       PROVE  /\ ss[i] \in Seq(Byte) /\ Len(ss[i]) = buf[i].size
              /\ \A j \in 1..buf[i].size : ss[i][j] = c[L[i - 1] + j] /\ L[i - 1] + j \in 1..n
  <2>1. PICK z : z = buf[i].size
    OBVIOUS
  <2>2. PICK l : l = L[i - 1]
    OBVIOUS
  <2>3. z \in Nat /\ l \in 0..n /\ l + z \in 0..n /\ buf[i].at = H + l
    BY <2>1, <2>2, <1>20
  <2>4. PICK g : g = ss[i]
    OBVIOUS
  <2>5. g = [j \in 1..z |-> HeaderByte((H + l) + j - 1)]
    BY <2>1, <2>3, <2>4, <1>21
  <2>6. \A j \in 1..z : l + j \in 1..n /\ (H + l) + j - 1 = H + (l + j) - 1
    <3>1. z \in Nat /\ l \in Nat /\ l + z <= n /\ n \in Nat /\ H \in Nat
      BY <2>3, <1>5
    <3>2. \A j \in 1..z : l + j \in 1..n
      BY <3>1
    <3>3. \A j \in 1..z : (H + l) + j - 1 = H + (l + j) - 1
      BY <3>1
    <3> QED BY <3>2, <3>3
  <2>7. \A j \in 1..z : g[j] = c[l + j]
    BY <2>5, <2>6, <1>10
  <2>8. g = [j \in 1..z |-> c[l + j]]
    BY <2>5, <2>7
  <2>9. \A j \in 1..z : c[l + j] \in Byte
    BY <2>6, <1>9
  <2>10. g \in Seq(Byte) /\ Len(g) = z
    BY <2>3, <2>8, <2>9
  <2> QED BY <2>1, <2>2, <2>4, <2>6, <2>7, <2>10
<1>24. ss \in [1..m -> Seq(Byte)]
  BY <1>21, <1>23
<1>25. PICK F : F = [i \in 0..m |-> [j \in 1..L[i] |-> c[j]]]
  OBVIOUS
<1>26. ASSUME NEW i \in 0..m
       PROVE  F[i] \in Seq(Byte) /\ Len(F[i]) = L[i] /\ \A j \in 1..L[i] : F[i][j] = c[j]
  <2>1. PICK l : l = L[i]
    OBVIOUS
  <2>2. l \in Nat /\ \A j \in 1..l : j \in 1..n
    BY <2>1, <1>5, <1>20
  <2>3. F[i] = [j \in 1..l |-> c[j]]
    BY <2>1, <1>25
  <2>4. \A j \in 1..l : c[j] \in Byte
    BY <2>2, <1>9
  <2> QED BY <2>1, <2>2, <2>3, <2>4
<1>27. Joined(Byte, m, ss, F)
  <2>1. F \in [0..m -> Seq(Byte)]
    BY <1>25, <1>26
  <2>2. F[0] = <<>>
    <3>1. 0 \in 0..m
      BY <1>11
    <3>2. F[0] \in Seq(Byte) /\ Len(F[0]) = 0
      BY <3>1, <1>20, <1>26
    <3> QED BY <3>2
  <2>3. ASSUME NEW i \in 1..m PROVE F[i] = F[i - 1] \o ss[i]
    <3>1. i \in 0..m /\ i - 1 \in 0..m
      BY <1>20
    <3>2. PICK x \in Seq(Byte) : x = F[i]
      BY <3>1, <1>26
    <3>3. PICK y \in Seq(Byte) : y = F[i - 1]
      BY <3>1, <1>26
    <3>4. PICK z \in Seq(Byte) : z = ss[i]
      BY <1>23
    <3>5. PICK l : l = L[i - 1]
      OBVIOUS
    <3>6. l \in Nat /\ Len(y) = l /\ L[i] = l + Len(z) /\ Len(x) = l + Len(z) /\ Len(z) \in Nat
      BY <3>1, <3>2, <3>3, <3>4, <3>5, <1>20, <1>23, <1>26
    <3>7. /\ \A j \in 1..l+Len(z) : x[j] = c[j]
          /\ \A j \in 1..l : y[j] = c[j]
          /\ \A j \in 1..Len(z) : z[j] = c[l + j]
      <4>1. \A j \in 1..l+Len(z) : x[j] = c[j]
        BY <3>1, <3>2, <3>6, <1>26
      <4>2. \A j \in 1..l : y[j] = c[j]
        BY <3>1, <3>3, <3>5, <1>26
      <4>3. \A j \in 1..Len(z) : z[j] = c[l + j]
        BY <3>4, <3>5, <1>23
      <4> QED BY <4>1, <4>2, <4>3
    <3>8. PICK d : d = y \o z
      OBVIOUS
    <3>9. d \in Seq(Byte) /\ Len(d) = l + Len(z) /\ \A j \in 1..l+Len(z) : d[j] = IF j <= l THEN y[j] ELSE z[j - l]
      <4>1. d \in Seq(Byte) /\ Len(d) = Len(y) + Len(z)
        BY <3>8
      <4>2. \A j \in 1..Len(y)+Len(z) : d[j] = IF j <= Len(y) THEN y[j] ELSE z[j - Len(y)]
        BY <3>8
      <4> QED BY <4>1, <4>2, <3>6
    <3>10. ASSUME NEW j \in 1..l+Len(z) PROVE d[j] = x[j]
      <4>1. CASE j <= l
        <5>1. j \in 1..l
          BY <4>1, <3>6
        <5> QED BY <4>1, <5>1, <3>7, <3>9
      <4>2. CASE ~(j <= l)
        <5>1. j - l \in 1..Len(z) /\ l + (j - l) = j
          BY <4>2, <3>6
        <5> QED BY <4>2, <5>1, <3>7, <3>9
      <4> QED BY <4>1, <4>2
    <3>11. d = x
      BY <3>6, <3>9, <3>10, SeqEqual
    <3> QED BY <3>2, <3>3, <3>4, <3>8, <3>11
  <2> QED BY <2>1, <2>2, <2>3 DEF Joined
<1>28. FlattenSeq(ss) = F[m]
  BY <1>30, <1>24, <1>27, FlattenIs
<1>29. F[m] \in Seq(Byte) /\ Len(F[m]) = n /\ \A j \in 1..n : F[m][j] = c[j]
  <2>1. m \in 0..m
    BY <1>11
  <2> QED BY <2>1, <1>20, <1>26
<1> QED BY <1>2, <1>3, <1>6, <1>7, <1>22, <1>28, <1>29 DEF Beginning

(***************************************************************************)
(* The answers of a connection.                                            *)
(***************************************************************************)
\* Message k is a call, its answer, and what the first h messages are answered.
CallsAt(k) == Calls(HdrFields[k], Hdr[k])
ExpectedAt(k) == Expected(HdrFields[k], Hdr[k])
AnswerOf(k) == IF CallsAt(k) THEN <<ExpectedAt(k)>> ELSE <<>>
Answers(h) == FlattenSeq([k \in 1..h |-> AnswerOf(k)])

\* do_request has taken no more than there is, and answered what it took.
CallInv ==
  /\ Framed
  /\ handled \in 0..Len(reqs) /\ handled <= Understood
  /\ out = Answers(handled)

\* One more message.
LEMMA AnswersMore ==
  ASSUME NEW h \in Nat
  PROVE  Answers(h + 1) = IF CallsAt(h + 1) THEN Append(Answers(h), ExpectedAt(h + 1)) ELSE Answers(h)
<1>1. PICK A : A = {ExpectedAt(k) : k \in 1..h+1}
  OBVIOUS
<1>2. PICK ss : ss = [k \in 1..h+1 |-> AnswerOf(k)]
  OBVIOUS
<1>3. PICK tt : tt = [k \in 1..h |-> AnswerOf(k)]
  OBVIOUS
<1>4. \A k \in 1..h : k \in 1..h+1
  OBVIOUS
<1>5. tt = [k \in 1..h |-> ss[k]]
  BY <1>2, <1>3, <1>4
<1>6. \A k \in 1..h+1 : AnswerOf(k) \in Seq(A)
  <2> SUFFICES ASSUME NEW k \in 1..h+1 PROVE AnswerOf(k) \in Seq(A)
    OBVIOUS
  <2>1. PICK x : x = ExpectedAt(k)
    OBVIOUS
  <2>2. x \in A
    BY <2>1, <1>1
  <2>3. <<x>> \in Seq(A) /\ <<>> \in Seq(A)
    BY <2>2
  <2> QED BY <2>1, <2>3 DEF AnswerOf
<1>7. ss \in [1..h+1 -> Seq(A)]
  BY <1>2, <1>6
<1>8. FlattenSeq(tt) \in Seq(A) /\ FlattenSeq(ss) = FlattenSeq(tt) \o ss[h + 1]
  BY <1>5, <1>7, FlattenMore
<1>9. ss[h + 1] = AnswerOf(h + 1)
  <2>1. h + 1 \in 1..h+1
    OBVIOUS
  <2> QED BY <2>1, <1>2
<1>10. Answers(h) = FlattenSeq(tt) /\ Answers(h + 1) = FlattenSeq(ss)
  BY <1>2, <1>3 DEF Answers
<1>11. PICK y \in Seq(A) : y = Answers(h)
  BY <1>8, <1>10
<1>12. Answers(h + 1) = y \o AnswerOf(h + 1)
  BY <1>8, <1>9, <1>10, <1>11
<1>13. y \o <<>> = y /\ \A x : Append(y, x) = y \o <<x>>
  OBVIOUS
<1> QED BY <1>11, <1>12, <1>13 DEF AnswerOf

\* A request taken from the queue is answered if it is a call.
LEMMA RequestAnswered ==
  ASSUME Framed, NEW k \in 1..Len(reqs), k <= Understood
  PROVE  /\ (ParseRpcHeader(Contents(reqs[k].header)).val[2] = "hello") <=> CallsAt(k)
         /\ CallsAt(k) => Response(ParseRpcHeader(Contents(reqs[k].header))) = ExpectedAt(k)
<1>1. PICK buf : buf = reqs[k].header
  OBVIOUS
<1>0. PICK R : R = [header : Seq(Slice), body : Seq(Slice)]
  OBVIOUS
<1>2. reqs \in Seq(R)
  BY <1>0 DEF Framed, TypeOK
<1>3. reqs[k] \in R
  BY <1>2
<1>4. buf \in Seq(Slice)
  BY <1>0, <1>1, <1>3
<1>5. k \in 1..N /\ k <= Sound /\ k \in 1..Min2(Len(reqs), Understood)
  <2>1. Len(reqs) \in Nat /\ Understood \in 0..N /\ Understood <= Sound /\ Sound \in 0..N
    BY <1>2, Layout DEF Framed
  <2>2. N \in Nat
    BY Sizes
  <2> QED BY <2>1, <2>2 DEF Min2
<1>6. Covers(buf, HdrAt(k), BodyAt(k))
  BY <1>1, <1>5 DEF Framed, RequestsAreMessages
<1>7. Beginning(Contents(buf), Hdr[k], HdrFields[k])
  BY <1>4, <1>5, <1>6, ContentsIs
<1>8. HdrFields[k] \in Seq(WireField) /\ Hdr[k] \in Nat /\ Hdr[k] <= 2 * Len(HdrFields[k])
  BY <1>5, HeaderFields
<1> QED BY <1>1, <1>7, <1>8, HeaderAnsweredIs DEF CallsAt, ExpectedAt

\* CallInv holds on a new connection and is kept by every step.
LEMMA CallInvInit == CallInit => CallInv
<1> SUFFICES ASSUME CallInit PROVE CallInv
  OBVIOUS
<1>1. Framed /\ reqs = <<>> /\ handled = 0 /\ out = <<>>
  BY FramedInit DEF CallInit, Init
<1>2. Answers(0) = <<>>
  <2>1. [k \in 1..0 |-> AnswerOf(k)] = <<>>
    OBVIOUS
  <2>2. Len(<<>>) = 0
    OBVIOUS
  <2> QED BY <2>1, <2>2 DEF Answers, FlattenSeq
<1>3. handled \in 0..Len(reqs) /\ handled <= Understood
  BY <1>1, SoundIs, Sizes
<1> QED BY <1>1, <1>2, <1>3 DEF CallInv

\* Every step keeps it: bytes that arrive or are parsed add requests, and a
\* request that is taken adds its answer.
LEMMA CallInvStep == CallInv /\ [CallNext]_<<vars, callVars>> => CallInv'
<1> SUFFICES ASSUME CallInv, [CallNext]_<<vars, callVars>> PROVE CallInv'
  OBVIOUS
<1>1. Framed /\ handled \in 0..Len(reqs) /\ out = Answers(handled) /\ Len(reqs) \in Nat /\ handled <= Understood
  BY DEF CallInv, Framed, TypeOK
<1>2. UNCHANGED vars => Framed'
  BY <1>1, FramedStep
<1>3. ASSUME UNCHANGED callVars, Framed', Len(reqs') \in Nat, Len(reqs) <= Len(reqs')
      PROVE  CallInv'
  <2>1. handled' = handled /\ out' = out
    BY <1>3 DEF callVars
  <2>2. handled' \in 0..Len(reqs') /\ handled' <= Understood
    BY <2>1, <1>1, <1>3
  <2>3. out' = Answers(handled')
    BY <2>1, <1>1
  <2> QED BY <2>2, <2>3, <1>3 DEF CallInv, Understood
<1>4. CASE UNCHANGED <<vars, callVars>>
  <2>1. Framed' /\ reqs' = reqs /\ UNCHANGED callVars
    BY <1>2, <1>4 DEF vars
  <2> QED BY <2>1, <1>1, <1>3
<1>5. CASE ParseMore
  <2>1. Framed' /\ UNCHANGED callVars
    BY <1>1, <1>5, FramedStep DEF ParseMore, Next
  <2>2. reqs' = reqs \/ \E x : reqs' = Append(reqs, x)
    BY <1>5 DEF ParseMore, Parse, ParseMagic, SplitHeader, SplitRpcHeader, SplitContent
  <2>3. Len(reqs') \in Nat /\ Len(reqs) <= Len(reqs')
    <3>1. CASE reqs' = reqs
      BY <3>1, <1>1
    <3>2. ASSUME NEW x, reqs' = Append(reqs, x) PROVE Len(reqs') = Len(reqs) + 1
      <4>1. reqs \in Seq([header : Seq(Slice), body : Seq(Slice)])
        BY <1>1 DEF Framed, TypeOK
      <4> QED BY <4>1, <3>2
    <3> QED BY <2>2, <3>1, <3>2, <1>1
  <2> QED BY <2>1, <2>3, <1>3
<1>6. CASE RecvMore
  <2>1. Framed' /\ UNCHANGED callVars
    BY <1>1, <1>6, FramedStep DEF RecvMore, Next
  <2>2. reqs' = reqs
    BY <1>6 DEF RecvMore, Recv
  <2> QED BY <2>1, <2>2, <1>1, <1>3
<1>7. CASE DoRequest
  <2>1. PICK k : k = handled + 1
    OBVIOUS
  <2>2. /\ UNCHANGED vars /\ handled < Len(reqs) /\ handled' = k /\ handled < Understood
        /\ out' = IF ParseRpcHeader(Contents(reqs[k].header)).val[2] = "hello"
                  THEN Append(out, Response(ParseRpcHeader(Contents(reqs[k].header)))) ELSE out
    BY <2>1, <1>7 DEF DoRequest, TakeRequest
  <2>3. Framed' /\ reqs' = reqs
    BY <2>2, <1>2 DEF vars
  <2>4. k \in 1..Len(reqs) /\ handled \in Nat /\ k \in 0..Len(reqs) /\ k <= Understood
    BY <2>1, <2>2, <1>1, SoundIs, Sizes
  <2>5. out' = IF CallsAt(k) THEN Append(out, ExpectedAt(k)) ELSE out
    BY <2>2, <2>4, <1>1, RequestAnswered
  <2>6. out' = Answers(k)
    BY <2>1, <2>4, <2>5, <1>1, AnswersMore
  <2>7. handled' \in 0..Len(reqs') /\ out' = Answers(handled') /\ handled' <= Understood
    BY <2>2, <2>3, <2>4, <2>6
  <2> QED BY <2>3, <2>7 DEF CallInv, Understood
<1> QED BY <1>4, <1>5, <1>6, <1>7 DEF CallNext

\* The answers of a connection are those of its calls.
THEOREM CallInvariant == CallSpec => []CallInv
<1>1. CallSpec => CallInit /\ [][CallNext]_<<vars, callVars>>
  BY PTL DEF CallSpec
<1> QED BY <1>1, CallInvInit, CallInvStep, PTL

\* A connection that answers calls parses as RpcFraming says: do_request
\* leaves the parser alone, and recv waits for it as parse_connection does.
THEOREM CallFrames == CallSpec => Spec
<1>1. CallInit => Init
  BY DEF CallInit
<1>2. [CallNext]_<<vars, callVars>> => [Next]_vars
  BY DEF CallNext, ParseMore, DoRequest, RecvMore, Next
<1> QED BY <1>1, <1>2, PTL DEF CallSpec, Spec

\* With do_request in between, too, the requests are the client's messages and
\* none is held back.
THEOREM CallRequests == CallSpec => [](RequestsAreMessages /\ NoneHeldBack)
BY CallFrames, RequestsCorrect, Prompt, PTL

\* Whatever messages the clients send, and however the stream is cut, every
\* call of hello taken by do_request has its own answer and nothing else has.
THEOREM AnswersCorrect == CallSpec => []AnswersMatchCalls
<1>1. CallInv => AnswersMatchCalls
  BY DEF CallInv, AnswersMatchCalls, Answers, AnswerOf, CallsAt, ExpectedAt
<1> QED BY <1>1, CallInvariant, PTL

(***************************************************************************)
(* What the client reads.                                                  *)
(***************************************************************************)
\* The body of an answer is one field, or nothing.
LEMMA BodyParsed ==
  ASSUME NEW b
  PROVE  /\ Len(b) = 0 => ParseHelloRes(b) = New(HelloRes)
         /\ Len(b) = 2 => ParseHelloRes(b) = ParseTurn(HelloRes, b, 1, 1, New(HelloRes))
<1>1. CASE Len(b) = 0
  <2>1. PICK e : e = [j \in 0..0 |-> New(HelloRes)]
    OBVIOUS
  <2>2. Parsed(HelloRes, b, 0, e)
    <3>1. e[0] = New(HelloRes) /\ e = [j \in 0..0 |-> e[j]]
      BY <2>1
    <3>2. \A k \in 1..0 : FALSE
      OBVIOUS
    <3> QED BY <3>1, <3>2 DEF Parsed
  <2>3. 0 = (Len(b) + WireSize - 1) \div WireSize
    BY <1>1 DEF WireSize
  <2>4. ParseHelloRes(b) = e[0]
    BY <2>2, <2>3, ParseIs DEF ParseHelloRes
  <2> QED BY <1>1, <2>1, <2>4
<1>2. CASE Len(b) = 2
  <2>1. PICK z : z = ParseTurn(HelloRes, b, 1, 1, New(HelloRes))
    OBVIOUS
  <2>2. PICK e : e = [j \in 0..1 |-> IF j = 0 THEN New(HelloRes) ELSE z]
    OBVIOUS
  <2>3. e[0] = New(HelloRes) /\ e[1] = z /\ e = [j \in 0..1 |-> e[j]]
    BY <2>2
  <2>4. Parsed(HelloRes, b, 1, e)
    <3>1. \A k \in 1..1 : k = 1 /\ k - 1 = 0
      OBVIOUS
    <3> QED BY <2>1, <2>3, <3>1 DEF Parsed
  <2>5. 1 = (Len(b) + WireSize - 1) \div WireSize
    BY <1>2 DEF WireSize
  <2>6. ParseHelloRes(b) = e[1]
    BY <2>4, <2>5, ParseIs DEF ParseHelloRes
  <2> QED BY <1>2, <2>1, <2>3, <2>6
<1> QED BY <1>1, <1>2

\* The body whole, its tag only, and none of it.
LEMMA BodyRead ==
  ASSUME NEW b \in Seq(Byte), Len(b) = 2, NEW f, f = Field(1, "bytes", "world")
  PROVE  /\ b[1].of = f /\ b[2].of = f => ParseHelloRes(b) = HelloTask
         /\ b[1].of = f /\ b[2].of # f => ParseHelloRes(b) # HelloTask
         /\ b[1] = Zero => ParseHelloRes(b) # HelloTask
         /\ New(HelloRes) # HelloTask
<1>1. /\ f \in WireField /\ f.num = 1 /\ f.wire = "bytes" /\ f.v = "world"
  BY DEF Field, WireField, Text
<1>2. DOMAIN HelloRes = {1} /\ HelloRes[1] = "bytes" /\ Accepts(HelloRes, f)
  BY <1>1 DEF HelloRes, Accepts
<1>3. PICK new : new = New(HelloRes)
  OBVIOUS
<1>4. new.val = [n \in {1} |-> Absent]
  BY <1>2, <1>3 DEF New
<1>5. ParseHelloRes(b) = ParseTurn(HelloRes, b, 1, 1, new)
  BY <1>3, BodyParsed
<1>6. HelloTask.val[1] = "world"
  BY BodySerialized
<1>7. new # HelloTask
  <2>1. new.val[1] = Absent /\ Absent # "world"
    BY <1>4 DEF Absent
  <2> QED BY <2>1, <1>6
<1>8. ParseHelloRes(b) = ParseField(HelloRes, new, b)
  <2>1. ~(\E j \in 1..1-1 : EndsParse(HelloRes, ReadField(Turn(b, 1, j))))
    OBVIOUS
  <2>2. SubSeq(b, 1, Len(b)) = b
    OBVIOUS
  <2>3. 2 * (1 - 1) + 1 = 1 /\ ~(1 < 1)
    OBVIOUS
  <2>4. Turn(b, 1, 1) = b
    BY <2>2, <2>3 DEF Turn, WireSize
  <2> QED BY <2>1, <2>4, <1>5 DEF ParseTurn
<1>12. "bytes" # "varint" /\ Torn # Malformed /\ "world" # Malformed
  BY DEF Torn, Malformed
<1>9. ASSUME b[1].of = f, b[2].of = f
      PROVE  ParseHelloRes(b) = HelloTask
  <2>1. ParseField(HelloRes, new, b) = Take(HelloRes, new, f)
    BY <1>1, <1>9, TakeTurn
  <2>2. Sets(HelloRes, f) /\ ValueOf(f) = "world"
    BY <1>1, <1>2, <1>12 DEF Sets, ValueOf
  <2> QED BY <2>1, <2>2, <1>1, <1>3, <1>8 DEF Take, HelloTask
<1>10. ASSUME b[1].of = f, b[2].of # f
       PROVE  ParseHelloRes(b) # HelloTask
  <2>1. ~(Len(b) < 2) /\ 2 \in 2..Len(b)
    OBVIOUS
  <2>2. PICK g : g = ReadField(b)
    OBVIOUS
  <2>3. g = [f EXCEPT !.v = Torn]
    BY <2>1, <2>2, <1>10 DEF ReadField
  <2>4. g.num = 1 /\ g.wire = "bytes" /\ g.v = Torn
    BY <2>3, <1>1 DEF WireField
  <2>5. Sets(HelloRes, g) /\ ValueOf(g) = Torn
    BY <2>4, <1>2, <1>12 DEF Sets, ValueOf, Accepts
  <2>6. ParseField(HelloRes, new, b) = Set(new, 1, Torn)
    BY <2>1, <2>2, <2>4, <2>5 DEF ParseField, WireSize
  <2>7. Set(new, 1, Torn).val[1] = Torn
    BY <1>3, <1>4 DEF Set, New
  <2>8. Torn # "world"
    BY DEF Torn
  <2> QED BY <2>6, <2>7, <2>8, <1>6, <1>8
<1>11. ASSUME b[1] = Zero
       PROVE  ParseHelloRes(b) # HelloTask
  <2>1. PICK g : g = ReadField(b)
    OBVIOUS
  <2>2. g.num = 0
    <3>1. PICK o : o = b[1].of
      OBVIOUS
    <3>2. o.num = 0 /\ o \in WireField
      BY <3>1, <1>11 DEF Zero, Field, WireField, Text
    <3>3. PICK x : g = [o EXCEPT !.v = x]
      BY <2>1, <3>1 DEF ReadField
    <3> QED BY <3>2, <3>3 DEF WireField
  <2>3. ~Sets(HelloRes, g) /\ EndsParse(HelloRes, g)
    BY <2>2, <1>2 DEF Sets, Accepts, EndsParse
  <2>4. ParseHelloRes(b) = new
    BY <2>1, <2>3, <1>8 DEF ParseField
  <2> QED BY <2>4, <1>7
<1> QED BY <1>3, <1>7, <1>9, <1>10, <1>11

\* The client takes an answer for the answer exactly if it has all of it.
LEMMA ReplyRead ==
  ASSUME NEW v \in Text, NEW u \in Seq(WireField), NEW r, r = Answer(v, u),
         NEW n \in Nat, n <= MagicLen + HeaderLen + Len(r.bytes)
  PROVE  (ReadReply(r, n).res = HelloTask) <=> (n = MagicLen + HeaderLen + Len(r.bytes))
<1>1. PICK x : x = Encode(FrontFields \o Timeout(v) \o u)
  OBVIOUS
<1>2. PICK y : y = Encode(World)
  OBVIOUS
<1>3. PICK f : f = Field(1, "bytes", "world")
  OBVIOUS
<1>4. PICK h : h = Len(x)
  OBVIOUS
<1>5. x \in Seq(Byte) /\ h \in Nat
  <2>1. FrontFields \o Timeout(v) \o u \in Seq(WireField)
    BY AnswerFields
  <2>2. x \in Seq(Byte)
    BY <2>1, <1>1, EncodeIs
  <2> QED BY <2>2, <1>4
<1>6. y \in Seq(Byte) /\ Len(y) = 2 /\ y[1].of = f /\ y[2].of = f
  <2>1. World \in Seq(WireField) /\ Len(World) = 1 /\ World[1] = f
    BY <1>3, AnswerFields DEF World
  <2>2. Len(y) = 2 * 1 /\ y \in Seq(Byte)
    BY <2>1, <1>2, EncodeIs
  <2>3. 1 \in 1..1 /\ 2 * 1 - 1 = 1 /\ 2 * 1 = 2
    OBVIOUS
  <2>4. y[2 * 1 - 1].of = f /\ y[2 * 1].of = f
    BY <2>1, <2>3, <1>2, EncodeIs
  <2> QED BY <2>2, <2>3, <2>4
<1>7. r.rpc_header_length = h /\ r.rpc_body_length = 2 /\ r.bytes = x \o y
  BY <1>1, <1>2, <1>4, <1>6 DEF Answer
<1>8. PICK z : z = r.bytes
  OBVIOUS
<1>9. z \in Seq(Byte) /\ Len(z) = h + 2 /\ z[h + 1] = y[1] /\ z[h + 2] = y[2]
  <2>1. z = x \o y
    BY <1>7, <1>8
  <2>5. x \in Seq(Byte) /\ y \in Seq(Byte)
    BY <1>5, <1>6
  <2>6. z \in Seq(Byte) /\ Len(z) = Len(x) + Len(y)
    BY <2>1, <2>5
  <2>2. z \in Seq(Byte) /\ Len(z) = h + 2
    BY <2>6, <1>4, <1>6
  <2>3. \A i \in 1..Len(x)+Len(y) : z[i] = IF i <= Len(x) THEN x[i] ELSE y[i - Len(x)]
    BY <2>1, <2>5
  <2>4. h + 1 \in 1..h+2 /\ h + 2 \in 1..h+2 /\ (h + 1) - h = 1 /\ (h + 2) - h = 2 /\ ~(h + 1 <= h) /\ ~(h + 2 <= h)
    BY <1>5
  <2> QED BY <2>2, <2>3, <2>4, <1>4, <1>6
<1>10. PICK at : at = MagicLen + HeaderLen
  OBVIOUS
<1>11. /\ MagicLen \in Nat /\ HeaderLen \in Nat /\ HeaderLen >= 1 /\ at \in Nat
       /\ HeaderLen \div 2 \in Nat /\ HeaderLen \div 2 <= HeaderLen
  BY <1>10, Sizes
<1>12. PICK hlen : hlen = IF n > MagicLen THEN h ELSE 0
  OBVIOUS
<1>13. PICK blen : blen = IF n > MagicLen + HeaderLen \div 2 THEN 2 ELSE 0
  OBVIOUS
<1>14. PICK buf : buf = [i \in 1..hlen + blen |-> IF at + i <= n THEN z[i] ELSE Zero]
  OBVIOUS
<1>15. PICK b : b = SubSeq(buf, hlen + 1, hlen + blen)
  OBVIOUS
<1>16. ReadReply(r, n).res = ParseHelloRes(b)
  BY <1>7, <1>8, <1>10, <1>12, <1>13, <1>14, <1>15 DEF ReadReply
<1>17. hlen \in Nat /\ blen \in Nat /\ hlen <= h /\ blen <= 2
  BY <1>5, <1>12, <1>13
<1>18. Zero \in Byte
  BY DEF Zero, Byte, Field, WireField, Text
<1>19. buf \in Seq(Byte) /\ Len(buf) = hlen + blen
  <2>1. \A i \in 1..hlen+blen : i \in 1..Len(z)
    BY <1>5, <1>9, <1>17
  <2>2. \A i \in 1..hlen+blen : z[i] \in Byte
    BY <2>1, <1>9
  <2>3. \A i \in 1..hlen+blen : (IF at + i <= n THEN z[i] ELSE Zero) \in Byte
    BY <2>2, <1>18
  <2>4. hlen + blen \in Nat
    BY <1>17
  <2> QED BY <2>3, <2>4, <1>14
<1>20. b \in Seq(Byte) /\ Len(b) = blen /\ \A i \in 1..blen : b[i] = buf[hlen + i] /\ hlen + i \in 1..hlen+blen
  <2>1. hlen + 1 \in Nat /\ hlen + blen \in Nat /\ (hlen + blen) - (hlen + 1) + 1 = blen
    BY <1>17
  <2>2. b \in Seq(Byte) /\ Len(b) = blen
    BY <2>1, <1>15, <1>17, <1>19
  <2>3. \A i \in 1..blen : hlen + i \in 1..hlen+blen /\ (hlen + 1) + i - 1 = hlen + i
    BY <1>17
  <2>4. \A i \in 1..blen : b[i] = buf[(hlen + 1) + i - 1]
    BY <2>1, <2>2, <1>15, <1>17, <1>19
  <2> QED BY <2>2, <2>3, <2>4
<1>21. CASE ~(n > MagicLen + HeaderLen \div 2)
  <2>1. blen = 0
    BY <1>13, <1>21
  <2>2. ParseHelloRes(b) = New(HelloRes)
    BY <2>1, <1>20, BodyParsed
  <2>3. PICK g \in Seq(Byte) : Len(g) = 2
    BY <1>6
  <2>4. New(HelloRes) # HelloTask
    BY <2>3, BodyRead
  <2>5. n # at + (h + 2)
    BY <1>5, <1>10, <1>11, <1>21
  <2> QED BY <2>2, <2>4, <2>5, <1>8, <1>9, <1>10, <1>16
<1>22. CASE n > MagicLen + HeaderLen \div 2
  <2>1. blen = 2 /\ hlen = h
    <3>1. n > MagicLen
      BY <1>11, <1>22
    <3> QED BY <3>1, <1>12, <1>13, <1>22
  <2>2. \A i \in 1..2 : b[i] = IF at + (h + i) <= n THEN z[h + i] ELSE Zero
    BY <2>1, <1>14, <1>20
  <2>3. 1 \in 1..2 /\ 2 \in 1..2 /\ Len(b) = 2
    BY <2>1, <1>20
  <2>4. n <= at + (h + 2)
    BY <1>8, <1>9, <1>10
  <2>5. CASE n = at + (h + 2)
    <3>1. at + (h + 1) <= n /\ at + (h + 2) <= n
      BY <2>5, <1>5, <1>11
    <3>2. b[1] = y[1] /\ b[2] = y[2]
      BY <3>1, <2>2, <2>3, <1>9
    <3>3. ParseHelloRes(b) = HelloTask
      BY <3>2, <2>3, <1>3, <1>6, <1>20, BodyRead
    <3> QED BY <3>3, <2>5, <1>8, <1>9, <1>10, <1>16
  <2>6. CASE n = at + (h + 1)
    <3>1. at + (h + 1) <= n /\ ~(at + (h + 2) <= n) /\ n # at + (h + 2)
      BY <2>6, <1>5, <1>11
    <3>2. b[1] = y[1] /\ b[2] = Zero
      BY <3>1, <2>2, <2>3, <1>9
    <3>3. Zero.of.num = 0 /\ f.num = 1
      BY <1>3 DEF Zero, Field
    <3>4. b[2].of # f
      BY <3>2, <3>3
    <3>5. ParseHelloRes(b) # HelloTask
      BY <3>2, <3>4, <2>3, <1>3, <1>6, <1>20, BodyRead
    <3> QED BY <3>1, <3>5, <1>8, <1>9, <1>10, <1>16
  <2>7. CASE n < at + (h + 1)
    <3>1. ~(at + (h + 1) <= n) /\ n # at + (h + 2)
      BY <2>7, <1>5, <1>11
    <3>2. b[1] = Zero
      BY <3>1, <2>2, <2>3
    <3>3. ParseHelloRes(b) # HelloTask
      BY <3>2, <2>3, <1>3, <1>20, BodyRead
    <3> QED BY <3>1, <3>3, <1>8, <1>9, <1>10, <1>16
  <2>8. n = at + (h + 2) \/ n = at + (h + 1) \/ n < at + (h + 1)
    BY <2>4, <1>5, <1>11
  <2> QED BY <2>5, <2>6, <2>7, <2>8
<1> QED BY <1>21, <1>22

\* The answer to a message is that of some timeout and some fields.
LEMMA ExpectedIs ==
  ASSUME NEW k \in 1..N, k <= Sound
  PROVE  \E v \in Text : \E u \in Seq(WireField) : ExpectedAt(k) = Answer(v, u)
<1>0. PICK fs : fs = HdrFields[k]
  OBVIOUS
<1>9. PICK n : n = Hdr[k]
  OBVIOUS
<1>1. PICK p : p = Arrived(fs, n)
  OBVIOUS
<1>2. p \in Seq(WireField)
  <2>1. fs \in Seq(WireField) /\ n \in Nat /\ n <= 2 * Len(fs) /\ Len(fs) \in Nat
    BY <1>0, <1>9, HeaderFields
  <2>2. PICK b : b = SubSeq(Encode(fs), 1, n)
    OBVIOUS
  <2>3. Encode(fs) \in Seq(Byte) /\ Len(Encode(fs)) = 2 * Len(fs)
    BY <2>1, EncodeIs
  <2>4. b \in Seq(Byte) /\ Len(b) = n /\ \A i \in 1..n : b[i] = Encode(fs)[i]
    BY <2>1, <2>2, <2>3
  <2>5. Beginning(b, n, fs)
    BY <2>1, <2>4 DEF Beginning
  <2>6. PICK w : w = n \div 2
    OBVIOUS
  <2> QED BY <2>1, <2>5, <2>6, <1>1, HeaderParsed
<1>3. PICK g : g = Whole(p)
  OBVIOUS
<1>4. g.val \in [1..3 -> Text] /\ g.unknown \in Seq(WireField)
  <2>1. g \in Message
    BY <1>2, <1>3, WholeMore
  <2> QED BY <2>1 DEF Message
<1>5. g.val[3] = LastOf(p, 3) /\ g.unknown = FlattenSeq([i \in DOMAIN p |-> Other(p[i])])
  BY <1>3, Known DEF Whole
<1>6. PICK v : v = IF EndsInside(fs, n, 3) THEN Torn ELSE LastOf(p, 3)
  OBVIOUS
<1>7. v \in Text
  <2>1. Torn \in Text /\ g.val[3] \in Text
    BY <1>4 DEF Text
  <2> QED BY <2>1, <1>5, <1>6
<1>8. Expected(fs, n) = Answer(v, g.unknown)
  BY <1>1, <1>5, <1>6
  DEF Expected, Answer, Other, FrontFields, Timeout, World
<1> QED BY <1>0, <1>4, <1>7, <1>8, <1>9 DEF ExpectedAt

\* Every answer is the answer to a message.
LEMMA AnswersSeq ==
  ASSUME NEW h \in Nat
  PROVE  Answers(h) \in Seq({ExpectedAt(k) : k \in 1..h})
<1>1. PICK A : A = {ExpectedAt(k) : k \in 1..h}
  OBVIOUS
<1>2. PICK ss : ss = [k \in 1..h |-> AnswerOf(k)]
  OBVIOUS
<1>3. \A k \in 1..h : AnswerOf(k) \in Seq(A)
  <2> SUFFICES ASSUME NEW k \in 1..h PROVE AnswerOf(k) \in Seq(A)
    OBVIOUS
  <2>1. PICK x : x = ExpectedAt(k)
    OBVIOUS
  <2>2. x \in A
    BY <2>1, <1>1
  <2>3. <<x>> \in Seq(A) /\ <<>> \in Seq(A)
    BY <2>2
  <2> QED BY <2>1, <2>3 DEF AnswerOf
<1>4. ss \in [1..h -> Seq(A)]
  BY <1>2, <1>3
<1>5. PICK F : Joined(A, h, ss, F)
  BY <1>4, JoinedExists
<1>6. FlattenSeq(ss) = F[h]
  BY <1>4, <1>5, FlattenIs
<1>7. F[h] \in Seq(A)
  <2>1. h \in 0..h
    OBVIOUS
  <2> QED BY <2>1, <1>5 DEF Joined
<1> QED BY <1>1, <1>2, <1>6, <1>7 DEF Answers

\* For every answer and every number of bytes that its one recv returns, the
\* client prints the answer exactly if all of it has arrived.
THEOREM ReplyCorrect == CallSpec => []ReplyReadIfWhole
<1>1. CallInv => ReplyReadIfWhole
  <2> SUFFICES ASSUME CallInv, out # <<>>
               PROVE  LET whole == MagicLen + HeaderLen + Len(out[1].bytes)
                      IN \A n \in 1..whole : (ReadReply(out[1], n).res = HelloTask) <=> (n = whole)
    BY DEF ReplyReadIfWhole
  <2>1. handled \in Nat /\ handled <= Sound /\ Sound \in 0..N /\ N \in Nat
    <3>1. handled \in 0..Len(reqs) /\ Len(reqs) \in Nat /\ handled <= Understood
      BY DEF CallInv, Framed, TypeOK
    <3>2. N \in Nat /\ Understood \in 0..N /\ Understood <= Sound /\ Sound \in 0..N
      BY Sizes, SoundIs
    <3> QED BY <3>1, <3>2
  <2>2. PICK A : A = {ExpectedAt(k) : k \in 1..handled}
    OBVIOUS
  <2>3. out \in Seq(A)
    BY <2>1, <2>2, AnswersSeq DEF CallInv
  <2>4. out[1] \in A
    BY <2>3
  <2>5. PICK k \in 1..handled : out[1] = ExpectedAt(k)
    BY <2>2, <2>4
  <2>6. k \in 1..N /\ k <= Sound
    BY <2>1
  <2>7. PICK v \in Text, u \in Seq(WireField) : ExpectedAt(k) = Answer(v, u)
    BY <2>6, ExpectedIs
  <2>8. PICK r : r = out[1]
    OBVIOUS
  <2>9. r = Answer(v, u)
    BY <2>5, <2>7, <2>8
  <2>10. PICK whole : whole = MagicLen + HeaderLen + Len(r.bytes)
    OBVIOUS
  <2>11. \A n \in 1..whole : n \in Nat /\ n <= whole
    OBVIOUS
  <2>12. \A n \in 1..whole : (ReadReply(r, n).res = HelloTask) <=> (n = whole)
    BY <2>7, <2>9, <2>10, <2>11, ReplyRead
  <2> QED BY <2>8, <2>10, <2>12
<1> QED BY <1>1, CallInvariant, PTL

(***************************************************************************)
(* The answers on their way: SendQueue.                                    *)
(***************************************************************************)

Guard == [at : Nat, size : Nat]

\* While no byte is displaced the guards of the queue are adjacent and not
\* empty, end at the last byte made, and begin (after cur_pos bytes) at the
\* first byte that is not on the wire.
Chained ==
  /\ \A i \in 1..Len(wire) : wire[i] = i
  /\ list = <<>> => Len(wire) = made
  /\ list # <<>> => /\ list[1].at + cur_pos = Len(wire)
                    /\ cur_pos < list[1].size
                    /\ list[Len(list)].at + list[Len(list)].size = made
  /\ \A i \in 1..Len(list) : list[i].size > 0
  /\ \A i \in 1..Len(list)-1 : list[i].at + list[i].size = list[i+1].at

QueueInv == SendTypeOK /\ (~displaced => Chained)

\* Appending bytes that continue the wire keeps it in order.
LEMMA WireGrows ==
  ASSUME NEW w \in Seq(Nat), NEW from \in Nat, NEW n \in Nat
  PROVE  /\ w \o Bytes(from, n) \in Seq(Nat)
         /\ Len(w \o Bytes(from, n)) = Len(w) + n
         /\ from = Len(w) /\ (\A i \in 1..Len(w) : w[i] = i) =>
              \A i \in 1..Len(w \o Bytes(from, n)) : (w \o Bytes(from, n))[i] = i
<1>1. Bytes(from, n) \in Seq(Nat) /\ Len(Bytes(from, n)) = n
  BY DEF Bytes
<1>2. \A i \in 1..n : Bytes(from, n)[i] = from + i
  BY DEF Bytes
<1> DEFINE b == Bytes(from, n)
          v == w \o b
<1>3. b \in Seq(Nat) /\ Len(b) = n /\ (\A i \in 1..n : b[i] = from + i)
  BY <1>1, <1>2
<1> HIDE DEF b
<1>4. v \in Seq(Nat) /\ Len(v) = Len(w) + n /\ Len(w) \in Nat
  BY SMTT(30), <1>3
<1>5. \A i \in 1..Len(w) : v[i] = w[i]
  BY <1>3
<1>6. \A i \in 1..(Len(w) + n) : i > Len(w) => v[i] = b[i - Len(w)]
  BY <1>3
<1> HIDE DEF v
<1>7. ASSUME from = Len(w), \A i \in 1..Len(w) : w[i] = i, NEW i \in 1..Len(v)
      PROVE  v[i] = i
  <2>1. i \in Nat /\ i \in 1..(Len(w) + n)
    BY <1>4
  <2>2. CASE i <= Len(w)
    <3>1. i \in 1..Len(w)
      BY <1>4, <2>1, <2>2
    <3>2. QED
      BY <1>5, <1>7, <3>1
  <2>3. CASE i > Len(w)
    <3>1. i - Len(w) \in 1..n /\ from + (i - Len(w)) = i
      BY <1>4, <1>7, <2>1, <2>3
    <3>2. QED
      BY <1>3, <1>6, <2>1, <2>3, <3>1
  <2>4. QED
    BY <1>4, <2>1, <2>2, <2>3
<1>8. v = w \o Bytes(from, n)
  BY DEF v, b
<1>9. QED
  BY <1>4, <1>7, <1>8

\* The first element and the rest of a queue of guards.
LEMMA QueueFront ==
  ASSUME NEW l \in Seq(Guard), l # <<>>
  PROVE  /\ Head(l) = l[1] /\ l[1] \in Guard /\ Len(l) \in Nat /\ Len(l) >= 1
         /\ l[1].at \in Nat /\ l[1].size \in Nat
         /\ Tail(l) \in Seq(Guard) /\ Len(Tail(l)) = Len(l) - 1
         /\ \A i \in 1..Len(l)-1 : Tail(l)[i] = l[i+1]
         /\ Tail(l) = <<>> <=> Len(l) = 1
<1>1. Len(l) \in Nat /\ Len(l) >= 1
  OBVIOUS
<1>2. Head(l) = l[1] /\ l[1] \in Guard
  BY <1>1
<1>3. l[1].at \in Nat /\ l[1].size \in Nat
  BY <1>2 DEF Guard
<1>4. Tail(l) \in Seq(Guard) /\ Len(Tail(l)) = Len(l) - 1
  OBVIOUS
<1>5. \A i \in 1..Len(l)-1 : Tail(l)[i] = l[i+1]
  OBVIOUS
<1>6. Tail(l) = <<>> <=> Len(Tail(l)) = 0
  BY <1>4, EmptySeq
<1>7. Tail(l) = <<>> <=> Len(l) = 1
  BY <1>1, <1>4, <1>6
<1>8. QED
  BY <1>1, <1>2, <1>3, <1>4, <1>5, <1>7

\* A guard appended to a queue.
LEMMA Appended ==
  ASSUME NEW l \in Seq(Guard), NEW e \in Guard
  PROVE  /\ Append(l, e) \in Seq(Guard) /\ Len(Append(l, e)) = Len(l) + 1
         /\ Append(l, e)[Len(l) + 1] = e /\ Len(l) \in Nat
         /\ \A i \in 1..Len(l) : Append(l, e)[i] = l[i]
         /\ Append(l, e) # <<>>
<1>1. Append(l, e) \in Seq(Guard) /\ Len(Append(l, e)) = Len(l) + 1 /\ Len(l) \in Nat
  OBVIOUS
<1>2. Append(l, e)[Len(l) + 1] = e
  OBVIOUS
<1>3. \A i \in 1..Len(l) : Append(l, e)[i] = l[i]
  OBVIOUS
<1>4. Append(l, e) # <<>>
  BY AppendProperties
<1>5. QED
  BY <1>1, <1>2, <1>3, <1>4

\* do_response keeps the chain.
LEMMA RespondStep ==
  ASSUME QueueInv, NEW n \in 1..MaxLen, NEW r \in 0..n, Respond(n, r)
  PROVE  QueueInv'
<1> DEFINE g == [at |-> made + r, size |-> n - r]
<1>1. /\ n \in Nat /\ r \in Nat /\ r <= n /\ made \in Nat /\ wire \in Seq(Nat)
      /\ list \in Seq(Guard) /\ cur_pos \in Nat /\ resp \in 0..MaxResp
  BY QueueAssumption DEF QueueInv, SendTypeOK, Guard
<1>2. /\ wire' = wire \o Bytes(made, r) /\ made' = made + n
      /\ list' = IF r < n THEN Append(list, g) ELSE list
      /\ cur_pos' = cur_pos /\ resp' = resp + 1 /\ resp < MaxResp
      /\ UNCHANGED <<open, sending>>
      /\ displaced' = \/ displaced
                      \/ r > 0 /\ list # <<>>
                      \/ r < n /\ list = <<>> /\ cur_pos # 0
  BY DEF Respond
<1>3. g \in Guard /\ g.at = made + r /\ g.size = n - r
  BY <1>1 DEF Guard
<1> HIDE DEF g
<1>4. /\ Append(list, g) \in Seq(Guard) /\ Len(Append(list, g)) = Len(list) + 1
      /\ Append(list, g)[Len(list) + 1] = g /\ Len(list) \in Nat
      /\ \A i \in 1..Len(list) : Append(list, g)[i] = list[i]
      /\ Append(list, g) # <<>>
  BY <1>1, <1>3, Appended
<1>5. wire' \in Seq(Nat) /\ Len(wire') = Len(wire) + r
  BY <1>1, <1>2, WireGrows
<1>6. SendTypeOK'
  <2>1. list' \in Seq(Guard)
    BY <1>1, <1>2, <1>4
  <2>2. made' \in Nat /\ resp' \in 0..MaxResp /\ displaced' \in BOOLEAN
    BY <1>1, <1>2, QueueAssumption DEF QueueInv, SendTypeOK
  <2>3. QED
    BY <1>2, <1>5, <2>1, <2>2 DEF QueueInv, SendTypeOK, Guard
<1>7. ASSUME ~displaced' PROVE Chained'
  <2>1. ~displaced /\ Chained /\ (r > 0 => list = <<>>)
        /\ (r < n /\ list = <<>> => cur_pos = 0)
    BY <1>2, <1>7 DEF QueueInv, SendTypeOK
  <2>2. \A i \in 1..Len(wire') : wire'[i] = i
    <3>1. CASE r = 0
      <4>1. Bytes(made, 0) = <<>>
        BY DEF Bytes
      <4>2. wire' = wire
        BY <1>1, <1>2, <3>1, <4>1
      <4>3. QED
        BY <2>1, <4>2 DEF Chained
    <3>2. CASE r > 0
      <4>1. made = Len(wire)
        BY <2>1, <3>2 DEF Chained
      <4>2. QED
        BY <1>1, <1>2, <2>1, <4>1, WireGrows DEF Chained
    <3>3. QED
      BY <1>1, <3>1, <3>2
  <2>3. CASE r = n
    <3>1. list' = <<>> /\ list = <<>>
      BY <1>1, <1>2, <2>1, <2>3, QueueAssumption
    <3>2. Len(wire') = made'
      BY <1>1, <1>2, <1>5, <2>1, <2>3, <3>1 DEF Chained
    <3>3. QED
      BY <2>2, <3>1, <3>2 DEF Chained
  <2>4. CASE r < n /\ list = <<>>
    <3>1. /\ Len(list') = 1 /\ list'[1] = g /\ list' # <<>> /\ cur_pos' = 0
          /\ Len(wire) = made
      BY <1>2, <1>4, <2>1, <2>4 DEF Chained
    <3>2. /\ list'[1].at + cur_pos' = Len(wire') /\ cur_pos' < list'[1].size
          /\ list'[Len(list')].at + list'[Len(list')].size = made'
      BY <1>1, <1>2, <1>3, <1>5, <2>4, <3>1
    <3>3. QED
      BY <1>1, <1>3, <2>2, <2>4, <3>1, <3>2 DEF Chained
  <2>5. CASE r < n /\ list # <<>>
    <3>1. /\ r = 0 /\ Len(list) \in Nat /\ Len(list) >= 1 /\ list' = Append(list, g)
          /\ list[1] \in Guard /\ list'[1] = list[1] /\ list' # <<>>
          /\ Len(list') = Len(list) + 1
      BY <1>1, <1>2, <1>4, <2>1, <2>5
    <3>2. list'[1].at + cur_pos' = Len(wire') /\ cur_pos' < list'[1].size
      BY <1>1, <1>2, <1>5, <2>1, <2>5, <3>1 DEF Chained
    <3>3. list'[Len(list')].at + list'[Len(list')].size = made'
      BY <1>1, <1>2, <1>3, <1>4, <3>1
    <3>4. \A i \in 1..Len(list') : list'[i].size > 0
      BY <1>1, <1>3, <1>4, <2>1, <2>5, <3>1 DEF Chained
    <3>5. \A i \in 1..Len(list')-1 : list'[i].at + list'[i].size = list'[i+1].at
      <4> SUFFICES ASSUME NEW i \in 1..Len(list')-1
                   PROVE  list'[i].at + list'[i].size = list'[i+1].at
        OBVIOUS
      <4>1. CASE i = Len(list)
        BY <1>1, <1>3, <1>4, <2>1, <2>5, <3>1, <4>1 DEF Chained
      <4>2. CASE i # Len(list)
        <5>1. i \in 1..Len(list)-1 /\ i \in 1..Len(list) /\ i+1 \in 1..Len(list)
          BY <3>1, <4>2
        <5>2. QED
          BY <1>4, <2>1, <3>1, <5>1 DEF Chained
      <4>3. QED
        BY <4>1, <4>2
    <3>6. QED
      BY <2>2, <3>1, <3>2, <3>3, <3>4, <3>5 DEF Chained
  <2>6. QED
    BY <1>1, <2>3, <2>4, <2>5
<1>8. QED
  BY <1>6, <1>7 DEF QueueInv

\* A sum moves with its second term.
LEMMA Shift ==
  ASSUME NEW a \in Nat, NEW b \in Nat, NEW c \in Nat, NEW d \in Nat, a + b = d
  PROVE  a + (b + c) = d + c
OBVIOUS

\* A partial send moves cur_pos by what was sent.
LEMMA PartStep ==
  ASSUME QueueInv, NEW r \in 1..MaxLen, SendPart(r)
  PROVE  QueueInv'
<1>1. /\ r \in Nat /\ r >= 1 /\ list # <<>> /\ list \in Seq(Guard)
      /\ wire \in Seq(Nat) /\ cur_pos \in Nat /\ made \in Nat
  BY QueueAssumption DEF QueueInv, SendTypeOK, Guard, SendPart
<1>2. Head(list) = list[1] /\ list[1].at \in Nat /\ list[1].size \in Nat
  BY <1>1, QueueFront
<1>3. /\ wire' = wire \o Bytes(list[1].at + cur_pos, r)
      /\ cur_pos' = cur_pos + r /\ cur_pos + r < list[1].size
      /\ UNCHANGED <<open, made, resp, list, sending, displaced>>
  <2>1. /\ wire' = wire \o Bytes(list[1].at + cur_pos, r)
        /\ cur_pos' = list[1].size - ((list[1].size - cur_pos) - r)
        /\ r < list[1].size - cur_pos
        /\ UNCHANGED <<open, made, resp, list, sending, displaced>>
    BY <1>2 DEF SendPart, Size
  <2>2. QED
    BY <1>1, <1>2, <2>1
<1>4. wire' \in Seq(Nat) /\ Len(wire') = Len(wire) + r /\ Len(wire) \in Nat
  <2>1. list[1].at + cur_pos \in Nat /\ Len(wire) \in Nat
    BY <1>1, <1>2
  <2>2. QED
    BY <1>1, <1>3, <2>1, WireGrows
<1>5. SendTypeOK'
  BY <1>1, <1>3, <1>4 DEF QueueInv, SendTypeOK
<1>6. ASSUME ~displaced' PROVE Chained'
  <2>1. Chained
    BY <1>3, <1>6 DEF QueueInv
  <2>2. \A i \in 1..Len(wire') : wire'[i] = i
    <3>1. list[1].at + cur_pos = Len(wire) /\ list[1].at + cur_pos \in Nat
      BY <1>1, <1>4, <2>1 DEF Chained
    <3>2. QED
      BY <1>1, <1>3, <2>1, <3>1, WireGrows DEF Chained
  <2>3. list'[1].at + cur_pos' = Len(wire')
    <3>1. list[1].at + cur_pos = Len(wire)
      BY <1>1, <2>1 DEF Chained
    <3>2. list[1].at + (cur_pos + r) = Len(wire) + r
      <4> DEFINE a == list[1].at
                d == Len(wire)
      <4>1. a \in Nat /\ cur_pos \in Nat /\ r \in Nat /\ d \in Nat /\ a + cur_pos = d
        BY <1>1, <1>2, <1>4, <3>1
      <4> HIDE DEF a, d
      <4>2. a + (cur_pos + r) = d + r
        BY <4>1, Shift
      <4>3. QED
        BY <4>2 DEF a, d
    <3>3. list'[1].at = list[1].at /\ cur_pos' = cur_pos + r
      BY <1>3
    <3>4. QED
      BY <1>4, <3>2, <3>3
  <2>4. QED
    BY <1>1, <1>3, <2>1, <2>2, <2>3 DEF Chained
<1>7. QED
  BY <1>5, <1>6 DEF QueueInv

\* A guard that is sent to its end leaves the chain at the front.
LEMMA AllStep == ASSUME QueueInv, SendAll PROVE QueueInv'
<1>1. /\ list # <<>> /\ list \in Seq(Guard)
      /\ wire \in Seq(Nat) /\ cur_pos \in Nat /\ made \in Nat
  BY DEF QueueInv, SendTypeOK, Guard, SendAll
<1>2. /\ Head(list) = list[1] /\ list[1].at \in Nat /\ list[1].size \in Nat
      /\ Len(list) \in Nat /\ Len(list) >= 1
      /\ Tail(list) \in Seq(Guard) /\ Len(Tail(list)) = Len(list) - 1
      /\ \A i \in 1..Len(list)-1 : Tail(list)[i] = list[i+1]
      /\ Tail(list) = <<>> <=> Len(list) = 1
  BY <1>1, QueueFront
<1> DEFINE n == list[1].size - cur_pos
<1>3. /\ wire' = wire \o Bytes(list[1].at + cur_pos, n) /\ n \in Nat /\ n > 0
      /\ list' = Tail(list)
      /\ displaced' = (displaced \/ (cur_pos # 0 /\ Tail(list) # <<>>))
      /\ UNCHANGED <<open, made, resp, cur_pos, sending>>
  <2>1. /\ wire' = wire \o Bytes(list[1].at + cur_pos, n) /\ n > 0
        /\ list' = Tail(list)
        /\ displaced' = (displaced \/ (cur_pos # 0 /\ Tail(list) # <<>>))
        /\ UNCHANGED <<open, made, resp, cur_pos, sending>>
    BY <1>2 DEF SendAll, Size
  <2>2. n \in Nat
    BY <1>1, <1>2, <2>1
  <2>3. QED
    BY <2>1, <2>2
<1>0. n = list[1].size - cur_pos
  OBVIOUS
<1> HIDE DEF n
<1>4. wire' \in Seq(Nat) /\ Len(wire') = Len(wire) + n /\ Len(wire) \in Nat
  <2>1. list[1].at + cur_pos \in Nat /\ Len(wire) \in Nat
    BY <1>1, <1>2
  <2>2. QED
    BY <1>1, <1>3, <2>1, WireGrows
<1>5. SendTypeOK'
  BY <1>1, <1>2, <1>3, <1>4 DEF QueueInv, SendTypeOK, Guard
<1>6. ASSUME ~displaced' PROVE Chained'
  <2>1. Chained /\ (Len(list) # 1 => cur_pos = 0)
    BY <1>2, <1>3, <1>6 DEF QueueInv, SendTypeOK
  <2>6. list[1].at + cur_pos = Len(wire) /\ list[1].at + cur_pos \in Nat
    BY <1>1, <1>4, <2>1 DEF Chained
  <2>7. Len(wire') = list[1].at + list[1].size
    BY <1>0, <1>1, <1>2, <1>4, <2>6
  <2>2. \A i \in 1..Len(wire') : wire'[i] = i
    BY <1>1, <1>3, <2>1, <2>6, WireGrows DEF Chained
  <2>3. CASE Len(list) = 1
    <3>1. Len(wire') = made' /\ list' = <<>>
      BY <1>1, <1>2, <1>3, <2>1, <2>3, <2>7 DEF Chained
    <3>2. QED
      BY <2>2, <3>1 DEF Chained
  <2>4. CASE Len(list) # 1
    <3>1. /\ 1 \in 1..Len(list)-1 /\ 2 \in 1..Len(list) /\ list[2] \in Guard
          /\ list'[1] = list[2] /\ list' # <<>> /\ Len(list') = Len(list) - 1
          /\ Len(list') \in 1..Len(list)-1
      BY SMTT(30), <1>1, <1>2, <1>3, <2>4
    <3>2. list[1].at + list[1].size = list[2].at /\ list[2].size > 0
      BY <2>1, <3>1 DEF Chained
    <3>3. /\ list'[1].at + cur_pos' = Len(wire') /\ cur_pos' < list'[1].size
      <4>1. list[2].at \in Nat
        BY <3>1 DEF Guard
      <4>2. QED
        BY <1>3, <2>1, <2>4, <2>7, <3>1, <3>2, <4>1
    <3>4. list'[Len(list')].at + list'[Len(list')].size = made'
      BY <1>1, <1>2, <1>3, <2>1, <3>1 DEF Chained
    <3>5. \A i \in 1..Len(list') : list'[i].size > 0
      BY <1>1, <1>2, <1>3, <2>1, <3>1 DEF Chained
    <3>6. \A i \in 1..Len(list')-1 : list'[i].at + list'[i].size = list'[i+1].at
      <4> SUFFICES ASSUME NEW i \in 1..Len(list')-1
                   PROVE  list'[i].at + list'[i].size = list'[i+1].at
        OBVIOUS
      <4>1. /\ i \in 1..Len(list)-1 /\ i + 1 \in 1..Len(list)-1
            /\ list'[i] = list[i+1] /\ list'[i+1] = list[(i+1)+1]
        BY SMTT(30), <1>2, <1>3, <3>1
      <4>2. QED
        BY <2>1, <4>1 DEF Chained
    <3>7. QED
      BY <2>2, <3>1, <3>3, <3>4, <3>5, <3>6 DEF Chained
  <2>5. QED
    BY <2>3, <2>4
<1>7. QED
  BY <1>5, <1>6 DEF QueueInv

\* A negative size is only seen when a byte has been displaced before.
LEMMA OverrunStep ==
  ASSUME QueueInv, NEW r \in 1..MaxLen, SendOverrun(r)
  PROVE  QueueInv'
<1>1. list # <<>> /\ list \in Seq(Guard) /\ wire \in Seq(Nat) /\ cur_pos \in Nat
  BY DEF QueueInv, SendTypeOK, Guard, SendOverrun
<1>2. Head(list) = list[1] /\ list[1].size \in Nat /\ Tail(list) \in Seq(Guard)
  BY <1>1, QueueFront
<1>3. displaced
  BY SMTT(30), <1>1, <1>2 DEF QueueInv, SendTypeOK, Chained, SendOverrun, Size
<1>4. [i \in 1..r |-> 0] \in Seq(Nat)
  BY QueueAssumption
<1>5. wire' \in Seq(Nat)
  BY <1>1, <1>4 DEF SendOverrun
<1>6. QED
  BY <1>2, <1>3, <1>5 DEF QueueInv, SendTypeOK, SendOverrun, Guard

\* The inductive invariant holds in every state.
THEOREM ChainInvariant == SendSpec => []QueueInv
<1>1. SendInit => QueueInv
  <2> SUFFICES ASSUME SendInit PROVE QueueInv
    OBVIOUS
  <2>1. /\ wire = <<>> /\ list = <<>> /\ made = 0 /\ Len(<<>>) = 0
        /\ 1..0 = {} /\ 1..(0-1) = {}
    BY DEF SendInit
  <2>2. SendTypeOK
    <3>1. wire \in Seq(Nat) /\ list \in Seq([at : Nat, size : Nat])
      BY <2>1
    <3>2. made \in Nat /\ resp \in 0..MaxResp /\ cur_pos \in Nat
      BY QueueAssumption DEF SendInit
    <3>3. open \in BOOLEAN /\ sending \in BOOLEAN /\ displaced \in BOOLEAN
      BY DEF SendInit
    <3>4. QED
      BY <3>1, <3>2, <3>3 DEF SendTypeOK
  <2>3. Chained
    BY <2>1 DEF Chained
  <2>4. QED
    BY <2>2, <2>3 DEF QueueInv
<1>2. QueueInv /\ [SendNext]_sendVars => QueueInv'
  <2> SUFFICES ASSUME QueueInv, [SendNext]_sendVars PROVE QueueInv'
    OBVIOUS
  <2>1. CASE Close \/ SendBuf \/ SendEmpty \/ SendFails \/ UNCHANGED sendVars
    BY <2>1 DEF Close, SendBuf, SendEmpty, SendFails, sendVars, QueueInv, SendTypeOK, Chained
  <2>2. QED
    BY <2>1, RespondStep, PartStep, AllStep, OverrunStep DEF SendNext, Sending
<1>3. QED
  BY <1>1, <1>2, PTL DEF SendSpec

\* The wire carries the responses in order until a byte is displaced.
THEOREM WireInOrder == SendSpec => []InOrder
<1>1. QueueInv => InOrder
  BY DEF QueueInv, InOrder, Chained
<1>2. QED
  BY <1>1, ChainInvariant, PTL

\* And loses nothing.
THEOREM NothingLost == SendSpec => []AllSentOrQueued
<1>1. QueueInv => AllSentOrQueued
  <2> SUFFICES ASSUME QueueInv, ~displaced
               PROVE  /\ list = <<>> => Len(wire) = made
                      /\ list # <<>> => /\ Head(list).at + cur_pos = Len(wire)
                                        /\ Size(Head(list)) > 0
    BY DEF AllSentOrQueued
  <2>1. Chained /\ list \in Seq(Guard) /\ cur_pos \in Nat
    BY DEF QueueInv, SendTypeOK, Guard
  <2>2. QED
    BY <2>1, QueueFront DEF Chained, Size
<1>2. QED
  BY <1>1, ChainInvariant, PTL
=============================================================================
