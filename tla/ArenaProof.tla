----------------------------- MODULE ArenaProof -----------------------------
(***************************************************************************)
(* Proofs about Arena for any number of threads, any sizes and any         *)
(* alignment.                                                              *)
(***************************************************************************)
EXTENDS Arena, TLAPS

\* The flag is set exactly while one thread is between Lock and Unlock.
OneHolder ==
  /\ \A t \in Thread : apc[t] \in Critical => flag
  /\ \A t, u \in Thread : apc[t] \in Critical /\ apc[u] \in Critical => t = u

\* The current block is split at cur_off into what was given out and what
\* remains, and nothing that was given out lies behind cur_off.
Frontier ==
  /\ cur_blk = 0 => cur_off = 0 /\ cur_remain = 0
  /\ cur_blk # 0 => blocks[cur_blk] = BLOCK_SIZE /\ cur_off + cur_remain = BLOCK_SIZE
  /\ \A p \in given : p.blk = cur_blk => p.off + p.size <= cur_off

ArenaInv == /\ ArenaTypeOK /\ OneHolder /\ Frontier /\ RoomIsStillThere
        /\ PiecesInside /\ PiecesApart /\ PiecesAligned

\* The sizes that threads ask for are positive.
LEMMA SizePos == ASSUME ArenaTypeOK, NEW t \in Thread PROVE size[t] \in Nat /\ size[t] > 0
<1>1. size[t] \in Sizes \cup {1}
  BY DEF ArenaTypeOK
<1>2. Sizes \cup {1} \subseteq Nat \ {0}
  BY ArenaAssumption
<1>3. size[t] \in Nat \ {0}
  BY <1>1, <1>2
<1>4. QED
  BY <1>3

\* Padding reaches the next multiple of Align.
LEMMA Padding ==
  ASSUME NEW o \in Nat, NEW a \in Nat \ {0}
  PROVE  /\ o % a \in Nat /\ o % a < a
         /\ (o + (a - (o % a))) % a = 0
<1>1. o % a \in Nat /\ o % a < a /\ o = a * (o \div a) + (o % a) /\ o \div a \in Nat
  OBVIOUS
<1>2. o + (a - (o % a)) = a * ((o \div a) + 1)
  BY <1>1
<1>3. (a * ((o \div a) + 1)) % a = 0
  BY <1>1
<1>4. QED
  BY <1>1, <1>2, <1>3

\* What Slot is, and that it aligns.
LEMMA SlotFacts ==
  ASSUME ArenaTypeOK, NEW t \in Thread
  PROVE  Slot(t) \in Nat /\ (aligned[t] => (cur_off + Slot(t)) % Align = 0)
<1>1. cur_off \in Nat /\ Align \in Nat \ {0} /\ aligned[t] \in BOOLEAN
  BY ArenaAssumption DEF ArenaTypeOK
<1>2. CASE aligned[t] /\ cur_off % Align # 0
  <2>1. Slot(t) = Align - (cur_off % Align)
    BY <1>2 DEF Slot
  <2>2. QED
    BY <1>1, <2>1, Padding
<1>3. CASE ~(aligned[t] /\ cur_off % Align # 0)
  <2>1. Slot(t) = 0
    BY <1>3 DEF Slot
  <2>2. cur_off + Slot(t) = cur_off
    BY <1>1, <2>1
  <2>3. QED
    BY <1>3, <2>1, <2>2
<1>4. QED
  BY <1>2, <1>3

\* A piece that begins behind every piece of its block and ends inside the
\* block can be added.
LEMMA AddPiece ==
  ASSUME ArenaTypeOK, PiecesInside, PiecesApart, PiecesAligned,
         NEW p \in Piece, NEW bs \in Seq(Nat), given' = given \cup {p}, blocks' = bs,
         Len(bs) >= Len(blocks),
         \A i \in 1..Len(blocks) : bs[i] = blocks[i],
         p.blk \in 1..Len(bs), p.off + p.size <= bs[p.blk],
         p.aligned => p.off % Align = 0,
         \A q \in given : q.blk = p.blk => q.off + q.size <= p.off
  PROVE  PiecesInside' /\ PiecesApart' /\ PiecesAligned'
<1>1. given \subseteq Piece /\ blocks \in Seq(Nat) /\ Len(blocks) \in Nat /\ Len(bs) \in Nat
  BY DEF ArenaTypeOK
<1>2. PiecesInside'
  <2> SUFFICES ASSUME NEW q \in given'
               PROVE  q.blk \in 1..Len(bs) /\ q.off + q.size <= bs[q.blk]
    BY DEF PiecesInside
  <2>1. CASE q = p
    BY <2>1
  <2>2. CASE q \in given
    <3>1. q.blk \in 1..Len(blocks) /\ q.off + q.size <= blocks[q.blk]
      BY <2>2 DEF PiecesInside
    <3>2. q.blk \in 1..Len(bs) /\ bs[q.blk] = blocks[q.blk]
      BY <1>1, <3>1
    <3>3. QED
      BY <3>1, <3>2
  <2>3. QED
    BY <2>1, <2>2
<1>3. PiecesApart'
  BY DEF PiecesApart
<1>4. PiecesAligned'
  BY DEF PiecesAligned
<1>5. QED
  BY <1>2, <1>3, <1>4

\* Only the thread inside the lock changes the arena, so what another thread
\* knows of it stays true.
LEMMA OthersOutside ==
  ASSUME ArenaInv, NEW t \in Thread, apc[t] \in Critical
  PROVE  \A u \in Thread : u # t => apc[u] \notin Critical
BY DEF ArenaInv, OneHolder

\* Moving the pointer in the current block.
LEMMA BumpStep == ASSUME ArenaInv, NEW t \in Thread, Bump(t) PROVE ArenaInv'
<1> DEFINE p == NewPiece(t, cur_blk, cur_off + Slot(t))
<1>1. ArenaTypeOK /\ apc[t] = "bump" /\ apc[t] \in Critical
  BY DEF ArenaInv, Bump, Critical
<1>2. Slot(t) \in Nat /\ (aligned[t] => (cur_off + Slot(t)) % Align = 0)
  BY <1>1, SlotFacts
<1>3. size[t] \in Nat /\ size[t] > 0
  BY <1>1, SizePos
<1>4. /\ size[t] + Slot(t) <= cur_remain /\ cur_off \in Nat /\ cur_remain \in Nat
      /\ blocks \in Seq(Nat) /\ cur_blk \in 0..Len(blocks) /\ Len(blocks) \in Nat
  BY <1>1 DEF ArenaInv, ArenaTypeOK, RoomIsStillThere
<1>5. cur_blk # 0 /\ cur_off + cur_remain = BLOCK_SIZE /\ blocks[cur_blk] = BLOCK_SIZE
  BY <1>2, <1>3, <1>4 DEF ArenaInv, Frontier
<1>6. /\ p.blk = cur_blk /\ p.off = cur_off + Slot(t) /\ p.size = size[t]
      /\ p.aligned = aligned[t] /\ p \in Piece
  BY <1>1, <1>2, <1>3, <1>4 DEF NewPiece, Piece, ArenaTypeOK
<1>7. /\ given' = given \cup {p} /\ cur_off' = cur_off + size[t] + Slot(t)
      /\ cur_remain' = cur_remain - (size[t] + Slot(t))
      /\ apc' = [apc EXCEPT ![t] = "unlock"]
      /\ UNCHANGED <<flag, blocks, cur_blk, size, aligned, calls, process>>
  BY DEF Bump, MoveTo
<1> HIDE DEF p
<1>8. ArenaTypeOK'
  <2>1. cur_off' \in Nat /\ cur_remain' \in Nat
    <3> DEFINE m == size[t]
              k == Slot(t)
    <3>1. m \in Nat /\ k \in Nat /\ m + k <= cur_remain
      BY <1>2, <1>3, <1>4
    <3>2. cur_off' = cur_off + m + k /\ cur_remain' = cur_remain - (m + k)
      BY <1>7
    <3> HIDE DEF m, k
    <3>3. QED
      BY <1>4, <3>1, <3>2
  <2>2. given' \subseteq Piece
    BY <1>1, <1>6, <1>7 DEF ArenaTypeOK
  <2>3. QED
    BY <1>1, <1>7, <2>1, <2>2 DEF ArenaTypeOK, Critical, process
<1>9. OneHolder'
  BY <1>1, <1>7 DEF ArenaInv, ArenaTypeOK, OneHolder, Critical
<1>10. Frontier'
  <2>1. cur_off' + cur_remain' = BLOCK_SIZE
    BY SMTT(30), <1>2, <1>3, <1>4, <1>5, <1>7
  <2>2. ASSUME NEW q \in given', q.blk = cur_blk PROVE q.off + q.size <= cur_off'
    <3>1. CASE q = p
      BY <1>2, <1>3, <1>4, <1>6, <1>7, <3>1
    <3>2. CASE q \in given
      <4>1. q.off + q.size <= cur_off /\ q.off \in Nat /\ q.size \in Nat
        BY <1>1, <2>2, <3>2 DEF ArenaInv, Frontier, ArenaTypeOK, Piece
      <4>2. QED
        BY SMTT(30), <1>2, <1>3, <1>4, <1>7, <4>1
    <3>3. QED
      BY <1>7, <2>2, <3>1, <3>2
  <2>3. QED
    BY <1>5, <1>7, <2>1, <2>2 DEF Frontier
<1>11. RoomIsStillThere'
  BY <1>1, <1>7, OthersOutside DEF RoomIsStillThere, Critical, ArenaInv, ArenaTypeOK
<1>12. p.off + p.size <= blocks[p.blk] /\ p.blk \in 1..Len(blocks)
  BY <1>2, <1>3, <1>4, <1>5, <1>6
<1>13. \A q \in given : q.blk = p.blk => q.off + q.size <= p.off
  <2> SUFFICES ASSUME NEW q \in given, q.blk = p.blk PROVE q.off + q.size <= p.off
    OBVIOUS
  <2>1. q.off + q.size <= cur_off /\ q.off \in Nat /\ q.size \in Nat
    BY <1>1, <1>6 DEF ArenaInv, Frontier, ArenaTypeOK, Piece
  <2>2. QED
    BY <1>2, <1>4, <1>6, <2>1
<1>14. PiecesInside' /\ PiecesApart' /\ PiecesAligned'
  <2>1. ArenaTypeOK /\ PiecesInside /\ PiecesApart /\ PiecesAligned
    BY DEF ArenaInv
  <2>2. /\ p \in Piece /\ blocks \in Seq(Nat) /\ given' = given \cup {p} /\ blocks' = blocks
        /\ Len(blocks) >= Len(blocks)
    BY <1>4, <1>6, <1>7
  <2>3. p.aligned => p.off % Align = 0
    BY <1>2, <1>6
  <2>4. QED
    BY <1>12, <1>13, <2>1, <2>2, <2>3, AddPiece
<1>15. QED
  BY <1>8, <1>9, <1>10, <1>11, <1>14 DEF ArenaInv

\* A new block, of n bytes, with the piece of thread t at its beginning.
LEMMA NewBlock ==
  ASSUME ArenaInv, NEW t \in Thread, NEW n \in Nat, size[t] <= n,
         blocks' = Append(blocks, n),
         given' = given \cup {NewPiece(t, Len(blocks) + 1, 0)}
  PROVE  /\ PiecesInside' /\ PiecesApart' /\ PiecesAligned'
         /\ blocks' \in Seq(Nat) /\ Len(blocks') = Len(blocks) + 1 /\ Len(blocks) \in Nat
         /\ blocks'[Len(blocks) + 1] = n
         /\ \A i \in 1..Len(blocks) : blocks'[i] = blocks[i]
         /\ given' \subseteq Piece
         /\ \A q \in given : q.blk \in 1..Len(blocks)
<1> DEFINE p == NewPiece(t, Len(blocks) + 1, 0)
<1>1. ArenaTypeOK /\ blocks \in Seq(Nat) /\ Len(blocks) \in Nat /\ size[t] \in Nat
  BY SizePos DEF ArenaInv, ArenaTypeOK
<1>2. /\ blocks' \in Seq(Nat) /\ Len(blocks') = Len(blocks) + 1
      /\ blocks'[Len(blocks) + 1] = n
      /\ \A i \in 1..Len(blocks) : blocks'[i] = blocks[i]
  BY <1>1
<1>3. /\ p \in Piece /\ p.blk = Len(blocks) + 1 /\ p.off = 0 /\ p.size = size[t]
  BY <1>1 DEF NewPiece, Piece, ArenaTypeOK
<1>4. \A q \in given : q.blk \in 1..Len(blocks)
  BY DEF ArenaInv, PiecesInside
<1> HIDE DEF p
<1>5. \A q \in given : q.blk # p.blk
  BY <1>1, <1>3, <1>4
<1>6. p.blk \in 1..Len(blocks') /\ p.off + p.size <= blocks'[p.blk]
  BY <1>1, <1>2, <1>3
<1>7. p.off % Align = 0
  BY <1>3, ArenaAssumption
<1>8. given' = given \cup {p} /\ given' \subseteq Piece
  BY <1>1, <1>3 DEF p, ArenaTypeOK
<1> DEFINE bs == blocks'
<1>9. /\ bs \in Seq(Nat) /\ blocks' = bs /\ Len(bs) >= Len(blocks)
      /\ \A i \in 1..Len(blocks) : bs[i] = blocks[i]
      /\ p.blk \in 1..Len(bs) /\ p.off + p.size <= bs[p.blk]
  BY <1>1, <1>2, <1>6
<1> HIDE DEF bs
<1>10. PiecesInside' /\ PiecesApart' /\ PiecesAligned'
  <2>1. ArenaTypeOK /\ PiecesInside /\ PiecesApart /\ PiecesAligned
    BY DEF ArenaInv
  <2>2. /\ p \in Piece /\ (p.aligned => p.off % Align = 0)
        /\ \A q \in given : q.blk = p.blk => q.off + q.size <= p.off
    BY <1>3, <1>5, <1>7
  <2>3. QED
    BY <1>8, <1>9, <2>1, <2>2, AddPiece
<1>11. QED
  BY <1>1, <1>2, <1>4, <1>8, <1>10

\* A large piece.
LEMMA LargeStep == ASSUME ArenaInv, NEW t \in Thread, FallbackLarge(t) PROVE ArenaInv'
<1>1. ArenaTypeOK /\ apc[t] \in Critical /\ size[t] \in Nat /\ cur_blk \in 0..Len(blocks)
  BY SizePos DEF ArenaInv, FallbackLarge, Critical, ArenaTypeOK
<1>2. /\ blocks' = Append(blocks, size[t])
      /\ given' = given \cup {NewPiece(t, Len(blocks) + 1, 0)}
      /\ apc' = [apc EXCEPT ![t] = "unlock"]
      /\ UNCHANGED <<flag, cur_blk, cur_off, cur_remain, size, aligned, calls, process>>
  BY DEF FallbackLarge, MoveTo
<1>3. /\ PiecesInside' /\ PiecesApart' /\ PiecesAligned'
      /\ blocks' \in Seq(Nat) /\ Len(blocks') = Len(blocks) + 1 /\ Len(blocks) \in Nat
      /\ \A i \in 1..Len(blocks) : blocks'[i] = blocks[i]
      /\ given' \subseteq Piece
  BY <1>1, <1>2, NewBlock
<1>4. ArenaTypeOK'
  BY <1>1, <1>2, <1>3 DEF ArenaTypeOK, Critical, process
<1>5. OneHolder'
  BY <1>1, <1>2 DEF ArenaInv, ArenaTypeOK, OneHolder, Critical
<1>6. Frontier'
  <2>1. cur_blk # 0 => blocks'[cur_blk] = BLOCK_SIZE /\ cur_off + cur_remain = BLOCK_SIZE
    BY <1>1, <1>3 DEF ArenaInv, Frontier
  <2>2. ASSUME NEW q \in given', q.blk = cur_blk PROVE q.off + q.size <= cur_off
    <3>1. CASE q = NewPiece(t, Len(blocks) + 1, 0)
      BY <1>1, <1>3, <2>2, <3>1 DEF NewPiece
    <3>2. CASE q \in given
      BY <2>2, <3>2 DEF ArenaInv, Frontier
    <3>3. QED
      BY <1>2, <2>2, <3>1, <3>2
  <2>3. QED
    BY <1>2, <2>1, <2>2 DEF ArenaInv, Frontier
<1>7. RoomIsStillThere'
  BY <1>1, <1>2, OthersOutside DEF RoomIsStillThere, Critical, ArenaInv, ArenaTypeOK
<1>8. QED
  BY <1>3, <1>4, <1>5, <1>6, <1>7 DEF ArenaInv

\* A new current block.
LEMMA NewStep == ASSUME ArenaInv, NEW t \in Thread, FallbackNew(t) PROVE ArenaInv'
<1>1. ArenaTypeOK /\ apc[t] \in Critical /\ size[t] \in Nat /\ Len(blocks) \in Nat
  BY SizePos DEF ArenaInv, FallbackNew, Critical, ArenaTypeOK
<1>2. /\ blocks' = Append(blocks, BLOCK_SIZE) /\ cur_blk' = Len(blocks) + 1
      /\ cur_off' = size[t] /\ cur_remain' = BLOCK_SIZE - size[t]
      /\ given' = given \cup {NewPiece(t, Len(blocks) + 1, 0)}
      /\ apc' = [apc EXCEPT ![t] = "unlock"]
      /\ UNCHANGED <<flag, size, aligned, calls, process>>
  BY DEF FallbackNew, MoveTo
<1>3. BLOCK_SIZE \in Nat /\ size[t] <= BLOCK_SIZE
  BY <1>1, ArenaAssumption DEF FallbackNew
<1>4. /\ PiecesInside' /\ PiecesApart' /\ PiecesAligned'
      /\ blocks' \in Seq(Nat) /\ Len(blocks') = Len(blocks) + 1
      /\ blocks'[Len(blocks) + 1] = BLOCK_SIZE
      /\ given' \subseteq Piece
      /\ \A q \in given : q.blk \in 1..Len(blocks)
  BY <1>1, <1>2, <1>3, NewBlock
<1>5. ArenaTypeOK'
  <2>1. cur_blk' \in 0..Len(blocks') /\ cur_off' \in Nat /\ cur_remain' \in Nat
    BY <1>1, <1>2, <1>3, <1>4
  <2>2. QED
    BY <1>1, <1>2, <1>4, <2>1 DEF ArenaTypeOK, Critical, process
<1>6. OneHolder'
  BY <1>1, <1>2 DEF ArenaInv, ArenaTypeOK, OneHolder, Critical
<1>7. Frontier'
  <2>1. cur_blk' # 0 /\ blocks'[cur_blk'] = BLOCK_SIZE /\ cur_off' + cur_remain' = BLOCK_SIZE
    BY <1>1, <1>2, <1>3, <1>4
  <2>2. ASSUME NEW q \in given', q.blk = cur_blk' PROVE q.off + q.size <= cur_off'
    <3>1. q = NewPiece(t, Len(blocks) + 1, 0)
      BY <1>1, <1>2, <1>4, <2>2
    <3>2. QED
      BY <1>1, <1>2, <3>1 DEF NewPiece
  <2>3. QED
    BY <2>1, <2>2 DEF Frontier
<1>8. RoomIsStillThere'
  BY <1>1, <1>2, OthersOutside DEF RoomIsStillThere, Critical, ArenaInv, ArenaTypeOK
<1>9. QED
  BY <1>4, <1>5, <1>6, <1>7, <1>8 DEF ArenaInv

\* Steps that leave the arena and the pieces alone.
LEMMA QuietStep ==
  ASSUME ArenaInv, NEW t \in Thread,
         \/ Lock(t) \/ Abort(t) \/ Test(t) \/ Unlock(t)
         \/ \E s \in Sizes, a \in BOOLEAN : Allocate(t, s, a)
  PROVE  ArenaInv'
<1>1. UNCHANGED <<blocks, cur_blk, cur_off, cur_remain, given>> /\ ArenaTypeOK
  BY DEF Lock, Abort, Test, Unlock, Allocate, arena, ArenaInv
<1>2. Frontier' /\ PiecesInside' /\ PiecesApart' /\ PiecesAligned'
  BY <1>1 DEF ArenaInv, Frontier, PiecesInside, PiecesApart, PiecesAligned
<1>3. CASE Lock(t)
  <2>1. ArenaTypeOK' /\ OneHolder'
    BY <1>1, <1>3 DEF Lock, MoveTo, arena, process, ArenaInv, ArenaTypeOK, OneHolder, Critical
  <2>2. RoomIsStillThere'
    BY <1>1, <1>3 DEF Lock, MoveTo, arena, process, ArenaInv, ArenaTypeOK, RoomIsStillThere, Slot
  <2>3. QED
    BY <1>2, <2>1, <2>2 DEF ArenaInv
<1>4. CASE Test(t)
  <2>1. ArenaTypeOK' /\ OneHolder'
    BY <1>1, <1>4 DEF Test, MoveTo, arena, process, ArenaInv, ArenaTypeOK, OneHolder, Critical
  <2>2. RoomIsStillThere'
    <3> SUFFICES ASSUME NEW u \in Thread, apc'[u] = "bump"
                 PROVE  size[u] + Slot(u) <= cur_remain
      BY <1>1, <1>4 DEF RoomIsStillThere, Slot, Test
    <3>1. CASE u # t
      BY <1>1, <1>4, <3>1 DEF Test, MoveTo, ArenaInv, ArenaTypeOK, RoomIsStillThere
    <3>2. CASE u = t
      <4>1. Fits(t)
        BY <1>1, <1>4, <3>2 DEF Test, MoveTo, ArenaTypeOK
      <4>2. CASE aligned[t]
        BY <3>2, <4>1, <4>2 DEF Fits
      <4>3. CASE ~aligned[t]
        <5>1. Slot(t) = 0 /\ cur_remain > size[t]
          BY <4>1, <4>3 DEF Fits, Slot
        <5>2. size[t] \in Nat /\ cur_remain \in Nat
          BY <1>1, SizePos DEF ArenaTypeOK
        <5>3. QED
          BY <3>2, <5>1, <5>2
      <4>4. QED
        BY <4>2, <4>3
    <3>3. QED
      BY <3>1, <3>2
  <2>3. QED
    BY <1>2, <2>1, <2>2 DEF ArenaInv
<1>5. CASE Unlock(t)
  <2>1. ArenaTypeOK' /\ OneHolder'
    BY <1>1, <1>5 DEF Unlock, MoveTo, arena, process, ArenaInv, ArenaTypeOK, OneHolder, Critical
  <2>2. RoomIsStillThere'
    BY <1>1, <1>5 DEF Unlock, MoveTo, arena, process, ArenaInv, ArenaTypeOK, RoomIsStillThere, Slot
  <2>3. QED
    BY <1>2, <2>1, <2>2 DEF ArenaInv
<1>6. ASSUME NEW s \in Sizes, NEW a \in BOOLEAN, Allocate(t, s, a) PROVE ArenaInv'
  <2>1. ArenaTypeOK'
    BY <1>1, <1>6, ArenaAssumption DEF Allocate, MoveTo, arena, process, ArenaTypeOK
  <2>2. OneHolder'
    BY <1>1, <1>6 DEF Allocate, MoveTo, arena, process, ArenaInv, ArenaTypeOK, OneHolder, Critical
  <2>3. RoomIsStillThere'
    BY <1>1, <1>6 DEF Allocate, MoveTo, arena, process, ArenaInv, ArenaTypeOK, RoomIsStillThere, Slot
  <2>4. QED
    BY <1>2, <2>1, <2>2, <2>3 DEF ArenaInv
<1>7. CASE Abort(t)
  <2>1. ArenaTypeOK' /\ OneHolder'
    BY <1>1, <1>7 DEF Abort, arena, ArenaTypeOK, ArenaInv, OneHolder
  <2>2. RoomIsStillThere'
    BY <1>1, <1>7 DEF Abort, arena, ArenaInv, RoomIsStillThere, Slot
  <2>3. QED
    BY <1>2, <2>1, <2>2 DEF ArenaInv
<1>8. QED
  BY <1>3, <1>4, <1>5, <1>6, <1>7

\* The invariant holds in a new arena.
LEMMA ArenaFirst == ArenaInit => ArenaInv
<1> SUFFICES ASSUME ArenaInit PROVE ArenaInv
  OBVIOUS
<1>1. ArenaTypeOK
  <2>1. blocks \in Seq(Nat) /\ Len(blocks) = 0
    BY DEF ArenaInit
  <2>2. cur_blk \in 0..Len(blocks) /\ calls \in 0..MaxCalls
    BY <2>1, ArenaAssumption DEF ArenaInit
  <2>3. size \in [Thread -> Sizes \cup {1}] /\ apc \in [Thread -> {"idle", "lock"} \cup Critical]
    BY DEF ArenaInit
  <2>4. QED
    BY <2>1, <2>2, <2>3 DEF ArenaInit, ArenaTypeOK
<1>2. QED
  BY <1>1 DEF ArenaInit, ArenaInv, OneHolder, Frontier, RoomIsStillThere, PiecesInside,
              PiecesApart, PiecesAligned, Critical

\* Every step preserves it.
LEMMA ArenaStep == ArenaInv /\ [ArenaNext]_arenaVars => ArenaInv'
<1> SUFFICES ASSUME ArenaInv, [ArenaNext]_arenaVars PROVE ArenaInv'
  OBVIOUS
<1>1. CASE UNCHANGED arenaVars
  BY <1>1 DEF arenaVars, ArenaInv, ArenaTypeOK, OneHolder, Frontier, RoomIsStillThere, Slot,
              PiecesInside, PiecesApart, PiecesAligned
<1>2. QED
  BY <1>1, BumpStep, LargeStep, NewStep, QuietStep DEF ArenaNext, Step

\* The inductive invariant holds in every state.
THEOREM ArenaInvariant == ArenaSpec => []ArenaInv
BY ArenaFirst, ArenaStep, PTL DEF ArenaSpec

\* Pieces handed out by the arena never overlap, lie inside their blocks, and
\* are aligned where allocate_align returned them.
THEOREM Placement == ArenaSpec => []WellPlaced
<1>1. ArenaInv => WellPlaced
  BY DEF ArenaInv, WellPlaced
<1>2. QED
  BY <1>1, ArenaInvariant, PTL

\* A thread acts on a comparison that is still true.
THEOREM NotStale == ArenaSpec => []RoomIsStillThere
BY ArenaInvariant, PTL DEF ArenaInv
=============================================================================
