-------------------------------- MODULE Arena --------------------------------
(***************************************************************************)
(* utils/buffer.h: mg::BufferPool, an arena that hands out pieces of       *)
(* blocks to several threads, under the spin lock of utils/lock.h.         *)
(*                                                                         *)
(* Memory is a sequence of blocks; a pointer is a block and an offset.     *)
(* Blocks come from new char[], which aligns them for every type, so a     *)
(* pointer is as aligned as its offset.                                    *)
(*                                                                         *)
(* The header is compiled into its user's program, with or without NDEBUG. *)
(* An assertion that fails ends the process; the one on the size is true   *)
(* for every size asked for here.                                          *)
(***************************************************************************)
EXTENDS Integers, Sequences

CONSTANTS
  Thread,
  BLOCK_SIZE,    \* BUFFER_BLOCK_SIZE
  LARGE_SIZE,    \* LARGE_BLOCK_SIZE
  Align,         \* sizeof(void *)
  Sizes,         \* the sizes that callers ask for
  MaxCalls       \* bound: calls of allocate and allocate_align

ASSUME ArenaAssumption ==
  /\ BLOCK_SIZE \in Nat /\ LARGE_SIZE \in Nat /\ LARGE_SIZE <= BLOCK_SIZE
  /\ Align \in Nat \ {0} /\ \E k \in 0..Align : Align = 2^k
  /\ Sizes \subseteq Nat \ {0}
  /\ MaxCalls \in Nat

VARIABLES
  flag,          \* _mutex of the SpinMutex
  blocks,        \* _buffer_pool: the sizes of the blocks
  cur_blk,       \* _cur_ptr: its block (0 for nullptr) ...
  cur_off,       \* ... and its offset there
  cur_remain,    \* _cur_remain
  apc, size, aligned,  \* per thread: where it is, and what it asked for
  given,         \* history: the pieces handed out
  calls,
  ndebug,        \* the program was built with NDEBUG
  aborted        \* an assertion has ended the process

arenaVars == <<flag, blocks, cur_blk, cur_off, cur_remain, apc, size, aligned, given,
               calls, ndebug, aborted>>
process == <<ndebug, aborted>>
arena == <<blocks, cur_blk, cur_off, cur_remain>>

Critical == {"test", "bump", "fallback", "unlock"}
\* by and no tell the calls apart: two calls that return one pointer give two
\* pieces.
Piece == [blk : Nat, off : Nat, size : Nat, aligned : BOOLEAN, by : Thread, no : Nat]

ArenaTypeOK ==
  /\ flag \in BOOLEAN
  /\ blocks \in Seq(Nat)
  /\ cur_blk \in 0..Len(blocks) /\ cur_off \in Nat /\ cur_remain \in Nat
  /\ apc \in [Thread -> {"idle", "lock"} \cup Critical]
  /\ size \in [Thread -> Sizes \cup {1}] /\ aligned \in [Thread -> BOOLEAN]
  /\ given \subseteq Piece
  /\ calls \in 0..MaxCalls
  /\ ndebug \in BOOLEAN /\ aborted \in BOOLEAN

ArenaInit ==
  /\ flag = FALSE
  /\ blocks = <<>> /\ cur_blk = 0 /\ cur_off = 0 /\ cur_remain = 0
  /\ apc = [t \in Thread |-> "idle"]
  /\ size = [t \in Thread |-> 1] /\ aligned = [t \in Thread |-> FALSE]
  /\ given = {} /\ calls = 0
  /\ ndebug \in BOOLEAN /\ aborted = FALSE

MoveTo(t, l) == apc' = [apc EXCEPT ![t] = l]

\* allocate(s), or allocate_align(s) when a.
Allocate(t, s, a) ==
  /\ apc[t] = "idle" /\ calls < MaxCalls
  /\ calls' = calls + 1
  /\ size' = [size EXCEPT ![t] = s] /\ aligned' = [aligned EXCEPT ![t] = a]
  /\ MoveTo(t, "lock")
  /\ UNCHANGED <<flag, arena, given, process>>

\* Mutant: the flag is read and set in two steps (here: not read).
LockBlind(t) ==
  /\ apc[t] = "lock"
  /\ flag' = TRUE
  /\ MoveTo(t, "test")
  /\ UNCHANGED <<arena, size, aligned, given, calls, process>>

\* SpinLock _(_mtx): test_and_set finds the flag clear.
Lock(t) ==
  /\ apc[t] = "lock" /\ ~flag
  /\ flag' = TRUE
  /\ MoveTo(t, "test")
  /\ UNCHANGED <<arena, size, aligned, given, calls, process>>

\* Bytes skipped so that an aligned piece begins at a multiple of Align (a
\* power of two, for which the code's & (align - 1) is the remainder).
Slot(t) == IF aligned[t] /\ cur_off % Align # 0 THEN Align - (cur_off % Align) ELSE 0

\* The current block has room: allocate asks for one byte more than it needs.
Fits(t) == IF aligned[t] THEN size[t] + Slot(t) <= cur_remain ELSE cur_remain > size[t]

\* assert((align & (align - 1)) != 0): true of numbers that are no power of two.
AlignAsserted == \A k \in 0..Align : Align # 2^k

\* allocate_align with the assertion compiled in: it fails with the lock held.
AssertFails(t) == apc[t] = "test" /\ aligned[t] /\ ~ndebug /\ ~AlignAsserted

Abort(t) ==
  /\ AssertFails(t)
  /\ aborted' = TRUE
  /\ UNCHANGED <<flag, arena, apc, size, aligned, given, calls, ndebug>>

Test(t) ==
  /\ apc[t] = "test" /\ ~AssertFails(t)
  /\ MoveTo(t, IF Fits(t) THEN "bump" ELSE "fallback")
  /\ UNCHANGED <<flag, arena, size, aligned, given, calls, process>>

NewPiece(t, blk, off) ==
  [blk |-> blk, off |-> off, size |-> size[t], aligned |-> aligned[t], by |-> t, no |-> calls]

Bump(t) ==
  /\ apc[t] = "bump"
  /\ given' = given \cup {NewPiece(t, cur_blk, cur_off + Slot(t))}
  /\ cur_off' = cur_off + size[t] + Slot(t)
  /\ cur_remain' = cur_remain - (size[t] + Slot(t))
  /\ MoveTo(t, "unlock")
  /\ UNCHANGED <<flag, blocks, cur_blk, size, aligned, calls, process>>

\* allocate_fallback: a large piece gets a block of its own, and the current
\* block stays.
FallbackLarge(t) ==
  /\ apc[t] = "fallback" /\ size[t] >= LARGE_SIZE
  /\ blocks' = Append(blocks, size[t])
  /\ given' = given \cup {NewPiece(t, Len(blocks) + 1, 0)}
  /\ MoveTo(t, "unlock")
  /\ UNCHANGED <<flag, cur_blk, cur_off, cur_remain, size, aligned, calls, process>>

\* Or a new block becomes the current one; the rest of the old one is lost.
FallbackNew(t) ==
  /\ apc[t] = "fallback" /\ size[t] < LARGE_SIZE
  /\ blocks' = Append(blocks, BLOCK_SIZE)
  /\ cur_blk' = Len(blocks) + 1
  /\ cur_off' = size[t]
  /\ cur_remain' = BLOCK_SIZE - size[t]
  /\ given' = given \cup {NewPiece(t, Len(blocks) + 1, 0)}
  /\ MoveTo(t, "unlock")
  /\ UNCHANGED <<flag, size, aligned, calls, process>>

\* Mutant: the lock is not released on return.
UnlockForgotten(t) ==
  /\ apc[t] = "unlock"
  /\ MoveTo(t, "idle")
  /\ UNCHANGED <<flag, arena, size, aligned, given, calls, process>>

\* ~SpinLock, on every return.
Unlock(t) ==
  /\ apc[t] = "unlock"
  /\ flag' = FALSE
  /\ MoveTo(t, "idle")
  /\ UNCHANGED <<arena, size, aligned, given, calls, process>>

\* An aborted process takes no further step.
Step(t) == /\ ~aborted
           /\ \/ Lock(t) \/ Abort(t) \/ Test(t) \/ Bump(t) \/ FallbackLarge(t)
              \/ FallbackNew(t) \/ Unlock(t)

ArenaNext ==
  \E t \in Thread :
    \/ Step(t)
    \/ ~aborted /\ \E s \in Sizes, a \in BOOLEAN : Allocate(t, s, a)

ArenaSpec == ArenaInit /\ [][ArenaNext]_arenaVars

\* Threads that spin or hold the lock keep running.
ArenaFairSpec == ArenaSpec /\ \A t \in Thread : WF_arenaVars(Step(t))

(***************************************************************************)
(* Properties.                                                             *)
(***************************************************************************)
\* Two pieces of one block do not overlap, whichever threads they went to,
\* with whatever mix of allocate, allocate_align and blocks of their own.
PiecesApart ==
  \A p, q \in given : p # q /\ p.blk = q.blk =>
    p.off + p.size <= q.off \/ q.off + q.size <= p.off

\* Every piece ends inside its block.
PiecesInside ==
  \A p \in given : p.blk \in 1..Len(blocks) /\ p.off + p.size <= blocks[p.blk]

\* What allocate_align returns is aligned, also after pieces of any size.
PiecesAligned == \A p \in given : p.aligned => p.off % Align = 0

\* Every piece of memory is its owner's alone, inside its block and aligned.
WellPlaced == PiecesApart /\ PiecesInside /\ PiecesAligned

\* The comparison that chose the current block is still true when the
\* pointer is moved: no other thread has moved it in between.
RoomIsStillThere == \A t \in Thread : apc[t] = "bump" => size[t] + Slot(t) <= cur_remain

\* While threads ask for memory the lock keeps changing hands: some call
\* returns, or the assertion of allocate_align has ended the process.  (Which
\* call is up to the spinning threads.)  With NDEBUG some call returns.
SomeCallReturns ==
  (\E t \in Thread : apc[t] # "idle")
    ~> ((aborted /\ ~ndebug) \/ \E t \in Thread : apc[t] = "unlock")

\* buffer.h:91 asserts of the alignment what is to be true of it whenever
\* allocate_align is called: no call ends the process.
AssertionHolds == ~aborted
=============================================================================
