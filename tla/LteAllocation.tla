--------------------------- MODULE LteAllocation ---------------------------
(***************************************************************************)
(* What the grants of the eNodeB rest on: how many bytes the AMC fits on   *)
(* the resource blocks of a band, and what the allocator notes of them.    *)
(*                                                                         *)
(* Code: LteAmc::computeBytesOnNRbs() and computeReqRbs(), and the main    *)
(* plane and macro antenna of LteAllocationModule (no MU-MIMO, no remote   *)
(* antennas). An allocation is the record of the blocks taken of each band *)
(* and of the blocks and bytes noted for each UE.                          *)
(***************************************************************************)
EXTENDS Naturals, SequencesExt

CONSTANTS
  Ue,            \* the UEs of the cell
  NumBands,      \* the logical bands of the deployer
  NumRb,         \* the resource blocks of the carrier
  Tbs            \* of a UE: the bytes that 1, 2, ... blocks carry at its CQI

Band == 1 .. NumBands
BlocksPerBand == NumRb \div NumBands

\* UEs are counted, and so are the blocks of all of them.
ASSUME UeAssumption == IsFiniteSet(Ue)

ASSUME BandAssumption == NumBands \in Nat \ {0} /\ NumRb \in Nat

\* A row of the transport block size table: more blocks never carry less.
ASSUME TbsAssumption ==
  /\ Tbs \in [Ue -> Seq(Nat)]
  /\ \A u \in Ue :
       /\ BlocksPerBand <= Len(Tbs[u])
       /\ \A m, n \in 1 .. Len(Tbs[u]) : m <= n => Tbs[u][m] <= Tbs[u][n]
-----------------------------------------------------------------------------
\* LteAmc::computeBytesOnNRbs(), of a UE whose CQI is not zero.
ComputeBytesOnNRbs(u, n) == IF n = 0 THEN 0 ELSE Tbs[u][n]

\* LteAmc::computeReqRbs(): the fewest blocks that carry the bytes, or one
\* more than the table has when none do.
ComputeReqRbs(u, bytes) ==
  IF bytes = 0 THEN 0
  ELSE CHOOSE n \in 1 .. Len(Tbs[u]) + 1 :
         /\ n <= Len(Tbs[u]) => Tbs[u][n] >= bytes
         /\ \A m \in 1 .. n - 1 : Tbs[u][m] < bytes
-----------------------------------------------------------------------------
Allocation ==
  [taken  : [Band -> Nat],
   blocks : [Ue -> [Band -> Nat]],
   bytes  : [Ue -> [Band -> Nat]]]

\* initAndReset(), after which the retransmissions took what they needed.
Allocated(taken) ==
  [taken  |-> taken,
   blocks |-> [u \in Ue |-> [b \in Band |-> 0]],
   bytes  |-> [u \in Ue |-> [b \in Band |-> 0]]]

\* Mutant of AvailableBlocks: the blocks taken of the band are not subtracted.
AvailableBlocksAll(a, b) == BlocksPerBand

AvailableBlocks(a, b) ==
  IF BlocksPerBand >= a.taken[b] THEN BlocksPerBand - a.taken[b] ELSE 0

ComputeTotalRbs(a) == NumRb - SumFunction(a.taken)

\* addBlocks() refuses more blocks than the band has left, and blocks for no
\* bytes.
AddBlocksFails(a, b, n, bytes) == n > AvailableBlocks(a, b) \/ bytes = 0

AddBlocks(a, u, b, n, bytes) ==
  IF AddBlocksFails(a, b, n, bytes) THEN a
  ELSE [a EXCEPT !.taken[b] = @ + n,
                 !.blocks[u][b] = @ + n,
                 !.bytes[u][b] = @ + bytes]
=============================================================================
