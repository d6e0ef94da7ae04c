--------------------------- MODULE XpdkBlocksProof --------------------------
(***************************************************************************)
(* The block arithmetic of the handlers, for every block size, width and   *)
(* request, and what it and the steps of the data path make sure of: no    *)
(* copy leaves the DMA buffer, the linear buffer of a vectored call is     *)
(* freed, and a byte of the device is changed only by a request that       *)
(* touches its block.                                                      *)
(*                                                                         *)
(* What gathering and scattering do to an iov array of any length, by      *)
(* induction over its fragments.                                           *)
(*                                                                         *)
(* The refinement: every step of the data path is one of XpdkDisk, or      *)
(* leaves what XpdkDisk sees as it is.                                     *)
(***************************************************************************)
EXTENDS XpdkBlocks, WellFoundedInduction, TLAPS

\* Most leaves are first-order reasoning about sets and functions.
USE ZenonT(30)

(***************************************************************************)
(* Division rounds down to a multiple: what (count + block_size - 1) /     *)
(* block_size and offset / block_size rest on.                             *)
(***************************************************************************)
LEMMA DivBounds ==
    ASSUME NEW a \in Nat, NEW b \in Nat \ {0}
    PROVE  /\ a \div b \in Nat
           /\ (a \div b) * b <= a
           /\ a < (a \div b) * b + b
  BY SMTT(30)

\* What has no remainder is a multiple.
LEMMA MultipleOf ==
    ASSUME NEW a \in Nat, NEW b \in Nat \ {0}, a % b = 0
    PROVE  a = (a \div b) * b
  BY SMTT(30)

(***************************************************************************)
(* A value below the width is not changed by storing it in a uint32_t.     *)
(***************************************************************************)
LEMMA ModSmall ==
    ASSUME NEW a \in Nat, a < Width
    PROVE  a % Width = a
  BY UnitsAssumption, SMTT(30)

(***************************************************************************)
(* Storing a value in a uint32_t never makes it larger.                    *)
(***************************************************************************)
LEMMA ModAtMost ==
    ASSUME NEW a \in Nat
    PROVE  a % Width \in Nat /\ a % Width <= a
  BY UnitsAssumption, SMTT(30)

(***************************************************************************)
(* For a request below 4 GiB neither num_blocks nor the size of the DMA    *)
(* buffer is truncated.                                                    *)
(***************************************************************************)
LEMMA NotTruncated ==
    ASSUME NEW count \in Nat, Narrow(count)
    PROVE  /\ num_blocks(count) = (count + BlockSize - 1) \div BlockSize
           /\ dma_size(count) = num_blocks(count) * BlockSize
<1> DEFINE a == count + BlockSize - 1
           q == a \div BlockSize
<1>1. a \in Nat /\ a < Width
  BY UnitsAssumption, SMTT(30) DEF Narrow
<1>2. q \in Nat /\ q * BlockSize <= a
  BY <1>1, UnitsAssumption, DivBounds
<1>3. q <= q * BlockSize /\ q * BlockSize \in Nat
  BY <1>2, UnitsAssumption, SMTT(30)
<1>4. q < Width /\ q * BlockSize < Width
  <2> HIDE DEF q, a
  <2> QED BY <1>1, <1>2, <1>3, UnitsAssumption, SMTT(30)
<1>5. q % Width = q /\ (q * BlockSize) % Width = q * BlockSize
  <2> HIDE DEF q
  <2> QED BY <1>2, <1>3, <1>4, ModSmall
<1> QED
  BY <1>5 DEF num_blocks, dma_size

(***************************************************************************)
(* The DMA buffer of num_blocks * block_size bytes holds the count bytes   *)
(* that xpdk_spdk_handle_write copies into it and xpdk_spdk_handle_read    *)
(* copies out of it, and it is less than a block larger.                   *)
(***************************************************************************)
THEOREM DmaHoldsRequest ==
    ASSUME NEW count \in Nat, Narrow(count)
    PROVE  count <= dma_size(count) /\ dma_size(count) < count + BlockSize
<1> DEFINE a == count + BlockSize - 1
           q == a \div BlockSize
<1>1. a \in Nat
  BY UnitsAssumption, SMTT(30)
<1>2. q \in Nat /\ q * BlockSize <= a /\ a < q * BlockSize + BlockSize
  BY <1>1, UnitsAssumption, DivBounds
<1>3. dma_size(count) = q * BlockSize
  BY NotTruncated
<1>4. q * BlockSize \in Nat
  BY <1>2, UnitsAssumption, SMTT(30)
<1> HIDE DEF q
<1> QED
  BY <1>2, <1>3, <1>4, UnitsAssumption, SMTT(30)

(***************************************************************************)
(* The offset is rounded down and the count up, and yet the last block is  *)
(* not beyond the one of the request's last byte.                          *)
(***************************************************************************)
LEMMA BlocksWithinBytes ==
    ASSUME NEW offset \in Nat, NEW count \in Nat \ {0}
    PROVE  (offset_blocks(offset) * BlockSize) ..
           ((offset_blocks(offset) + num_blocks(count)) * BlockSize - 1)
             \subseteq Touched(offset, count)
<1> DEFINE f == offset \div BlockSize
           q == (count + BlockSize - 1) \div BlockSize
           l == (offset + count - 1) \div BlockSize
<1>1. f \in Nat /\ f * BlockSize <= offset
  BY UnitsAssumption, DivBounds
<1>2. q \in Nat /\ q * BlockSize <= count + BlockSize - 1
  <2>1. count + BlockSize - 1 \in Nat
    BY UnitsAssumption, SMTT(30)
  <2> QED
    BY <2>1, UnitsAssumption, DivBounds
<1>3. l \in Nat /\ offset + count - 1 < l * BlockSize + BlockSize
  <2>1. offset + count - 1 \in Nat
    BY SMTT(30)
  <2> QED
    BY <2>1, UnitsAssumption, DivBounds
<1>4. num_blocks(count) \in Nat /\ num_blocks(count) <= q
  BY <1>2, ModAtMost DEF num_blocks
<1> HIDE DEF f, q, l
<1>5. (f + q) * BlockSize < (l + 2) * BlockSize
  <2>1. f * BlockSize \in Nat /\ q * BlockSize \in Nat /\ l * BlockSize \in Nat
    BY <1>1, <1>2, <1>3, UnitsAssumption, SMTT(30)
  <2>2. (f + q) * BlockSize = f * BlockSize + q * BlockSize
    BY <1>1, <1>2, UnitsAssumption, SMTT(30)
  <2>3. (l + 2) * BlockSize = l * BlockSize + BlockSize + BlockSize
    BY <1>3, UnitsAssumption, SMTT(30)
  <2> QED
    BY <1>1, <1>2, <1>3, <2>1, <2>2, <2>3, UnitsAssumption, SMTT(30)
<1>6. f + q < l + 2
  <2> SUFFICES ASSUME l + 2 <= f + q PROVE FALSE
    BY <1>1, <1>2, <1>3, SMTT(30)
  <2>1. (l + 2) * BlockSize <= (f + q) * BlockSize
    BY <1>1, <1>2, <1>3, UnitsAssumption, SMTT(30)
  <2> QED
    BY <2>1, <1>5, <1>1, <1>2, <1>3, UnitsAssumption, SMTT(30)
<1>7. (f + q) * BlockSize <= (l + 1) * BlockSize
  BY <1>6, <1>1, <1>2, <1>3, UnitsAssumption, SMTT(30)
<1>8. PICK n \in Nat : n = num_blocks(count) /\ n <= q
  BY <1>4
<1>11. (f + n) * BlockSize <= (f + q) * BlockSize
  BY <1>1, <1>2, <1>8, UnitsAssumption, SMTT(30)
<1>12. /\ (f + n) * BlockSize \in Int /\ (f + q) * BlockSize \in Int
       /\ (l + 1) * BlockSize \in Int /\ f * BlockSize \in Int
  BY <1>1, <1>2, <1>3, UnitsAssumption, SMTT(30)
<1>9. Touched(offset, count) = (f * BlockSize) .. ((l + 1) * BlockSize - 1)
  BY DEF Touched, offset_blocks, f, l
<1>10. offset_blocks(offset) = f
  BY DEF offset_blocks, f
<1> QED
  BY <1>7, <1>8, <1>9, <1>10, <1>11, <1>12, SMTT(30)

(***************************************************************************)
(* The blocks the handlers give to the bdev lie within the blocks that     *)
(* hold a byte of the request, also if offset and count are not multiples  *)
(* of the block size, the number of blocks is truncated, or there are no   *)
(* bytes: no other block is read, overwritten or discarded.                *)
(***************************************************************************)
THEOREM BlocksWithinRequest ==
    ASSUME NEW offset \in Nat, NEW count \in Nat
    PROVE  (offset_blocks(offset) * BlockSize) ..
           ((offset_blocks(offset) + num_blocks(count)) * BlockSize - 1)
             \subseteq Touched(offset, count)
<1>1. CASE count = 0
  <2>1. (BlockSize - 1) \div BlockSize = 0
    BY UnitsAssumption, SMTT(30)
  <2>2. num_blocks(count) = 0
    BY <1>1, <2>1, UnitsAssumption, SMTT(30) DEF num_blocks
  <2>3. offset_blocks(offset) \in Nat
    BY UnitsAssumption, DivBounds DEF offset_blocks
  <2>4. offset_blocks(offset) * BlockSize \in Nat
    BY <2>3, UnitsAssumption, SMTT(30)
  <2> QED
    BY <2>2, <2>3, <2>4, SMTT(30)
<1>2. CASE count # 0
  BY <1>2, BlocksWithinBytes
<1> QED
  BY <1>1, <1>2

(***************************************************************************)
(* A request whose offset and count are multiples of the block size is     *)
(* given to the bdev exactly: the bytes from offset to offset + count.     *)
(***************************************************************************)
THEOREM AlignedIsExact ==
    ASSUME NEW m \in Nat, NEW n \in Nat, Narrow(n * BlockSize)
    PROVE  /\ offset_blocks(m * BlockSize) = m
           /\ num_blocks(n * BlockSize) = n
           /\ dma_size(n * BlockSize) = n * BlockSize
<1>1. m * BlockSize \in Nat /\ n * BlockSize \in Nat
  BY UnitsAssumption, SMTT(30)
<1>2. ASSUME NEW k \in Nat, NEW r \in 0 .. BlockSize - 1
      PROVE  (k * BlockSize + r) \div BlockSize = k
  <2> DEFINE p == k * BlockSize + r
             d == p \div BlockSize
  <2>1. p \in Nat
    BY UnitsAssumption, SMTT(30)
  <2>2. d \in Nat /\ d * BlockSize <= p /\ p < d * BlockSize + BlockSize
    BY <2>1, UnitsAssumption, DivBounds
  <2> HIDE DEF d
  <2>3. ~(d + 1 <= k)
    <3> SUFFICES ASSUME d + 1 <= k PROVE FALSE
      OBVIOUS
    <3>1. (d + 1) * BlockSize <= k * BlockSize
      BY <2>2, UnitsAssumption, SMTT(30)
    <3>2. (d + 1) * BlockSize = d * BlockSize + BlockSize
      BY <2>2, UnitsAssumption, SMTT(30)
    <3> QED
      BY <3>1, <3>2, <2>2, UnitsAssumption, SMTT(30)
  <2>4. ~(k + 1 <= d)
    <3> SUFFICES ASSUME k + 1 <= d PROVE FALSE
      OBVIOUS
    <3>1. (k + 1) * BlockSize <= d * BlockSize
      BY <2>2, UnitsAssumption, SMTT(30)
    <3>2. (k + 1) * BlockSize = k * BlockSize + BlockSize
      BY UnitsAssumption, SMTT(30)
    <3> QED
      BY <3>1, <3>2, <2>2, UnitsAssumption, SMTT(30)
  <2>5. d = k
    BY <2>2, <2>3, <2>4, SMTT(30)
  <2> QED
    BY <2>5 DEF d
<1>3. offset_blocks(m * BlockSize) = m
  <2>1. m * BlockSize + 0 = m * BlockSize
    BY UnitsAssumption, SMTT(30)
  <2> QED
    BY <1>1, <1>2, <2>1, UnitsAssumption, SMTT(30) DEF offset_blocks
<1>4. (n * BlockSize + BlockSize - 1) \div BlockSize = n
  <2>1. /\ BlockSize - 1 \in 0 .. BlockSize - 1
        /\ n * BlockSize + BlockSize - 1 = n * BlockSize + (BlockSize - 1)
    BY UnitsAssumption, SMTT(30)
  <2> QED
    BY <1>1, <1>2, <2>1, UnitsAssumption
<1>5. num_blocks(n * BlockSize) = n
  BY <1>1, <1>4, NotTruncated
<1> QED
  BY <1>1, <1>3, <1>5, NotTruncated

-----------------------------------------------------------------------------
(***************************************************************************)
(* Induction over data.  A set of natural numbers has a least element, so  *)
(* a fact about all prefixes of an iov array is proved by looking at the   *)
(* shortest prefix it could fail for.                                      *)
(***************************************************************************)
LEMMA LessIsWellFounded == IsWellFoundedOn({p \in Nat \X Nat : p[1] < p[2]}, Nat)
  BY NatLessThanWellFounded DEF OpToRel

LEMMA LeastElement ==
    ASSUME NEW T, T \subseteq Nat, T # {}
    PROVE  \E n \in T : \A k \in T : n <= k
<1> DEFINE R == {p \in Nat \X Nat : p[1] < p[2]}
<1>1. PICK n \in T : \A k \in T : <<k, n>> \notin R
  <2>1. IsWellFoundedOn(R, Nat)
    BY LessIsWellFounded
  <2> HIDE DEF R
  <2> QED
    BY <2>1, WFMin
<1>2. ASSUME NEW k \in T PROVE ~(k < n)
  <2>1. <<k, n>> \in Nat \X Nat /\ <<k, n>>[1] = k /\ <<k, n>>[2] = n
    OBVIOUS
  <2> QED
    BY <1>1, <2>1
<1> QED
  BY <1>2, SMTT(30)

\* Induction over 0 .. n, for a set of numbers.
LEMMA UpToInduction ==
    ASSUME NEW n \in Nat, NEW Good, 0 \in Good,
           \A k \in 1 .. n : k - 1 \in Good => k \in Good
    PROVE  0 .. n \subseteq Good
<1> DEFINE Bad == (0 .. n) \ Good
<1> SUFFICES ASSUME Bad # {} PROVE FALSE
  OBVIOUS
<1>1. Bad \subseteq Nat
  BY SMTT(30)
<1>2. PICK k \in Bad : \A m \in Bad : k <= m
  <2> HIDE DEF Bad
  <2> QED
    BY <1>1, LeastElement
<1>3. k \in 1 .. n /\ k - 1 \in 0 .. n /\ ~(k <= k - 1)
  BY <1>2, SMTT(30)
<1> QED
  BY <1>2, <1>3

-----------------------------------------------------------------------------
\* The equation of RunningTotal has a solution on every prefix.
LEMMA TotalExists ==
    ASSUME NEW iov \in Seq(Nat), NEW n \in 0 .. Len(iov)
    PROVE  \E f : f = [i \in 0 .. n |-> IF i = 0 THEN 0 ELSE f[i - 1] + iov[i]]
<1> DEFINE Ex(k) == \E f : f = [i \in 0 .. k |-> IF i = 0 THEN 0 ELSE f[i - 1] + iov[i]]
           Good == {k \in 0 .. Len(iov) : Ex(k)}
<1>1. 0 \in Good
  <2> DEFINE f == [i \in 0 .. 0 |-> 0]
  <2>1. f = [i \in 0 .. 0 |-> IF i = 0 THEN 0 ELSE f[i - 1] + iov[i]]
    BY SMTT(30)
  <2>2. 0 \in 0 .. Len(iov)
    BY SMTT(30)
  <2> QED
    BY <2>1, <2>2
<1>2. ASSUME NEW k \in 1 .. Len(iov), k - 1 \in Good PROVE k \in Good
  <2>1. PICK f : f = [i \in 0 .. k - 1 |-> IF i = 0 THEN 0 ELSE f[i - 1] + iov[i]]
    BY <1>2
  <2> DEFINE g == [i \in 0 .. k |-> IF i = k THEN f[k - 1] + iov[k] ELSE f[i]]
  <2>2. g = [i \in 0 .. k |-> IF i = 0 THEN 0 ELSE g[i - 1] + iov[i]]
    BY <2>1, SMTT(30)
  <2>3. k \in 0 .. Len(iov)
    BY SMTT(30)
  <2> QED
    BY <2>2, <2>3
<1>3. Len(iov) \in Nat
  BY SMTT(30)
<1>4. 0 .. Len(iov) \subseteq Good
  <2> HIDE DEF Good
  <2> QED
    BY <1>1, <1>2, <1>3, UpToInduction
<1> QED
  BY <1>4

\* The loop of calculate_iovec_size, one turn at a time.
LEMMA TotalEquation ==
    ASSUME NEW iov \in Seq(Nat)
    PROVE  RunningTotal(iov) =
             [i \in 0 .. Len(iov) |-> IF i = 0 THEN 0 ELSE RunningTotal(iov)[i - 1] + iov[i]]
<1>1. Len(iov) \in 0 .. Len(iov)
  BY SMTT(30)
<1>2. \E f : f = [i \in 0 .. Len(iov) |-> IF i = 0 THEN 0 ELSE f[i - 1] + iov[i]]
  BY <1>1, TotalExists
<1>3. RunningTotal(iov) =
        CHOOSE f : f = [i \in 0 .. Len(iov) |-> IF i = 0 THEN 0 ELSE f[i - 1] + iov[i]]
  BY DEF RunningTotal
<1> QED
  BY <1>2, <1>3

LEMMA TotalSteps ==
    ASSUME NEW iov \in Seq(Nat)
    PROVE  /\ RunningTotal(iov) \in [0 .. Len(iov) -> Nat]
           /\ RunningTotal(iov)[0] = 0
           /\ \A i \in 1 .. Len(iov) : RunningTotal(iov)[i] = RunningTotal(iov)[i - 1] + iov[i]
<1> DEFINE R == RunningTotal(iov)
<1>1. R = [i \in 0 .. Len(iov) |-> IF i = 0 THEN 0 ELSE R[i - 1] + iov[i]]
  BY TotalEquation
<1> HIDE DEF R
<1>2. R[0] = 0 /\ \A i \in 1 .. Len(iov) : R[i] = R[i - 1] + iov[i]
  BY <1>1, SMTT(30)
<1>3. 0 .. Len(iov) \subseteq {i \in 0 .. Len(iov) : R[i] \in Nat}
  <2> DEFINE Good == {i \in 0 .. Len(iov) : R[i] \in Nat}
  <2>1. 0 \in Good /\ Len(iov) \in Nat
    BY <1>2, SMTT(30)
  <2>2. ASSUME NEW k \in 1 .. Len(iov), k - 1 \in Good PROVE k \in Good
    BY <1>2, <2>2, SMTT(30)
  <2> HIDE DEF Good
  <2>3. 0 .. Len(iov) \subseteq Good
    BY <2>1, <2>2, UpToInduction
  <2> QED
    BY <2>3 DEF Good
<1>4. R \in [0 .. Len(iov) -> Nat]
  BY <1>1, <1>3
<1> QED
  BY <1>2, <1>4 DEF R

(***************************************************************************)
(* The total never gets smaller: every fragment lies within the linear     *)
(* buffer that xpdk_readv and xpdk_writev allocate.                        *)
(***************************************************************************)
LEMMA TotalGrows ==
    ASSUME NEW iov \in Seq(Nat), NEW i \in 0 .. Len(iov)
    PROVE  RunningTotal(iov)[i] <= calculate_iovec_size(iov)
<1> DEFINE R == RunningTotal(iov)
           Good == {k \in 0 .. Len(iov) : i <= k => R[i] <= R[k]}
<1>1. /\ R \in [0 .. Len(iov) -> Nat]
      /\ \A k \in 1 .. Len(iov) : R[k] = R[k - 1] + iov[k]
  BY TotalSteps
<1> HIDE DEF R
<1>2. 0 \in Good /\ Len(iov) \in Nat
  BY <1>1, SMTT(30)
<1>3. ASSUME NEW k \in 1 .. Len(iov), k - 1 \in Good PROVE k \in Good
  <2>1. CASE i = k
    BY <1>1, <2>1, SMTT(30)
  <2>2. CASE i # k
    <3>1. R[i] \in Nat /\ R[k - 1] \in Nat /\ iov[k] \in Nat /\ k \in 0 .. Len(iov)
      <4>1. k - 1 \in 0 .. Len(iov) /\ k \in 0 .. Len(iov) /\ iov[k] \in Nat
        BY SMTT(30)
      <4> QED
        BY <1>1, <4>1
    <3>2. R[k] = R[k - 1] + iov[k] /\ (i <= k - 1 => R[i] <= R[k - 1])
      BY <1>1, <1>3
    <3>3. i <= k => i <= k - 1
      BY <2>2, SMTT(30)
    <3> QED
      BY <3>1, <3>2, <3>3, SMTT(30)
  <2> QED
    BY <2>1, <2>2
<1>4. 0 .. Len(iov) \subseteq Good
  <2> HIDE DEF Good
  <2> QED
    BY <1>2, <1>3, UpToInduction
<1>5. Len(iov) \in 0 .. Len(iov) /\ i <= Len(iov)
  BY SMTT(30)
<1> QED
  BY <1>4, <1>5 DEF R, calculate_iovec_size

\* The size of an iov array is a number of bytes.
LEMMA SizeType ==
    ASSUME NEW iov \in Seq(Nat)
    PROVE  calculate_iovec_size(iov) \in Nat
<1>1. Len(iov) \in 0 .. Len(iov)
  BY SMTT(30)
<1> QED
  BY <1>1, TotalSteps DEF calculate_iovec_size

-----------------------------------------------------------------------------
\* Elements of a concatenation.
LEMMA Joined ==
    ASSUME NEW V, NEW s \in Seq(V), NEW t \in Seq(V)
    PROVE  /\ s \o t \in Seq(V)
           /\ Len(s \o t) = Len(s) + Len(t)
           /\ \A k \in 1 .. Len(s) + Len(t) :
                (s \o t)[k] = IF k <= Len(s) THEN s[k] ELSE t[k - Len(s)]
  BY SMTT(30)

\* A sequence is determined by its length and its elements.
LEMMA SameSequence ==
    ASSUME NEW V, NEW s \in Seq(V), NEW f, Len(s) \in Nat,
           \A k \in 1 .. Len(s) : s[k] = f[k]
    PROVE  s = [k \in 1 .. Len(s) |-> f[k]]
  BY SMTT(30)

\* The copying loop of iovec_to_buffer over the first n fragments.
Copies(fragments, n, f) ==
    f = [i \in 0 .. n |-> IF i = 0 THEN <<>> ELSE f[i - 1] \o fragments[i]]

LEMMA CopiesExist ==
    ASSUME NEW fragments, NEW n \in Nat
    PROVE  \E f : Copies(fragments, n, f)
<1> DEFINE Good == {k \in 0 .. n : \E f : Copies(fragments, k, f)}
<1>1. 0 \in Good
  <2> DEFINE f == [i \in 0 .. 0 |-> <<>>]
  <2>1. f = [i \in 0 .. 0 |-> IF i = 0 THEN <<>> ELSE f[i - 1] \o fragments[i]]
    BY SMTT(30)
  <2>2. 0 \in 0 .. n
    BY SMTT(30)
  <2> QED
    BY <2>1, <2>2 DEF Copies
<1>2. ASSUME NEW k \in 1 .. n, k - 1 \in Good PROVE k \in Good
  <2>1. PICK f : f = [i \in 0 .. k - 1 |-> IF i = 0 THEN <<>> ELSE f[i - 1] \o fragments[i]]
    BY <1>2 DEF Copies
  <2> DEFINE g == [i \in 0 .. k |-> IF i = k THEN f[k - 1] \o fragments[k] ELSE f[i]]
  <2>2. g = [i \in 0 .. k |-> IF i = 0 THEN <<>> ELSE g[i - 1] \o fragments[i]]
    BY <2>1, SMTT(30)
  <2>3. k \in 0 .. n
    BY SMTT(30)
  <2> QED
    BY <2>2, <2>3 DEF Copies
<1>3. 0 .. n \subseteq Good
  <2> HIDE DEF Good
  <2> QED
    BY <1>1, <1>2, UpToInduction
<1>4. n \in 0 .. n
  BY SMTT(30)
<1> QED
  BY <1>3, <1>4

LEMMA CopiesEquation ==
    ASSUME NEW fragments, Len(fragments) \in Nat
    PROVE  \E f : /\ iovec_to_buffer(fragments) = f[Len(fragments)]
                  /\ f[0] = <<>>
                  /\ \A i \in 1 .. Len(fragments) : f[i] = f[i - 1] \o fragments[i]
<1> DEFINE n == Len(fragments)
           f == CHOOSE f : Copies(fragments, n, f)
<1>1. Copies(fragments, n, f)
  BY CopiesExist
<1>2. iovec_to_buffer(fragments) = f[n]
  BY DEF iovec_to_buffer, Copies
<1> HIDE DEF f
<1>3. f[0] = <<>> /\ \A i \in 1 .. n : f[i] = f[i - 1] \o fragments[i]
  <2>1. 0 \in 0 .. n /\ \A i \in 1 .. n : i \in 0 .. n /\ i # 0
    BY SMTT(30)
  <2> QED
    BY <1>1, <2>1 DEF Copies
<1> QED
  BY <1>2, <1>3

(***************************************************************************)
(* iovec_to_buffer copies the fragments one behind the other: the linear   *)
(* buffer has the total size of the iov array, and byte j of fragment i    *)
(* is at FragmentStart + j.                                                *)
(***************************************************************************)
THEOREM GatherKeepsOrder ==
    ASSUME NEW V, NEW iov \in Seq(Nat), NEW fragments \in Seq(Seq(V)),
           Len(fragments) = Len(iov),
           \A i \in 1 .. Len(iov) : Len(fragments[i]) = iov[i]
    PROVE  /\ iovec_to_buffer(fragments) \in Seq(V)
           /\ Len(iovec_to_buffer(fragments)) = calculate_iovec_size(iov)
           /\ \A i \in 1 .. Len(iov) : \A j \in 1 .. iov[i] :
                iovec_to_buffer(fragments)[FragmentStart(iov, i) + j] = fragments[i][j]
<1> DEFINE n == Len(iov)
           R == RunningTotal(iov)
<1>1. n \in Nat /\ \A i \in 1 .. n : fragments[i] \in Seq(V) /\ iov[i] \in Nat
  BY SMTT(30)
<1>2. PICK f : /\ iovec_to_buffer(fragments) = f[n]
               /\ f[0] = <<>>
               /\ \A i \in 1 .. n : f[i] = f[i - 1] \o fragments[i]
  <2>1. Len(fragments) \in Nat
    BY SMTT(30)
  <2>2. \E f : /\ iovec_to_buffer(fragments) = f[Len(fragments)]
               /\ f[0] = <<>>
               /\ \A i \in 1 .. Len(fragments) : f[i] = f[i - 1] \o fragments[i]
    BY <2>1, CopiesEquation
  <2> QED
    BY <2>2
<1>3. /\ R \in [0 .. n -> Nat] /\ R[0] = 0
      /\ \A i \in 1 .. n : R[i] = R[i - 1] + iov[i]
  BY TotalSteps
<1> DEFINE Placed(k) == \A i \in 1 .. k : \A j \in 1 .. iov[i] :
                          f[k][R[i - 1] + j] = fragments[i][j]
           Good == {k \in 0 .. n : /\ f[k] \in Seq(V) /\ Len(f[k]) = R[k]
                                   /\ \A i \in 1 .. k : R[i] <= R[k]
                                   /\ Placed(k)}
<1> HIDE DEF R, n
<1>4. 0 \in Good
  <2>1. <<>> \in Seq(V) /\ Len(<<>>) = 0 /\ 0 \in 0 .. n /\ 1 .. 0 = {}
    BY <1>1, SMTT(30)
  <2> QED
    BY <1>2, <1>3, <2>1
<1>5. ASSUME NEW k \in 1 .. n, k - 1 \in Good PROVE k \in Good
  <2>1. /\ k - 1 \in 0 .. n /\ k \in 0 .. n
        /\ R[k - 1] \in Nat /\ R[k] = R[k - 1] + iov[k] /\ iov[k] \in Nat
    BY <1>1, <1>3, SMTT(30)
  <2>2. /\ f[k - 1] \in Seq(V) /\ Len(f[k - 1]) = R[k - 1]
        /\ fragments[k] \in Seq(V) /\ Len(fragments[k]) = iov[k]
        /\ f[k] = f[k - 1] \o fragments[k]
    BY <1>1, <1>2, <1>5 DEF n
  <2>3. /\ f[k] \in Seq(V) /\ Len(f[k]) = R[k]
        /\ \A x \in 1 .. R[k] :
             f[k][x] = IF x <= R[k - 1] THEN f[k - 1][x] ELSE fragments[k][x - R[k - 1]]
    <3>1. PICK s \in Seq(V), t \in Seq(V) : s = f[k - 1] /\ t = fragments[k]
      BY <2>2
    <3>2. s \o t \in Seq(V) /\ Len(s \o t) = Len(s) + Len(t)
      BY Joined
    <3>3. \A x \in 1 .. Len(s) + Len(t) :
            (s \o t)[x] = IF x <= Len(s) THEN s[x] ELSE t[x - Len(s)]
      BY Joined
    <3>4. s \o t = f[k] /\ Len(s) = R[k - 1] /\ Len(t) = iov[k] /\ Len(s) + Len(t) = R[k]
      BY <2>1, <2>2, <3>1
    <3> QED
      BY <3>1, <3>2, <3>3, <3>4
  <2>4. ASSUME NEW i \in 1 .. k PROVE R[i] <= R[k]
    <3>1. CASE i = k
      BY <2>1, <3>1, SMTT(30)
    <3>2. CASE i # k
      <4>1. i \in 1 .. k - 1 /\ i \in 0 .. n
        BY <3>2, <1>1, SMTT(30)
      <4>2. R[i] <= R[k - 1] /\ R[i] \in Nat
        BY <1>3, <1>5, <4>1
      <4> QED
        BY <2>1, <4>2, SMTT(30)
    <3> QED
      BY <3>1, <3>2
  <2>5. ASSUME NEW i \in 1 .. k, NEW j \in 1 .. iov[i]
        PROVE  f[k][R[i - 1] + j] = fragments[i][j]
    <3>1. i \in 1 .. n /\ i - 1 \in 0 .. n
      BY <1>1, SMTT(30)
    <3>2. /\ R[i - 1] \in Nat /\ R[i] \in Nat /\ iov[i] \in Nat
          /\ R[i] = R[i - 1] + iov[i] /\ R[i] <= R[k] /\ R[k] \in Nat
      <4>1. i \in 0 .. n
        BY <3>1, <1>1, SMTT(30)
      <4> QED
        BY <1>1, <1>3, <2>1, <2>4, <3>1, <4>1
    <3>3. R[i - 1] + j \in 1 .. R[k] /\ R[i - 1] + j <= R[i]
      BY <3>2, SMTT(30)
    <3>4. CASE i = k
      <4>1. ~(R[k - 1] + j <= R[k - 1]) /\ (R[k - 1] + j) - R[k - 1] = j
        BY <3>2, <3>4, SMTT(30)
      <4> QED
        BY <2>3, <3>3, <3>4, <4>1
    <3>5. CASE i # k
      <4>1. i \in 1 .. k - 1
        BY <3>5, <1>1, SMTT(30)
      <4>2. f[k - 1][R[i - 1] + j] = fragments[i][j] /\ R[i] <= R[k - 1]
        BY <1>5, <4>1
      <4>3. R[i - 1] + j <= R[k - 1]
        BY <2>1, <3>2, <4>2, SMTT(30)
      <4> QED
        BY <2>3, <3>3, <4>2, <4>3
    <3> QED
      BY <3>4, <3>5
  <2> QED
    BY <2>1, <2>3, <2>4, <2>5
<1>6. n \in Good
  <2>1. n \in 0 .. n
    BY <1>1, SMTT(30)
  <2>2. 0 .. n \subseteq Good
    <3> HIDE DEF Good
    <3> QED
      BY <1>1, <1>4, <1>5, UpToInduction
  <2> QED
    BY <2>1, <2>2
<1>7. calculate_iovec_size(iov) = R[n] /\ \A i \in 1 .. n : FragmentStart(iov, i) = R[i - 1]
  BY DEF R, n, calculate_iovec_size, FragmentStart
<1>8. /\ f[n] \in Seq(V) /\ Len(f[n]) = R[n]
      /\ \A i \in 1 .. n : \A j \in 1 .. iov[i] : f[n][R[i - 1] + j] = fragments[i][j]
  BY <1>6
<1>9. \A i \in 1 .. n : \A j \in 1 .. iov[i] :
        f[n][FragmentStart(iov, i) + j] = fragments[i][j]
  BY <1>7, <1>8
<1> QED
  BY <1>2, <1>7, <1>8, <1>9 DEF n

\* Every byte of the linear buffer belongs to a fragment.
LEMMA BytePlace ==
    ASSUME NEW iov \in Seq(Nat), NEW k \in 1 .. calculate_iovec_size(iov)
    PROVE  \E i \in 1 .. Len(iov) : \E j \in 1 .. iov[i] : k = FragmentStart(iov, i) + j
<1> DEFINE R == RunningTotal(iov)
           n == Len(iov)
           Reached == {i \in 0 .. n : k <= R[i]}
<1>1. /\ R \in [0 .. n -> Nat] /\ R[0] = 0
      /\ \A i \in 1 .. n : R[i] = R[i - 1] + iov[i]
  BY TotalSteps
<1>2. n \in Nat /\ n \in 0 .. n /\ Reached \subseteq Nat /\ k \in Int
  BY SizeType, SMTT(30)
<1>3. n \in Reached
  <2>1. k <= calculate_iovec_size(iov)
    BY SizeType, SMTT(30)
  <2> QED
    BY <1>2, <2>1 DEF calculate_iovec_size
<1>4. PICK i \in Reached : \A m \in Reached : i <= m
  <2> HIDE DEF Reached
  <2> QED
    BY <1>2, <1>3, LeastElement
<1> HIDE DEF R, n
<1>5. i \in 1 .. n /\ i - 1 \in 0 .. n /\ ~(i <= i - 1)
  <2>1. ~(k <= 0)
    BY SizeType, SMTT(30)
  <2>2. i # 0
    BY <1>1, <1>4, <2>1
  <2>3. i \in 0 .. n
    BY <1>4
  <2> QED
    BY <1>2, <2>2, <2>3, SMTT(30)
<1>6. ~(k <= R[i - 1]) /\ k <= R[i]
  BY <1>4, <1>5
<1>7. R[i] = R[i - 1] + iov[i] /\ R[i] \in Nat /\ R[i - 1] \in Nat /\ iov[i] \in Nat
  <2>1. iov[i] \in Nat
    BY <1>5, SMTT(30) DEF n
  <2>2. i \in 0 .. n
    BY <1>4
  <2> QED
    BY <1>1, <1>5, <2>1, <2>2
<1>8. k - R[i - 1] \in 1 .. iov[i] /\ k = R[i - 1] + (k - R[i - 1])
  BY <1>2, <1>6, <1>7, SMTT(30)
<1>9. FragmentStart(iov, i) = R[i - 1]
  BY DEF FragmentStart, R
<1> QED
  BY <1>5, <1>8, <1>9 DEF n

\* A fragment lies within the linear buffer.
LEMMA FragmentInside ==
    ASSUME NEW iov \in Seq(Nat), NEW i \in 1 .. Len(iov), NEW j \in 1 .. iov[i]
    PROVE  FragmentStart(iov, i) + j \in 1 .. calculate_iovec_size(iov)
<1> DEFINE R == RunningTotal(iov)
<1>1. i \in 0 .. Len(iov) /\ i - 1 \in 0 .. Len(iov) /\ iov[i] \in Nat
  BY SMTT(30)
<1>2. /\ R[i] \in Nat /\ R[i - 1] \in Nat /\ R[i] = R[i - 1] + iov[i]
      /\ R[i] <= calculate_iovec_size(iov) /\ calculate_iovec_size(iov) \in Nat
  BY <1>1, TotalSteps, TotalGrows, SizeType
<1> HIDE DEF R
<1>3. R[i - 1] + j \in 1 .. calculate_iovec_size(iov)
  BY <1>1, <1>2, SMTT(30)
<1> QED
  BY <1>3 DEF R, FragmentStart

(***************************************************************************)
(* Scattering a linear buffer over the fragments of an iov array and       *)
(* gathering them again gives the buffer back: xpdk_readv loses, repeats   *)
(* or reorders no byte, for any number and sizes of fragments, empty ones  *)
(* included.                                                               *)
(***************************************************************************)
THEOREM ScatterGather ==
    ASSUME NEW iov \in Seq(Nat), NEW linear,
           linear = [k \in 1 .. calculate_iovec_size(iov) |-> linear[k]]
    PROVE  iovec_to_buffer(buffer_to_iovec(linear, iov)) = linear
<1> DEFINE n == calculate_iovec_size(iov)
           V == {linear[k] : k \in 1 .. n}
           frags == buffer_to_iovec(linear, iov)
           R == RunningTotal(iov)
<1>1. n \in Nat /\ Len(iov) \in Nat /\ DOMAIN iov = 1 .. Len(iov) /\ DOMAIN linear = 1 .. n
  <2>1. DOMAIN linear = 1 .. n
    OBVIOUS
  <2> QED
    BY <2>1, SizeType, SMTT(30)
<1>2. ASSUME NEW i \in 1 .. Len(iov)
      PROVE  frags[i] = [j \in 1 .. iov[i] |-> linear[FragmentStart(iov, i) + j]]
  <2>1. \A j \in 1 .. iov[i] : FragmentStart(iov, i) + j \in DOMAIN linear
    BY <1>1, FragmentInside
  <2>2. frags[i] = [j \in 1 .. iov[i] |-> IF FragmentStart(iov, i) + j \in DOMAIN linear
                                         THEN linear[FragmentStart(iov, i) + j] ELSE Junk]
    BY <1>1 DEF buffer_to_iovec
  <2> QED
    BY <2>1, <2>2
<1>3. frags = [i \in 1 .. Len(iov) |-> frags[i]]
  BY <1>1 DEF buffer_to_iovec
<1>4. ASSUME NEW i \in 1 .. Len(iov)
      PROVE  frags[i] \in Seq(V) /\ Len(frags[i]) = iov[i]
  <2>1. \A j \in 1 .. iov[i] : linear[FragmentStart(iov, i) + j] \in V
    BY FragmentInside
  <2>2. frags[i] \in [1 .. iov[i] -> V]
    BY <1>2, <2>1
  <2>3. iov[i] \in Nat
    BY SMTT(30)
  <2> HIDE DEF frags, V
  <2> QED
    BY <2>2, <2>3, SMTT(30)
<1> HIDE DEF frags, V
<1>5. frags \in Seq(Seq(V)) /\ Len(frags) = Len(iov)
  BY <1>1, <1>3, <1>4, SMTT(30)
<1>6. /\ iovec_to_buffer(frags) \in Seq(V)
      /\ Len(iovec_to_buffer(frags)) = n
      /\ \A i \in 1 .. Len(iov) : \A j \in 1 .. iov[i] :
           iovec_to_buffer(frags)[FragmentStart(iov, i) + j] = frags[i][j]
  BY <1>4, <1>5, GatherKeepsOrder
<1>7. ASSUME NEW k \in 1 .. n PROVE iovec_to_buffer(frags)[k] = linear[k]
  <2>1. PICK i \in 1 .. Len(iov) : \E j \in 1 .. iov[i] : k = FragmentStart(iov, i) + j
    BY BytePlace
  <2>2. PICK j \in 1 .. iov[i] : k = FragmentStart(iov, i) + j
    BY <2>1
  <2>3. iovec_to_buffer(frags)[k] = frags[i][j]
    BY <1>6, <2>2
  <2> QED
    BY <1>2, <2>2, <2>3
<1>8. iovec_to_buffer(frags) = [k \in 1 .. n |-> linear[k]]
  <2> DEFINE s == iovec_to_buffer(frags)
  <2> HIDE DEF s
  <2>1. s = [k \in 1 .. Len(s) |-> linear[k]]
    BY <1>1, <1>6, <1>7, SameSequence DEF s
  <2> QED
    BY <2>1, <1>6 DEF s
<1> QED
  BY <1>8 DEF frags

-----------------------------------------------------------------------------
\* What BlocksInv says of a client with these values.
WriteInv(p, q, m, t, b) ==
    /\ p = "sent" => (IF Vectored(q) THEN t ELSE iovec_to_buffer(m)) = iovec_to_buffer(Payload(q))
    /\ p = "submitted" =>
         /\ ~(dma_size(q.count) < q.count)
         /\ \A i \in 1 .. q.count : b[i] = iovec_to_buffer(Payload(q))[i]

ReadInv(p, q, t, b) ==
    /\ p \in {"submitted", "done", "completed"} => b = NoBuffer
    /\ p \in {"done", "completed"} /\ Vectored(q) => t = [i \in 1 .. q.count |-> t[i]]

BufferInv(p, q, t, b, o, l) ==
    /\ l # NoBuffer => l.off \in Nat /\ l.count \in Nat
    /\ p = "idle" => t = NoBuffer
    /\ p \in {"idle", "sent", "rejected", "returned"} => b = NoBuffer
    /\ p = "completed" /\ b # NoBuffer => q.kind = "READ"
    /\ p = "rejected" => ~o
    /\ p = "sent" /\ q.kind \in Discards => l = NoBuffer
    /\ p = "overrun" => ~Narrow(q.count)
    /\ p = "returned" /\ t # NoBuffer => ~o /\ q.async

Places == {"idle", "sent", "submitted", "done", "completed", "returned", "rejected", "lost",
           "overrun", "astray"}

Sized(q) == q \in RequestType /\ q.count = calculate_iovec_size(q.iov)

ClientInv(p, q, m, t, b, o, l) ==
    /\ p \in Places
    /\ Sized(q)
    /\ BufferInv(p, q, t, b, o, l)
    /\ q.kind = "WRITE" => WriteInv(p, q, m, t, b)
    /\ q.kind = "READ" /\ Sure(q) => ReadInv(p, q, t, b)

Shape ==
    /\ disk = [x \in 0 .. Size - 1 |-> disk[x]]
    /\ pc = [c \in Clients |-> pc[c]]
    /\ req = [c \in Clients |-> req[c]]
    /\ mem = [c \in Clients |-> mem[c]]
    /\ temp = [c \in Clients |-> temp[c]]
    /\ buffer = [c \in Clients |-> buffer[c]]
    /\ ok = [c \in Clients |-> ok[c]]
    /\ late = [c \in Clients |-> late[c]]

ByClient ==
    /\ Shape
    /\ \A c \in Clients :
         ClientInv(pc[c], req[c], mem[c], temp[c], buffer[c], ok[c], late[c])

\* The invariant, one client at a time.
LEMMA InvByClient == BlocksInv <=> ByClient
<1>1. ASSUME BlocksInv PROVE ByClient
  <2>1. Shape
    BY <1>1 DEF BlocksInv, BlocksShape, Shape
  <2>2. ASSUME NEW c \in Clients
        PROVE  ClientInv(pc[c], req[c], mem[c], temp[c], buffer[c], ok[c], late[c])
    <3>1. pc[c] \in Places /\ Sized(req[c])
      BY <1>1 DEF BlocksInv, BlocksShape, Places, Sized, Count
    <3>2. BufferInv(pc[c], req[c], temp[c], buffer[c], ok[c], late[c])
      BY <1>1 DEF BlocksInv, NoOverrunBelow4GiB, LinearBufferFreed, Count, BufferInv
    <3>3. req[c].kind = "WRITE" => WriteInv(pc[c], req[c], mem[c], temp[c], buffer[c])
      BY <1>1 DEF BlocksInv, WriteCarried, Source, TooSmall, Count, WriteInv
    <3>4. req[c].kind = "READ" /\ Sure(req[c]) =>
            ReadInv(pc[c], req[c], temp[c], buffer[c])
      BY <1>1 DEF BlocksInv, SureReadDirect, Count, ReadInv
    <3> QED
      BY <3>1, <3>2, <3>3, <3>4 DEF ClientInv
  <2> QED
    BY <2>1, <2>2 DEF ByClient
<1>2. ASSUME ByClient PROVE BlocksInv
  <2>1. BlocksShape
    BY <1>2 DEF BlocksShape, ByClient, Shape, ClientInv, Places, Sized
  <2>2. ASSUME NEW c \in Clients
        PROVE  /\ BufferInv(pc[c], req[c], temp[c], buffer[c], ok[c], late[c])
               /\ Count(c) = calculate_iovec_size(req[c].iov)
               /\ req[c].kind = "WRITE" => WriteCarried(c)
               /\ req[c].kind = "READ" /\ Sure(req[c]) => SureReadDirect(c)
    <3>1. ClientInv(pc[c], req[c], mem[c], temp[c], buffer[c], ok[c], late[c])
      BY <1>2 DEF ByClient
    <3>2. req[c].kind = "WRITE" => WriteCarried(c)
      BY <3>1 DEF ClientInv, WriteCarried, Source, TooSmall, Count, WriteInv
    <3>3. req[c].kind = "READ" /\ Sure(req[c]) => SureReadDirect(c)
      BY <3>1 DEF ClientInv, SureReadDirect, Count, ReadInv
    <3> QED
      BY <3>1, <3>2, <3>3 DEF ClientInv, Sized, Count
  <2> QED
    BY <2>1, <2>2 DEF BlocksInv, NoOverrunBelow4GiB, LinearBufferFreed, Count, BufferInv
<1> QED
  BY <1>1, <1>2

(***************************************************************************)
(* A step of one client changes the others' part of the invariant not.     *)
(***************************************************************************)
LEMMA OneClient ==
    ASSUME BlocksInv, NEW c \in Clients,
           NEW p, NEW q, NEW m, NEW t, NEW b, NEW o, NEW l,
           pc' = [pc EXCEPT ![c] = p], req' = [req EXCEPT ![c] = q],
           mem' = [mem EXCEPT ![c] = m], temp' = [temp EXCEPT ![c] = t],
           buffer' = [buffer EXCEPT ![c] = b], ok' = [ok EXCEPT ![c] = o],
           late' = [late EXCEPT ![c] = l],
           disk' = [x \in 0 .. Size - 1 |-> disk'[x]],
           ClientInv(p, q, m, t, b, o, l)
    PROVE  BlocksInv'
<1>1. Shape /\ \A d \in Clients :
                 ClientInv(pc[d], req[d], mem[d], temp[d], buffer[d], ok[d], late[d])
  BY InvByClient DEF ByClient
<1>2. Shape'
  BY <1>1 DEF Shape
<1>3. ASSUME NEW d \in Clients
      PROVE  ClientInv(pc[d], req[d], mem[d], temp[d], buffer[d], ok[d], late[d])'
  <2>1. CASE d = c
    <3>1. /\ pc'[d] = p /\ req'[d] = q /\ mem'[d] = m /\ temp'[d] = t /\ buffer'[d] = b
          /\ ok'[d] = o /\ late'[d] = l
      BY <1>1, <2>1 DEF Shape
    <3> QED
      BY <3>1
  <2>2. CASE d # c
    <3>1. /\ pc'[d] = pc[d] /\ req'[d] = req[d] /\ mem'[d] = mem[d] /\ temp'[d] = temp[d]
          /\ buffer'[d] = buffer[d] /\ ok'[d] = ok[d] /\ late'[d] = late[d]
      BY <1>1, <2>2 DEF Shape
    <3> QED
      BY <1>1, <3>1
  <2> QED
    BY <2>1, <2>2
<1>4. ByClient'
  BY <1>2, <1>3 DEF ByClient
<1> QED
  BY <1>4, InvByClient, PTL

(***************************************************************************)
(* The same, read the other way: the invariant of the client that moves,   *)
(* and what it leaves alone written as an update.                          *)
(***************************************************************************)
LEMMA Unmoved ==
    ASSUME BlocksInv, NEW c \in Clients
    PROVE  /\ ClientInv(pc[c], req[c], mem[c], temp[c], buffer[c], ok[c], late[c])
           /\ pc = [pc EXCEPT ![c] = pc[c]] /\ req = [req EXCEPT ![c] = req[c]]
           /\ mem = [mem EXCEPT ![c] = mem[c]] /\ temp = [temp EXCEPT ![c] = temp[c]]
           /\ buffer = [buffer EXCEPT ![c] = buffer[c]]
           /\ ok = [ok EXCEPT ![c] = ok[c]] /\ late = [late EXCEPT ![c] = late[c]]
           /\ disk = [x \in 0 .. Size - 1 |-> disk[x]]
           /\ DOMAIN pc = Clients /\ DOMAIN late = Clients
<1>1. Shape /\ ClientInv(pc[c], req[c], mem[c], temp[c], buffer[c], ok[c], late[c])
  BY InvByClient DEF ByClient
<1> QED
  BY <1>1 DEF Shape

\* A client without a call.
LEMMA IdleSized == Sized(Idle)
<1>1. <<>> \in Seq(Nat) /\ Len(<<>>) = 0
  BY SMTT(30)
<1>2. calculate_iovec_size(<<>>) = 0
  BY <1>1, TotalSteps DEF calculate_iovec_size
<1>3. 0 \in Nat
  BY SMTT(30)
<1> QED
  BY <1>1, <1>2, <1>3 DEF Sized, Idle, RequestType, Discards

\* The request in a message is the caller's, with the total size.
LEMMA RequestSized ==
    ASSUME NEW r \in Requests
    PROVE  /\ Sized(Request(r))
           /\ Request(r).kind = r.kind /\ Request(r).async = r.async
           /\ Vectored(Request(r)) = Vectored(r) /\ Payload(Request(r)) = Payload(r)
<1>1. r \in [kind : {"READ", "WRITE"} \cup Discards, async : BOOLEAN, off : Nat,
             iov : Seq(Nat), aligned : BOOLEAN]
  BY BlocksAssumption
<1>2. calculate_iovec_size(r.iov) \in Nat
  BY <1>1, SizeType
<1> QED
  BY <1>1, <1>2 DEF Request, Sized, RequestType, Vectored, Payload

\* A vectored write has gathered its fragments; a refused call has no linear buffer, or
\* is an asynchronous vectored one.
LEMMA CallBlocks ==
    ASSUME BlocksInv, NEW c \in Clients, NEW r \in Requests, Call(c, r)
    PROVE  BlocksInv'
<1>1. /\ Sized(Request(r))
      /\ Request(r).kind = r.kind /\ Request(r).async = r.async
      /\ Vectored(Request(r)) = Vectored(r) /\ Payload(Request(r)) = Payload(r)
  BY RequestSized
<1>2. PICK q : q = Request(r) /\ req' = [req EXCEPT ![c] = q]
  BY DEF Call
<1>3. PICK m : /\ mem' = [mem EXCEPT ![c] = m]
               /\ r.kind = "WRITE" => m = Payload(r)
  BY DEF Call
<1>4. /\ pc[c] = "idle" /\ late' = [late EXCEPT ![c] = late[c]]
      /\ buffer' = [buffer EXCEPT ![c] = buffer[c]]
      /\ disk' = [x \in 0 .. Size - 1 |-> disk'[x]]
      /\ r.kind \in Discards => late[c] = NoBuffer
  BY Unmoved DEF Call
<1>5. /\ temp[c] = NoBuffer /\ buffer[c] = NoBuffer
      /\ late[c] # NoBuffer => late[c].off \in Nat /\ late[c].count \in Nat
  BY <1>4, Unmoved DEF ClientInv, BufferInv
<1>6. CASE /\ Goto(c, "sent") /\ ok' = ok
           /\ temp' = [temp EXCEPT ![c] = IF Vectored(r) THEN Linear(r) ELSE NoBuffer]
  <2> DEFINE t == IF Vectored(r) THEN Linear(r) ELSE NoBuffer
  <2>1. q.kind = "WRITE" => WriteInv("sent", q, m, t, buffer[c])
    BY <1>1, <1>2, <1>3 DEF WriteInv, Linear
  <2>2. BufferInv("sent", q, t, buffer[c], ok[c], late[c])
    BY <1>1, <1>2, <1>4, <1>5 DEF BufferInv
  <2> HIDE DEF t
  <2>3. ClientInv("sent", q, m, t, buffer[c], ok[c], late[c])
    BY <1>1, <1>2, <2>1, <2>2 DEF ClientInv, ReadInv, Places
  <2>4. /\ pc' = [pc EXCEPT ![c] = "sent"] /\ ok' = [ok EXCEPT ![c] = ok[c]]
        /\ temp' = [temp EXCEPT ![c] = t]
    BY <1>6, Unmoved DEF Goto, t
  <2> QED
    BY <1>2, <1>3, <1>4, <2>3, <2>4, OneClient
<1>7. CASE Goto(c, "returned") /\ ok' = [ok EXCEPT ![c] = FALSE]
  <2>1. PICK t : temp' = [temp EXCEPT ![c] = t] /\ (t # NoBuffer => r.async)
    <3>1. CASE temp' = [temp EXCEPT ![c] = IF Vectored(r) /\ r.async THEN Linear(r) ELSE NoBuffer]
      BY <3>1
    <3>2. CASE temp' = temp
      BY <3>2, <1>5, Unmoved
    <3>3. pc'[c] = "returned"
      BY <1>7, Unmoved DEF Goto
    <3>4. ~Goto(c, "sent")
      BY <3>3, Unmoved DEF Goto
    <3> QED
      BY <3>1, <3>2, <3>4 DEF Call
  <2>2. BufferInv("returned", q, t, buffer[c], FALSE, late[c])
    BY <1>1, <1>2, <1>5, <2>1 DEF BufferInv
  <2>3. ClientInv("returned", q, m, t, buffer[c], FALSE, late[c])
    BY <1>1, <1>2, <2>2 DEF ClientInv, ReadInv, WriteInv, Places
  <2>4. pc' = [pc EXCEPT ![c] = "returned"]
    BY <1>7 DEF Goto
  <2> QED
    BY <1>2, <1>3, <1>4, <1>7, <2>1, <2>3, <2>4, OneClient
<1> QED
  BY <1>6, <1>7 DEF Call

\* The size of the DMA buffer is a number of bytes.
LEMMA DmaType ==
    ASSUME NEW count \in Nat
    PROVE  num_blocks(count) \in Nat /\ dma_size(count) \in Nat
<1>1. num_blocks(count) \in Nat
  <2>1. count + BlockSize - 1 \in Nat
    BY UnitsAssumption, SMTT(30)
  <2> QED
    BY <2>1, UnitsAssumption, DivBounds, ModAtMost DEF num_blocks
<1>2. num_blocks(count) * BlockSize \in Nat
  BY <1>1, UnitsAssumption, SMTT(30)
<1> QED
  BY <1>1, <1>2, ModAtMost DEF dma_size

\* An early return of a handler leaves a sender with an error, or nothing.
LEMMA RejectBlocks ==
    ASSUME BlocksInv, NEW c \in Clients, pc[c] = "sent", Reject(c),
           temp' = [temp EXCEPT ![c] = temp[c]], buffer' = [buffer EXCEPT ![c] = buffer[c]],
           late' = [late EXCEPT ![c] = late[c]], disk' = [x \in 0 .. Size - 1 |-> disk'[x]]
    PROVE  BlocksInv'
<1>1. PICK p, q, m :
        /\ pc' = [pc EXCEPT ![c] = p] /\ req' = [req EXCEPT ![c] = q]
        /\ mem' = [mem EXCEPT ![c] = m] /\ ok' = [ok EXCEPT ![c] = FALSE]
        /\ p \in {"lost", "rejected"} /\ q \in {Idle, req[c]}
  BY Unmoved DEF Reject, Goto
<1>2. ClientInv("sent", req[c], mem[c], temp[c], buffer[c], ok[c], late[c])
  BY Unmoved
<1>3. Sized(q) /\ p \in {"lost", "rejected"}
  BY <1>1, <1>2, IdleSized DEF ClientInv
<1>4. ClientInv(p, q, m, temp[c], buffer[c], FALSE, late[c])
  BY <1>2, <1>3 DEF ClientInv, BufferInv, ReadInv, WriteInv, Places
<1> QED
  BY <1>1, <1>4, OneClient

\* A handler overruns its DMA buffer only if its size was truncated.
LEMMA HandleBlocks ==
    ASSUME BlocksInv, NEW c \in Clients, Handle(c)
    PROVE  BlocksInv'
<1>1. ClientInv("sent", req[c], mem[c], temp[c], buffer[c], ok[c], late[c])
  BY Unmoved DEF Handle
<1>2. /\ pc[c] = "sent" /\ buffer[c] = NoBuffer
      /\ temp' = [temp EXCEPT ![c] = temp[c]]
      /\ disk' = [x \in 0 .. Size - 1 |-> disk'[x]]
  BY <1>1, Unmoved DEF Handle, ClientInv, BufferInv
<1>3. Count(c) \in Nat /\ Count(c) = req[c].count
  BY <1>1 DEF ClientInv, Sized, RequestType, Count
<1>4. ASSUME TooSmall(c) PROVE ~Narrow(req[c].count)
  <2> SUFFICES ASSUME Narrow(Count(c)) PROVE FALSE
    BY DEF Count
  <2>1. Count(c) <= dma_size(Count(c)) /\ dma_size(Count(c)) \in Nat
    BY <1>3, DmaHoldsRequest, DmaType
  <2> QED
    BY <1>3, <1>4, <2>1, SMTT(30) DEF TooSmall
<1>5. CASE Reject(c) /\ late' = late /\ buffer' = buffer
  <2>1. late' = [late EXCEPT ![c] = late[c]] /\ buffer' = [buffer EXCEPT ![c] = buffer[c]]
    BY <1>5, Unmoved
  <2> QED
    BY <1>2, <1>5, <2>1, RejectBlocks
\* The values of a client whose call goes on.
<1>6. ASSUME UNCHANGED <<req, mem, ok, late>>, NEW p \in {"submitted", "overrun"}, NEW b,
             pc' = [pc EXCEPT ![c] = p], buffer' = [buffer EXCEPT ![c] = b],
             p = "overrun" => TooSmall(c),
             req[c].kind = "WRITE" => WriteInv(p, req[c], mem[c], temp[c], b),
             req[c].kind = "READ" /\ Sure(req[c]) => b = NoBuffer
      PROVE  BlocksInv'
  <2>1. BufferInv(p, req[c], temp[c], b, ok[c], late[c])
    BY <1>1, <1>4, <1>6 DEF ClientInv, BufferInv
  <2>2. ClientInv(p, req[c], mem[c], temp[c], b, ok[c], late[c])
    BY <1>1, <1>6, <2>1 DEF ClientInv, ReadInv, Places
  <2>3. /\ req' = [req EXCEPT ![c] = req[c]] /\ mem' = [mem EXCEPT ![c] = mem[c]]
        /\ ok' = [ok EXCEPT ![c] = ok[c]] /\ late' = [late EXCEPT ![c] = late[c]]
        /\ pc' = [pc EXCEPT ![c] = p] /\ buffer' = [buffer EXCEPT ![c] = b]
    BY <1>6, Unmoved
  <2> QED
    BY <1>2, <2>2, <2>3, OneClient
<1>7. CASE HandleRead(c)
  <2>1. CASE /\ InRange(c) /\ ~NeedsAlignedBuffer(c) /\ Goto(c, "submitted")
             /\ UNCHANGED <<req, mem, ok, buffer, late>>
    <3>1. /\ buffer' = [buffer EXCEPT ![c] = NoBuffer]
          /\ pc' = [pc EXCEPT ![c] = "submitted"] /\ req[c].kind # "WRITE"
      BY <1>2, <1>7, <2>1, Unmoved DEF Goto, HandleRead
    <3> QED
      BY <1>6, <2>1, <3>1
  <2>2. CASE /\ NeedsAlignedBuffer(c)
             /\ Goto(c, IF TooSmall(c) THEN "overrun" ELSE "submitted")
             /\ buffer' = [buffer EXCEPT ![c] = Filled(dma_size(Count(c)), Junk)]
             /\ UNCHANGED <<req, mem, ok, late>>
    <3>1. ~Sure(req[c]) /\ req[c].kind # "WRITE"
      BY <1>7, <2>2 DEF Sure, NeedsAlignedBuffer, Count, HandleRead
    <3>2. PICK p \in {"submitted", "overrun"} :
            pc' = [pc EXCEPT ![c] = p] /\ (p = "overrun" => TooSmall(c))
      BY <2>2 DEF Goto
    <3> QED
      BY <1>6, <2>2, <3>1, <3>2
  <2> QED
    BY <1>5, <1>7, <2>1, <2>2 DEF HandleRead
<1>8. CASE HandleWrite(c)
  <2>1. CASE /\ TooSmall(c) /\ Goto(c, "overrun") /\ UNCHANGED <<req, mem, ok, buffer, late>>
    <3>1. /\ buffer' = [buffer EXCEPT ![c] = buffer[c]]
          /\ pc' = [pc EXCEPT ![c] = "overrun"] /\ req[c].kind = "WRITE"
      BY <1>8, <2>1, Unmoved DEF Goto, HandleWrite
    <3>2. WriteInv("overrun", req[c], mem[c], temp[c], buffer[c])
      BY DEF WriteInv
    <3> QED
      BY <1>6, <2>1, <3>1, <3>2
  <2>2. CASE /\ ~TooSmall(c) /\ Goto(c, "submitted")
             /\ buffer' = [buffer EXCEPT ![c] = Padded(c)]
             /\ UNCHANGED <<req, mem, ok, late>>
    <3>1. req[c].kind = "WRITE" /\ pc' = [pc EXCEPT ![c] = "submitted"]
      BY <1>8, <2>2 DEF Goto, HandleWrite
    <3>2. Source(c) = iovec_to_buffer(Payload(req[c]))
      BY <1>1, <3>1 DEF ClientInv, WriteInv, Source
    <3>3. \A i \in 1 .. Count(c) : i \in 1 .. dma_size(Count(c)) /\ i <= Count(c)
      <4>1. dma_size(Count(c)) \in Nat
        BY <1>3, DmaType
      <4> QED
        BY <1>3, <2>2, <4>1, SMTT(30) DEF TooSmall
    <3>4. \A i \in 1 .. Count(c) : Padded(c)[i] = iovec_to_buffer(Payload(req[c]))[i]
      BY <3>2, <3>3 DEF Padded
    <3>5. WriteInv("submitted", req[c], mem[c], temp[c], Padded(c))
      BY <1>3, <2>2, <3>4 DEF WriteInv, TooSmall
    <3> QED
      BY <1>6, <2>2, <3>1, <3>5
  <2> QED
    BY <1>5, <1>8, <2>1, <2>2 DEF HandleWrite
<1>9. CASE HandleDiscard(c)
  <2>1. CASE /\ Goto(c, "completed") /\ ok' = [ok EXCEPT ![c] = TRUE] /\ UNCHANGED <<req, mem>>
             /\ late' = [late EXCEPT ![c] = [off |-> req[c].off, count |-> Count(c)]]
    <3>1. PICK l : l = [off |-> req[c].off, count |-> Count(c)]
      OBVIOUS
    <3>2. /\ l.off \in Nat /\ l.count \in Nat
          /\ req[c].kind # "WRITE" /\ req[c].kind # "READ"
      BY <1>1, <1>3, <1>9, <3>1 DEF HandleDiscard, Discards, ClientInv, Sized, RequestType
    <3>3. BufferInv("completed", req[c], temp[c], buffer[c], TRUE, l)
      BY <1>2, <3>2 DEF BufferInv
    <3>4. ClientInv("completed", req[c], mem[c], temp[c], buffer[c], TRUE, l)
      BY <1>1, <3>2, <3>3 DEF ClientInv, Places
    <3>5. /\ pc' = [pc EXCEPT ![c] = "completed"] /\ req' = [req EXCEPT ![c] = req[c]]
          /\ mem' = [mem EXCEPT ![c] = mem[c]] /\ late' = [late EXCEPT ![c] = l]
          /\ buffer' = [buffer EXCEPT ![c] = buffer[c]] /\ ok' = [ok EXCEPT ![c] = TRUE]
      BY <1>9, <2>1, <3>1, Unmoved DEF Goto, HandleDiscard
    <3> QED
      BY <1>2, <3>4, <3>5, OneClient
  <2> QED
    BY <1>5, <1>9, <2>1 DEF HandleDiscard
<1> QED
  BY <1>7, <1>8, <1>9 DEF Handle

\* The blocks of a sure request are its bytes.
LEMMA SureExact ==
    ASSUME NEW q, Sized(q), Sure(q)
    PROVE  /\ offset_blocks(q.off) * BlockSize = q.off
           /\ num_blocks(q.count) * BlockSize = q.count
<1> DEFINE m == q.off \div BlockSize
           n == q.count \div BlockSize
<1>1. q.off \in Nat /\ q.count \in Nat /\ q.off % BlockSize = 0 /\ q.count % BlockSize = 0
  BY DEF Sized, RequestType, Sure
<1>2. m \in Nat /\ n \in Nat
  BY <1>1, UnitsAssumption, DivBounds
<1>3. q.off = m * BlockSize /\ q.count = n * BlockSize
  BY <1>1, UnitsAssumption, MultipleOf
<1>4. Narrow(n * BlockSize)
  BY <1>3 DEF Sure
<1> HIDE DEF m, n
<1>5. offset_blocks(m * BlockSize) = m /\ num_blocks(n * BlockSize) = n
  BY <1>2, <1>4, AlignedIsExact
<1> QED
  BY <1>3, <1>5

\* The transfer moves bytes and leaves the call in progress; a sure vectored read fills
\* its linear buffer.
LEMMA TransferBlocks ==
    ASSUME BlocksInv, NEW c \in Clients, Transfer(c)
    PROVE  BlocksInv'
<1>1. ClientInv("submitted", req[c], mem[c], temp[c], buffer[c], ok[c], late[c])
  BY Unmoved DEF Transfer
<1>2. /\ pc' = [pc EXCEPT ![c] = "done"] /\ req' = [req EXCEPT ![c] = req[c]]
      /\ ok' = [ok EXCEPT ![c] = ok[c]] /\ late' = [late EXCEPT ![c] = late[c]]
  BY Unmoved DEF Transfer, Goto
<1>3. disk' = [x \in 0 .. Size - 1 |-> disk'[x]]
  <2>1. CASE disk' = disk
    BY <2>1, Unmoved
  <2>2. CASE disk' = [x \in DOMAIN disk |->
                        IF x \in BlockRange(c) THEN buffer[c][x - FirstBlock(c) * BlockSize + 1]
                        ELSE disk[x]]
    <3>1. DOMAIN disk = 0 .. Size - 1
      BY Unmoved
    <3> QED
      BY <2>2, <3>1
  <2> QED
    BY <2>1, <2>2 DEF Transfer
<1>4. ASSUME NEW m, NEW t, NEW b,
             mem' = [mem EXCEPT ![c] = m], temp' = [temp EXCEPT ![c] = t],
             buffer' = [buffer EXCEPT ![c] = b],
             req[c].kind = "READ" /\ Sure(req[c]) => ReadInv("done", req[c], t, b)
      PROVE  BlocksInv'
  <2>1. BufferInv("done", req[c], t, b, ok[c], late[c])
    BY <1>1 DEF ClientInv, BufferInv
  <2>2. ClientInv("done", req[c], m, t, b, ok[c], late[c])
    BY <1>1, <1>4, <2>1 DEF ClientInv, WriteInv, Places
  <2> QED
    BY <1>2, <1>3, <1>4, <2>2, OneClient
<1>5. CASE req[c].kind = "WRITE" /\ UNCHANGED <<mem, temp, buffer>>
  <2>1. /\ mem' = [mem EXCEPT ![c] = mem[c]] /\ temp' = [temp EXCEPT ![c] = temp[c]]
        /\ buffer' = [buffer EXCEPT ![c] = buffer[c]] /\ req[c].kind # "READ"
    BY <1>5, Unmoved
  <2> QED
    BY <1>4, <2>1
<1>6. CASE /\ req[c].kind = "READ" /\ buffer[c] # NoBuffer /\ UNCHANGED <<mem, temp>>
           /\ buffer' = [buffer EXCEPT ![c] = Transferred(c)]
  <2>1. ~Sure(req[c])
    BY <1>1, <1>6 DEF ClientInv, ReadInv
  <2>2. mem' = [mem EXCEPT ![c] = mem[c]] /\ temp' = [temp EXCEPT ![c] = temp[c]]
    BY <1>6, Unmoved
  <2> QED
    BY <1>4, <1>6, <2>1, <2>2
<1>7. CASE /\ req[c].kind = "READ" /\ buffer[c] = NoBuffer /\ Vectored(req[c])
           /\ temp' = [temp EXCEPT ![c] = Transferred(c)] /\ UNCHANGED <<mem, buffer>>
  <2>1. ASSUME Sure(req[c]) PROVE ReadInv("done", req[c], Transferred(c), buffer[c])
    <3>1. BlockCount(c) * BlockSize = req[c].count
      BY <1>1, <2>1, SureExact DEF ClientInv, BlockCount, Count
    <3>2. Transferred(c) = [i \in 1 .. req[c].count |-> Transferred(c)[i]]
      BY <3>1 DEF Transferred
    <3> QED
      BY <1>7, <3>2 DEF ReadInv
  <2>2. mem' = [mem EXCEPT ![c] = mem[c]] /\ buffer' = [buffer EXCEPT ![c] = buffer[c]]
    BY <1>7, Unmoved
  <2> QED
    BY <1>4, <1>7, <2>1, <2>2
<1>8. CASE /\ req[c].kind = "READ" /\ buffer[c] = NoBuffer /\ ~Vectored(req[c])
           /\ mem' = [mem EXCEPT ![c] = buffer_to_iovec(Transferred(c), req[c].iov)]
           /\ UNCHANGED <<temp, buffer>>
  <2>1. ReadInv("done", req[c], temp[c], buffer[c])
    BY <1>8 DEF ReadInv
  <2>2. temp' = [temp EXCEPT ![c] = temp[c]] /\ buffer' = [buffer EXCEPT ![c] = buffer[c]]
    BY <1>8, Unmoved
  <2> QED
    BY <1>4, <1>8, <2>1, <2>2
<1> QED
  BY <1>5, <1>6, <1>7, <1>8 DEF Transfer

\* An asynchronous completion frees the linear buffer before it calls back.
LEMMA CompleteBlocks ==
    ASSUME BlocksInv, NEW c \in Clients, CompleteAsync(c) \/ CompleteSync(c)
    PROVE  BlocksInv'
<1>1. ClientInv("done", req[c], mem[c], temp[c], buffer[c], ok[c], late[c])
  BY Unmoved DEF CompleteAsync, CompleteSync
<1>2. /\ req' = [req EXCEPT ![c] = req[c]] /\ late' = [late EXCEPT ![c] = late[c]]
      /\ disk' = [x \in 0 .. Size - 1 |-> disk'[x]]
  BY Unmoved DEF CompleteAsync, CompleteSync
<1>3. CASE CompleteAsync(c)
  <2>1. PICK m, o : mem' = [mem EXCEPT ![c] = m] /\ ok' = [ok EXCEPT ![c] = o]
    BY <1>3 DEF CompleteAsync
  <2>2. /\ pc' = [pc EXCEPT ![c] = "returned"] /\ temp' = [temp EXCEPT ![c] = NoBuffer]
        /\ buffer' = [buffer EXCEPT ![c] = NoBuffer]
    BY <1>3 DEF CompleteAsync, Goto, LinearFreed
  <2>3. BufferInv("returned", req[c], NoBuffer, NoBuffer, o, late[c])
    BY <1>1 DEF ClientInv, BufferInv
  <2>4. ClientInv("returned", req[c], m, NoBuffer, NoBuffer, o, late[c])
    BY <1>1, <2>3 DEF ClientInv, WriteInv, ReadInv, Places
  <2> QED
    BY <1>2, <2>1, <2>2, <2>4, OneClient
<1>4. CASE CompleteSync(c)
  <2>1. PICK o, b : /\ ok' = [ok EXCEPT ![c] = o] /\ buffer' = [buffer EXCEPT ![c] = b]
                    /\ b = NoBuffer \/ (req[c].kind = "READ" /\ b = buffer[c])
    BY <1>4 DEF CompleteSync
  <2>2. /\ pc' = [pc EXCEPT ![c] = "completed"] /\ temp' = [temp EXCEPT ![c] = temp[c]]
        /\ mem' = [mem EXCEPT ![c] = mem[c]]
    BY <1>4, Unmoved DEF CompleteSync, Goto
  <2>3. BufferInv("completed", req[c], temp[c], b, o, late[c])
    BY <1>1, <2>1 DEF ClientInv, BufferInv
  <2>4. req[c].kind = "READ" /\ Sure(req[c]) => ReadInv("completed", req[c], temp[c], b)
    BY <1>1, <2>1 DEF ClientInv, ReadInv
  <2>5. ClientInv("completed", req[c], mem[c], temp[c], b, o, late[c])
    BY <1>1, <2>3, <2>4 DEF ClientInv, WriteInv, Places
  <2> QED
    BY <1>2, <2>1, <2>2, <2>5, OneClient
<1> QED
  BY <1>3, <1>4

\* A synchronous call frees it before it returns.
LEMMA ReturnBlocks ==
    ASSUME BlocksInv, NEW c \in Clients, Return(c) \/ Forget(c)
    PROVE  BlocksInv'
<1>1. /\ ClientInv(pc[c], req[c], mem[c], temp[c], buffer[c], ok[c], late[c])
      /\ temp' = [temp EXCEPT ![c] = NoBuffer] /\ late' = [late EXCEPT ![c] = late[c]]
      /\ buffer' = [buffer EXCEPT ![c] = buffer[c]]
      /\ disk' = [x \in 0 .. Size - 1 |-> disk'[x]]
  BY Unmoved DEF Return, Forget, LinearFreed
<1>2. PICK p \in {"returned", "astray", "idle"} :
        pc' = [pc EXCEPT ![c] = p] /\ (p # "astray" => buffer[c] = NoBuffer)
  BY <1>1 DEF Return, Forget, Goto, ClientInv, BufferInv
<1>3. PICK q : req' = [req EXCEPT ![c] = q] /\ Sized(q)
  BY <1>1, IdleSized, Unmoved DEF Return, Forget, ClientInv
<1>4. PICK o : ok' = [ok EXCEPT ![c] = o]
  BY Unmoved, SMTT(30) DEF Return, Forget
<1>5. PICK m : mem' = [mem EXCEPT ![c] = m]
  BY DEF Return, Forget
<1>6. BufferInv(p, q, NoBuffer, buffer[c], o, late[c])
  BY <1>1, <1>2 DEF ClientInv, BufferInv
<1>7. ClientInv(p, q, m, NoBuffer, buffer[c], o, late[c])
  BY <1>2, <1>3, <1>6 DEF ClientInv, WriteInv, ReadInv, Places
<1> QED
  BY <1>1, <1>2, <1>3, <1>4, <1>5, <1>7, OneClient

\* The application uses its memory again; a vectored write has its bytes elsewhere.
LEMMA ReuseBlocks ==
    ASSUME BlocksInv, NEW c \in Clients, Reuse(c)
    PROVE  BlocksInv'
<1>1. ClientInv("sent", req[c], mem[c], temp[c], buffer[c], ok[c], late[c])
  BY Unmoved DEF Reuse
<1>2. /\ pc' = [pc EXCEPT ![c] = "sent"] /\ req' = [req EXCEPT ![c] = req[c]]
      /\ temp' = [temp EXCEPT ![c] = temp[c]] /\ buffer' = [buffer EXCEPT ![c] = buffer[c]]
      /\ ok' = [ok EXCEPT ![c] = ok[c]] /\ late' = [late EXCEPT ![c] = late[c]]
      /\ disk' = [x \in 0 .. Size - 1 |-> disk'[x]]
  BY Unmoved DEF Reuse
<1>3. PICK m : mem' = [mem EXCEPT ![c] = m]
  BY DEF Reuse
<1>4. Vectored(req[c])
  BY DEF Reuse
<1>5. ClientInv("sent", req[c], m, temp[c], buffer[c], ok[c], late[c])
  BY <1>1, <1>4 DEF ClientInv, WriteInv, ReadInv
<1> QED
  BY <1>2, <1>3, <1>5, OneClient

\* The handler copies out of a DMA buffer: the read is not a sure one.
LEMMA CopyOutBlocks ==
    ASSUME BlocksInv, NEW c \in Clients, CopyOut(c)
    PROVE  BlocksInv'
<1>1. ClientInv("completed", req[c], mem[c], temp[c], buffer[c], ok[c], late[c])
  BY Unmoved DEF CopyOut
<1>2. /\ pc' = [pc EXCEPT ![c] = "completed"] /\ req' = [req EXCEPT ![c] = req[c]]
      /\ buffer' = [buffer EXCEPT ![c] = NoBuffer]
      /\ ok' = [ok EXCEPT ![c] = ok[c]] /\ late' = [late EXCEPT ![c] = late[c]]
      /\ disk' = [x \in 0 .. Size - 1 |-> disk'[x]]
  BY Unmoved DEF CopyOut
<1>3. PICK m, t : mem' = [mem EXCEPT ![c] = m] /\ temp' = [temp EXCEPT ![c] = t]
  <2>1. CASE temp' = [temp EXCEPT ![c] = SubSeq(buffer[c], 1, Count(c))] /\ mem' = mem
    BY <2>1, Unmoved
  <2>2. CASE /\ mem' = [mem EXCEPT ![c] = buffer_to_iovec(buffer[c], req[c].iov)]
             /\ temp' = temp
    <3>1. temp' = [temp EXCEPT ![c] = temp[c]]
      BY <2>2, Unmoved
    <3> QED
      BY <2>2, <3>1
  <2> QED
    BY <2>1, <2>2 DEF CopyOut
<1>4. req[c].kind = "READ" /\ ~Sure(req[c])
  BY <1>1 DEF CopyOut, ClientInv, BufferInv, ReadInv
<1>5. BufferInv("completed", req[c], t, NoBuffer, ok[c], late[c])
  BY <1>1 DEF ClientInv, BufferInv
<1>6. ClientInv("completed", req[c], m, t, NoBuffer, ok[c], late[c])
  BY <1>1, <1>4, <1>5 DEF ClientInv
<1> QED
  BY <1>2, <1>3, <1>6, OneClient

\* The bdev does the late work of a trim or write_zeros.
LEMMA SettleBlocks ==
    ASSUME BlocksInv, NEW c \in Clients, Settle(c)
    PROVE  BlocksInv'
<1>1. ClientInv(pc[c], req[c], mem[c], temp[c], buffer[c], ok[c], late[c])
  BY Unmoved
<1>2. /\ pc' = [pc EXCEPT ![c] = pc[c]] /\ req' = [req EXCEPT ![c] = req[c]]
      /\ mem' = [mem EXCEPT ![c] = mem[c]] /\ temp' = [temp EXCEPT ![c] = temp[c]]
      /\ buffer' = [buffer EXCEPT ![c] = buffer[c]]
      /\ ok' = [ok EXCEPT ![c] = ok[c]] /\ late' = [late EXCEPT ![c] = NoBuffer]
  BY Unmoved DEF Settle
<1>3. disk' = [x \in 0 .. Size - 1 |-> disk'[x]]
  <2>1. DOMAIN disk = 0 .. Size - 1
    BY Unmoved
  <2>2. CASE disk' = disk
    BY <2>2, Unmoved
  <2>3. CASE disk' # disk
    BY <2>1, <2>3 DEF Settle
  <2> QED
    BY <2>2, <2>3
<1>4. ClientInv(pc[c], req[c], mem[c], temp[c], buffer[c], ok[c], NoBuffer)
  BY <1>1 DEF ClientInv, BufferInv
<1> QED
  BY <1>2, <1>3, <1>4, OneClient

(***************************************************************************)
(* The inductive invariant of the data path, for any clients, requests,    *)
(* block size, device and faults.                                          *)
(***************************************************************************)
THEOREM BlocksInvariant == Spec => []BlocksInv
<1>1. ASSUME Init PROVE BlocksInv
  <2>1. Shape
    BY <1>1 DEF Init, Shape
  <2>2. ASSUME NEW c \in Clients
        PROVE  ClientInv(pc[c], req[c], mem[c], temp[c], buffer[c], ok[c], late[c])
    <3>1. /\ pc[c] = "idle" /\ req[c] = Idle /\ temp[c] = NoBuffer /\ buffer[c] = NoBuffer
          /\ late[c] = NoBuffer
      BY <1>1 DEF Init
    <3>2. BufferInv("idle", Idle, NoBuffer, NoBuffer, ok[c], NoBuffer)
      BY DEF BufferInv
    <3> QED
      BY <3>1, <3>2, IdleSized DEF ClientInv, WriteInv, ReadInv, Places
  <2> QED
    BY <2>1, <2>2, InvByClient DEF ByClient
<1>2. ASSUME BlocksInv, [Next]_vars PROVE BlocksInv'
  <2>1. CASE UNCHANGED vars
    BY <1>2, <2>1
       DEF vars, BlocksInv, BlocksShape, WriteCarried, SureReadDirect, Source, TooSmall,
           NoOverrunBelow4GiB, LinearBufferFreed, Count
  <2>2. ASSUME NEW c \in Clients, NEW r \in Requests, Call(c, r) PROVE BlocksInv'
    BY <1>2, <2>2, CallBlocks
  <2>3. ASSUME NEW c \in Clients, Handle(c) PROVE BlocksInv'
    BY <1>2, <2>3, HandleBlocks
  <2>4. ASSUME NEW c \in Clients, Transfer(c) PROVE BlocksInv'
    BY <1>2, <2>4, TransferBlocks
  <2>5. ASSUME NEW c \in Clients, CompleteAsync(c) \/ CompleteSync(c) PROVE BlocksInv'
    BY <1>2, <2>5, CompleteBlocks
  <2>6. ASSUME NEW c \in Clients, Return(c) \/ Forget(c) PROVE BlocksInv'
    BY <1>2, <2>6, ReturnBlocks
  <2>7. ASSUME NEW c \in Clients, Reuse(c) \/ CopyOut(c) \/ Settle(c) PROVE BlocksInv'
    BY <1>2, <2>7, ReuseBlocks, CopyOutBlocks, SettleBlocks
  <2> QED
    BY <1>2, <2>1, <2>2, <2>3, <2>4, <2>5, <2>6, <2>7 DEF Next
<1> QED
  BY <1>1, <1>2, PTL DEF Spec

(***************************************************************************)
(* No copy or transfer leaves the handlers' DMA buffer for a request whose *)
(* rounded size is below 4 GiB.                                            *)
(***************************************************************************)
THEOREM CopiesStayInside == Spec => []NoOverrunBelow4GiB
<1>1. BlocksInv => NoOverrunBelow4GiB
  BY DEF BlocksInv
<1> QED
  BY <1>1, BlocksInvariant, PTL

(***************************************************************************)
(* xpdk_readv, xpdk_writev and the asynchronous ones free their linear     *)
(* buffer before they return or call back, unless an asynchronous call was *)
(* refused.                                                                *)
(***************************************************************************)
THEOREM LinearBuffersAreFreed == Spec => []LinearBufferFreed
<1>1. BlocksInv => LinearBufferFreed
  BY DEF BlocksInv
<1> QED
  BY <1>1, BlocksInvariant, PTL

-----------------------------------------------------------------------------
\* What OnlyItsBlocks says of a step.
DiskStep ==
    \A b \in DOMAIN disk : disk'[b] # disk[b] =>
      \E c \in Clients :
        \/ /\ pc[c] = "submitted" /\ pc'[c] = "done"
           /\ req[c].kind = "WRITE"
           /\ b \in Touched(req[c].off, Count(c))
        \/ /\ late[c] # NoBuffer /\ late'[c] = NoBuffer
           /\ b \in Touched(late[c].off, late[c].count)

\* The transfer of a write changes bytes of its own blocks only.
LEMMA TransferDisk ==
    ASSUME BlocksInv, NEW c \in Clients, Transfer(c)
    PROVE  DiskStep
<1>1. CASE disk' = disk
  BY <1>1 DEF DiskStep
<1>2. CASE /\ req[c].kind = "WRITE"
           /\ disk' = [b \in DOMAIN disk |->
                        IF b \in BlockRange(c) THEN buffer[c][b - FirstBlock(c) * BlockSize + 1]
                        ELSE disk[b]]
  <2>1. pc[c] = "submitted" /\ pc'[c] = "done"
    BY Unmoved DEF Transfer, Goto
  <2>2. req[c].off \in Nat /\ Count(c) \in Nat
    BY Unmoved DEF ClientInv, Sized, RequestType, Count
  <2>3. BlockRange(c) \subseteq Touched(req[c].off, Count(c))
    BY <2>2, BlocksWithinRequest DEF BlockRange, FirstBlock, BlockCount
  <2>4. \A b \in DOMAIN disk : disk'[b] # disk[b] => b \in BlockRange(c)
    BY <1>2
  <2> QED
    BY <1>2, <2>1, <2>3, <2>4 DEF DiskStep
<1> QED
  BY <1>1, <1>2 DEF Transfer

\* The blocks of a trim or write_zeros lie within those its bytes touch.
LEMMA DiscardWithin ==
    ASSUME NEW off \in Nat, NEW count \in Nat
    PROVE  (offset_blocks(off) * BlockSize) ..
           (offset_blocks(off) * BlockSize + num_blocks(count) * BlockSize - 1)
             \subseteq Touched(off, count)
<1> DEFINE f == offset_blocks(off)
           n == num_blocks(count)
<1>1. f \in Nat /\ n \in Nat
  BY UnitsAssumption, DivBounds, DmaType DEF offset_blocks
<1>2. (f * BlockSize) .. ((f + n) * BlockSize - 1) \subseteq Touched(off, count)
  BY BlocksWithinRequest
<1> HIDE DEF f, n
<1>3. (f + n) * BlockSize - 1 = f * BlockSize + n * BlockSize - 1
  BY <1>1, UnitsAssumption, SMTT(30)
<1> QED
  BY <1>2, <1>3 DEF f, n

\* So does what a trim or write_zeros left the bdev to do.
LEMMA SettleDisk ==
    ASSUME BlocksInv, NEW c \in Clients, Settle(c)
    PROVE  DiskStep
<1> DEFINE first == offset_blocks(late[c].off) * BlockSize
           last == first + num_blocks(late[c].count) * BlockSize - 1
<1>1. CASE disk' = disk
  BY <1>1 DEF DiskStep
<1>2. CASE disk' = [b \in DOMAIN disk |-> IF b \in first .. last THEN 0 ELSE disk[b]]
  <2>1. late[c] # NoBuffer /\ late'[c] = NoBuffer
    BY Unmoved DEF Settle
  <2>2. late[c].off \in Nat /\ late[c].count \in Nat
    BY <2>1 DEF BlocksInv
  <2>3. first .. last \subseteq Touched(late[c].off, late[c].count)
    BY <2>2, DiscardWithin
  <2>4. \A b \in DOMAIN disk : disk'[b] # disk[b] => b \in first .. last
    <3> HIDE DEF first, last
    <3> QED BY <1>2
  <2> QED
    BY <2>1, <2>3, <2>4 DEF DiskStep
<1> QED
  BY <1>1, <1>2 DEF Settle

(***************************************************************************)
(* A write, trim or write_zeros changes no byte outside the blocks its own *)
(* request touches, for any block size, width of the block count, and      *)
(* alignment, however calls interleave.                                    *)
(***************************************************************************)
THEOREM OnlyTouchedBlocksChange == Spec => OnlyItsBlocks
<1>1. ASSUME BlocksInv, [Next]_vars PROVE DiskStep
  <2>1. CASE disk' = disk
    BY <2>1 DEF DiskStep
  <2>2. ASSUME NEW c \in Clients, Transfer(c) PROVE DiskStep
    BY <1>1, <2>2, TransferDisk
  <2>3. ASSUME NEW c \in Clients, Settle(c) PROVE DiskStep
    BY <1>1, <2>3, SettleDisk
  <2> QED
    BY <1>1, <2>1, <2>2, <2>3
       DEF Next, vars, Call, Reuse, Handle, CompleteAsync, CompleteSync, CopyOut, Return,
           Forget
<1>2. BlocksInv /\ [Next]_vars => [DiskStep]_vars
  BY <1>1
<1> QED
  BY <1>2, BlocksInvariant, PTL DEF Spec, OnlyItsBlocks, DiskStep

-----------------------------------------------------------------------------
(***************************************************************************)
(* The refinement of XpdkDisk.  What XpdkDisk sees of a client, as a       *)
(* function of the client's values.                                        *)
(***************************************************************************)
StageOf(p) ==
    CASE p \in {"sent", "submitted", "rejected", "overrun"} -> "called"
      [] p \in {"done", "completed"} -> "done"
      [] p \in {"returned", "astray"} -> "returned"
      [] p \in {"idle", "lost"} -> p

AskedOf(q) == [kind |-> q.kind, off |-> q.off, count |-> q.count, sure |-> Sure(q)]

DataOf(p, q, m, t) ==
    CASE q.kind # "READ" -> iovec_to_buffer(Payload(q))
      [] q.kind = "READ" /\ (~Sure(q) \/ StageOf(p) = "called") -> <<>>
      [] q.kind = "READ" /\ Sure(q) /\ StageOf(p) = "done" ->
           IF Vectored(q) THEN t ELSE iovec_to_buffer(m)
      [] q.kind = "READ" /\ Sure(q) /\ StageOf(p) \in {"returned", "idle", "lost"} ->
           iovec_to_buffer(m)

OkOf(p, o) == StageOf(p) = "returned" => o

LEMMA SeenNow ==
    /\ [c \in Clients |-> Stage(c)] = [c \in Clients |-> StageOf(pc[c])]
    /\ [c \in Clients |-> [kind |-> req[c].kind, off |-> req[c].off, count |-> Count(c),
                           sure |-> Sure(req[c])]] = [c \in Clients |-> AskedOf(req[c])]
    /\ [c \in Clients |-> Data(c)] = [c \in Clients |-> DataOf(pc[c], req[c], mem[c], temp[c])]
    /\ [c \in Clients |-> Stage(c) = "returned" => ok[c]] = [c \in Clients |-> OkOf(pc[c], ok[c])]
<1>1. ASSUME NEW c \in Clients PROVE Stage(c) = StageOf(pc[c])
  BY DEF Stage, StageOf
<1>2. ASSUME NEW c \in Clients PROVE Data(c) = DataOf(pc[c], req[c], mem[c], temp[c])
  BY <1>1 DEF Data, DataOf, Source
<1> QED
  BY <1>1, <1>2 DEF AskedOf, OkOf, Count

\* The same, after a step.
LEMMA SeenNext ==
    /\ [c \in Clients |-> Stage(c)]' = [c \in Clients |-> StageOf(pc'[c])]
    /\ [c \in Clients |-> [kind |-> req[c].kind, off |-> req[c].off, count |-> Count(c),
                           sure |-> Sure(req[c])]]' = [c \in Clients |-> AskedOf(req'[c])]
    /\ [c \in Clients |-> Data(c)]' =
         [c \in Clients |-> DataOf(pc'[c], req'[c], mem'[c], temp'[c])]
    /\ [c \in Clients |-> Stage(c) = "returned" => ok[c]]' =
         [c \in Clients |-> OkOf(pc'[c], ok'[c])]
<1>1. ASSUME NEW c \in Clients PROVE Stage(c)' = StageOf(pc'[c])
  BY DEF Stage, StageOf
<1>2. ASSUME NEW c \in Clients PROVE Data(c)' = DataOf(pc'[c], req'[c], mem'[c], temp'[c])
  BY <1>1 DEF Data, DataOf, Source
<1> QED
  BY <1>1, <1>2 DEF AskedOf, OkOf, Count

\* c is the only client that moves.
OnlyMoves(c) ==
    \A d \in Clients \ {c} : /\ pc'[d] = pc[d] /\ req'[d] = req[d] /\ mem'[d] = mem[d]
                             /\ temp'[d] = temp[d] /\ ok'[d] = ok[d]

LEMMA MovesTo ==
    ASSUME NEW c \in Clients, OnlyMoves(c), NEW from, NEW to,
           StageOf(pc[c]) \in from, StageOf(pc'[c]) = to
    PROVE  Disk!Moves(c, from, to)
<1> DEFINE stage == [d \in Clients |-> StageOf(pc[d])]
           next == [d \in Clients |-> StageOf(pc'[d])]
<1>1. next = [stage EXCEPT ![c] = to] /\ stage[c] \in from
  BY DEF OnlyMoves
<1>2. ASSUME NEW d \in Clients \ {c}
      PROVE  /\ [x \in Clients |-> AskedOf(req'[x])][d] = [x \in Clients |-> AskedOf(req[x])][d]
             /\ [x \in Clients |-> DataOf(pc'[x], req'[x], mem'[x], temp'[x])][d] =
                  [x \in Clients |-> DataOf(pc[x], req[x], mem[x], temp[x])][d]
             /\ [x \in Clients |-> OkOf(pc'[x], ok'[x])][d] =
                  [x \in Clients |-> OkOf(pc[x], ok[x])][d]
  BY DEF OnlyMoves
<1> QED
  BY <1>1, <1>2, SeenNow, SeenNext DEF Disk!Moves

\* The values of c that XpdkDisk sees.
LEMMA SeenOf ==
    ASSUME NEW c \in Clients
    PROVE  /\ [x \in Clients |-> AskedOf(req[x])][c] = AskedOf(req[c])
           /\ [x \in Clients |-> AskedOf(req'[x])][c] = AskedOf(req'[c])
           /\ [x \in Clients |-> DataOf(pc[x], req[x], mem[x], temp[x])][c] =
                DataOf(pc[c], req[c], mem[c], temp[c])
           /\ [x \in Clients |-> DataOf(pc'[x], req'[x], mem'[x], temp'[x])][c] =
                DataOf(pc'[c], req'[c], mem'[c], temp'[c])
           /\ [x \in Clients |-> OkOf(pc'[x], ok'[x])][c] = OkOf(pc'[c], ok'[c])
           /\ AskedOf(req[c]).kind = req[c].kind /\ AskedOf(req[c]).off = req[c].off
           /\ AskedOf(req[c]).count = req[c].count /\ AskedOf(req[c]).sure = Sure(req[c])
  BY DEF AskedOf

LEMMA ProceedsTo ==
    ASSUME NEW c \in Clients, OnlyMoves(c), NEW from, NEW to,
           StageOf(pc[c]) \in from, StageOf(pc'[c]) = to, req'[c] = req[c]
    PROVE  Disk!Proceeds(c, from, to)
<1>1. Disk!Moves(c, from, to)
  BY MovesTo
<1>2. [x \in Clients |-> AskedOf(req'[x])][c] = [x \in Clients |-> AskedOf(req[x])][c]
  OBVIOUS
<1> QED
  BY <1>1, <1>2, SeenNow, SeenNext DEF Disk!Proceeds

\* Nothing that XpdkDisk sees changes.
LEMMA AsStutter ==
    ASSUME NEW c \in Clients, OnlyMoves(c), StageOf(pc'[c]) = StageOf(pc[c]), req'[c] = req[c],
           DataOf(pc'[c], req'[c], mem'[c], temp'[c]) = DataOf(pc[c], req[c], mem[c], temp[c]),
           OkOf(pc'[c], ok'[c]) = OkOf(pc[c], ok[c]), disk' = disk, late' = late
    PROVE  UNCHANGED <<disk, Disk!callVars, late>>
<1>1. ASSUME NEW d \in Clients
      PROVE  /\ StageOf(pc'[d]) = StageOf(pc[d]) /\ AskedOf(req'[d]) = AskedOf(req[d])
             /\ DataOf(pc'[d], req'[d], mem'[d], temp'[d]) = DataOf(pc[d], req[d], mem[d], temp[d])
             /\ OkOf(pc'[d], ok'[d]) = OkOf(pc[d], ok[d])
  <2>1. CASE d = c
    BY <2>1
  <2>2. CASE d # c
    BY <2>2 DEF OnlyMoves
  <2> QED
    BY <2>1, <2>2
<1>2. /\ [d \in Clients |-> StageOf(pc'[d])] = [d \in Clients |-> StageOf(pc[d])]
      /\ [d \in Clients |-> AskedOf(req'[d])] = [d \in Clients |-> AskedOf(req[d])]
      /\ [d \in Clients |-> DataOf(pc'[d], req'[d], mem'[d], temp'[d])] =
           [d \in Clients |-> DataOf(pc[d], req[d], mem[d], temp[d])]
      /\ [d \in Clients |-> OkOf(pc'[d], ok'[d])] = [d \in Clients |-> OkOf(pc[d], ok[d])]
  BY <1>1
<1> QED
  BY <1>2, SeenNow, SeenNext DEF Disk!callVars

\* A call begins, its result is used, or nobody will hear of it.
LEMMA AsMove ==
    ASSUME NEW c \in Clients, OnlyMoves(c), disk' = disk, late' = late,
           \/ StageOf(pc[c]) = "idle" /\ StageOf(pc'[c]) = "called"
           \/ StageOf(pc[c]) = "returned" /\ StageOf(pc'[c]) = "idle"
           \/ StageOf(pc[c]) = "called" /\ StageOf(pc'[c]) = "lost"
    PROVE  Disk!Next
<1>2. CASE StageOf(pc[c]) = "idle" /\ StageOf(pc'[c]) = "called"
  <2>1. Disk!Invoke(c)
    BY <1>2, MovesTo, SMTT(30) DEF Disk!Invoke
  <2> QED
    BY <2>1 DEF Disk!Next
<1>3. CASE StageOf(pc[c]) = "returned" /\ StageOf(pc'[c]) = "idle"
  <2>1. Disk!Forget(c)
    BY <1>3, MovesTo, SMTT(30) DEF Disk!Forget
  <2> QED
    BY <2>1 DEF Disk!Next
<1>4. CASE StageOf(pc[c]) = "called" /\ StageOf(pc'[c]) = "lost"
  <2>1. Disk!Lose(c)
    BY <1>4, MovesTo, SMTT(30) DEF Disk!Lose
  <2> QED
    BY <2>1 DEF Disk!Next
<1> QED
  BY <1>2, <1>3, <1>4

LEMMA AsRefuse ==
    ASSUME NEW c \in Clients, OnlyMoves(c), disk' = disk, late' = late,
           StageOf(pc[c]) = "idle", StageOf(pc'[c]) = "returned", ~ok'[c]
    PROVE  Disk!Next
<1>1. Disk!Moves(c, {"idle"}, "returned")
  BY MovesTo, SMTT(30)
<1>2. ~[x \in Clients |-> OkOf(pc'[x], ok'[x])][c]
  BY DEF OkOf
<1>3. Disk!Refuse(c)
  BY <1>1, <1>2, SeenNext DEF Disk!Refuse
<1> QED
  BY <1>3 DEF Disk!Next

LEMMA TakesEffect ==
    ASSUME NEW c \in Clients, OnlyMoves(c), StageOf(pc[c]) = "called",
           StageOf(pc'[c]) = "done", req'[c] = req[c]
    PROVE  Disk!Proceeds(c, {"called"}, "done")
  BY ProceedsTo, SMTT(30)

LEMMA AsRead ==
    ASSUME NEW c \in Clients, OnlyMoves(c), disk' = disk, late' = late,
           StageOf(pc[c]) = "called", StageOf(pc'[c]) = "done", req'[c] = req[c],
           req[c].kind = "READ",
           Sure(req[c]) => DataOf(pc'[c], req'[c], mem'[c], temp'[c]) =
                             [i \in 1 .. req[c].count |-> disk[req[c].off + i - 1]]
    PROVE  Disk!Next
<1>1. Disk!Proceeds(c, {"called"}, "done")
  BY TakesEffect
<1>2. Sure(req[c]) => DataOf(pc'[c], req'[c], mem'[c], temp'[c]) = Disk!Held(AskedOf(req[c]))
  BY SeenOf DEF Disk!Held
<1>3. Disk!ReadBytes(c)
  BY <1>1, <1>2, SeenNow, SeenNext, SeenOf DEF Disk!ReadBytes
<1> QED
  BY <1>3 DEF Disk!Next

\* XpdkDisk counts in the same units.
LEMMA SameUnits ==
    ASSUME NEW offset, NEW count
    PROVE  Disk!Touched(offset, count) = Touched(offset, count) /\
           Disk!Countable(count) = Countable(count)
  BY DEF Disk!Touched, Touched, Disk!offset_blocks, offset_blocks, Disk!Countable, Countable

LEMMA AsWrite ==
    ASSUME NEW c \in Clients, OnlyMoves(c), late' = late,
           StageOf(pc[c]) = "called", StageOf(pc'[c]) = "done", req'[c] = req[c],
           req[c].kind = "WRITE",
           \A b \in (0 .. Size - 1) \ Touched(req[c].off, req[c].count) : disk'[b] = disk[b],
           req[c].off % BlockSize = 0 =>
             \A b \in (0 .. Size - 1) \cap (req[c].off .. req[c].off + req[c].count - 1) :
               disk'[b] = iovec_to_buffer(Payload(req[c]))[b - req[c].off + 1]
    PROVE  Disk!Next
<1>1. Disk!Proceeds(c, {"called"}, "done")
  BY TakesEffect
<1>2. DataOf(pc[c], req[c], mem[c], temp[c]) = iovec_to_buffer(Payload(req[c]))
  BY DEF DataOf
<1>3. Disk!Stored(disk, disk', AskedOf(req[c]), iovec_to_buffer(Payload(req[c])))
  <2>1. AskedOf(req[c]).off = req[c].off /\ AskedOf(req[c]).count = req[c].count
    BY SeenOf
  <2>2. Disk!Touched(req[c].off, req[c].count) = Touched(req[c].off, req[c].count)
    BY SameUnits, SMTT(30)
  <2> QED
    BY <2>1, <2>2 DEF Disk!Stored, Disk!Confined, Disk!Bytes
<1>4. Disk!WriteBytes(c)
  BY <1>1, <1>2, <1>3, SeenNow, SeenOf DEF Disk!WriteBytes
<1> QED
  BY <1>4 DEF Disk!Next

LEMMA AsReturn ==
    ASSUME NEW c \in Clients, OnlyMoves(c), disk' = disk, late' = late,
           StageOf(pc[c]) = "done", StageOf(pc'[c]) = "returned", req'[c] = req[c], ok'[c],
           Sure(req[c]) => DataOf(pc'[c], req'[c], mem'[c], temp'[c]) =
                             DataOf(pc[c], req[c], mem[c], temp[c])
    PROVE  Disk!Next
<1>1. Disk!Proceeds(c, {"done"}, "returned")
  BY ProceedsTo, SMTT(30)
<1>2. [x \in Clients |-> OkOf(pc'[x], ok'[x])][c]
  BY DEF OkOf
<1>4. [x \in Clients |-> AskedOf(req[x])][c].sure =>
        [x \in Clients |-> DataOf(pc'[x], req'[x], mem'[x], temp'[x])][c] =
        [x \in Clients |-> DataOf(pc[x], req[x], mem[x], temp[x])][c]
  BY SeenOf
<1>3. Disk!Return(c)
  BY <1>1, <1>2, <1>4, SeenNow, SeenNext DEF Disk!Return
<1> QED
  BY <1>3 DEF Disk!Next

LEMMA AsFail ==
    ASSUME NEW c \in Clients, OnlyMoves(c), disk' = disk, late' = late,
           StageOf(pc[c]) \in {"called", "done"}, StageOf(pc'[c]) = "returned",
           req'[c] = req[c], ~ok'[c]
    PROVE  Disk!Next
<1>1. Disk!Proceeds(c, {"called", "done"}, "returned")
  BY ProceedsTo, SMTT(30)
<1>2. ~[x \in Clients |-> OkOf(pc'[x], ok'[x])][c]
  BY DEF OkOf
<1>3. Disk!Fail(c)
  BY <1>1, <1>2, SeenNext DEF Disk!Fail
<1> QED
  BY <1>3 DEF Disk!Next

LEMMA AsDefer ==
    ASSUME NEW c \in Clients, OnlyMoves(c), disk' = disk,
           StageOf(pc[c]) = "called", StageOf(pc'[c]) = "done", req'[c] = req[c],
           req[c].kind \in Discards, late[c] = NoBuffer,
           late' = [late EXCEPT ![c] = [off |-> req[c].off, count |-> req[c].count]]
    PROVE  Disk!Next
<1>1. Disk!Proceeds(c, {"called"}, "done")
  BY TakesEffect
<1>2. Disk!Defer(c)
  BY <1>1, SeenNow, SeenOf DEF Disk!Defer, Discards
<1> QED
  BY <1>2 DEF Disk!Next

LEMMA AsSettle ==
    ASSUME NEW c \in Clients, late[c] # NoBuffer, late' = [late EXCEPT ![c] = NoBuffer],
           UNCHANGED <<pc, req, mem, temp, buffer, ok>>,
           \/ disk' = disk
           \/ /\ \A b \in (0 .. Size - 1) \ Touched(late[c].off, late[c].count) :
                   disk'[b] = disk[b]
              /\ late[c].off % BlockSize = 0 /\ Countable(late[c].count) =>
                   \A b \in (0 .. Size - 1) \cap (late[c].off .. late[c].off + late[c].count - 1) :
                     /\ disk'[b] = 0
                     /\ b - late[c].off + 1 \in 1 .. late[c].count
    PROVE  Disk!Next
<1>1. UNCHANGED Disk!callVars
  BY SeenNow, SeenNext DEF Disk!callVars
<1>2. \/ Disk!Stored(disk, disk', late[c], Disk!Zeros(late[c].count))
      \/ Disk!Confined(disk, disk', late[c]) /\ ~Disk!Countable(late[c].count)
      \/ disk' = disk
  <2>1. ASSUME \A b \in (0 .. Size - 1) \ Touched(late[c].off, late[c].count) :
                 disk'[b] = disk[b]
        PROVE  Disk!Confined(disk, disk', late[c])
    BY <2>1, SameUnits DEF Disk!Confined, Disk!Bytes
  <2>2. Disk!Countable(late[c].count) = Countable(late[c].count)
    BY SameUnits
  <2> QED
    BY <2>1, <2>2 DEF Disk!Stored, Disk!Bytes, Disk!Zeros
<1>3. Disk!Settle(c)
  BY <1>1, <1>2 DEF Disk!Settle
<1> QED
  BY <1>3 DEF Disk!Next

-----------------------------------------------------------------------------
\* A step of the data path is one step of XpdkDisk, or none.
DiskMoves == Disk!Next \/ UNCHANGED <<disk, Disk!callVars, late>>

\* The updates of a step of c, read as its new values.
LEMMA Alone ==
    ASSUME BlocksInv, NEW c \in Clients, NEW p, NEW q, NEW m, NEW t, NEW o,
           pc' = [pc EXCEPT ![c] = p], req' = [req EXCEPT ![c] = q],
           mem' = [mem EXCEPT ![c] = m], temp' = [temp EXCEPT ![c] = t],
           ok' = [ok EXCEPT ![c] = o]
    PROVE  /\ OnlyMoves(c)
           /\ pc'[c] = p /\ req'[c] = q /\ mem'[c] = m /\ temp'[c] = t /\ ok'[c] = o
<1>1. Shape
  BY InvByClient DEF ByClient
<1> QED
  BY <1>1 DEF Shape, OnlyMoves

LEMMA Stages ==
    /\ StageOf("sent") = "called" /\ StageOf("submitted") = "called"
    /\ StageOf("rejected") = "called" /\ StageOf("overrun") = "called"
    /\ StageOf("done") = "done" /\ StageOf("completed") = "done"
    /\ StageOf("returned") = "returned" /\ StageOf("astray") = "returned"
    /\ StageOf("idle") = "idle" /\ StageOf("lost") = "lost"
  BY SMTT(30) DEF StageOf

\* Before a call takes effect its data is what it has to write.
LEMMA CalledData ==
    ASSUME NEW p, NEW q, NEW m, NEW t, StageOf(p) = "called"
    PROVE  DataOf(p, q, m, t) =
             IF q.kind = "READ" THEN <<>> ELSE iovec_to_buffer(Payload(q))
<1>1. CASE q.kind # "READ"
  BY <1>1 DEF DataOf
<1>2. CASE q.kind = "READ"
  BY <1>2 DEF DataOf
<1> QED
  BY <1>1, <1>2

\* Afterwards it is what a sure read has found.
LEMMA FoundData ==
    ASSUME NEW p, NEW q, NEW m, NEW t, q.kind = "READ"
    PROVE  /\ ~Sure(q) => DataOf(p, q, m, t) = <<>>
           /\ Sure(q) /\ StageOf(p) = "done" =>
                DataOf(p, q, m, t) = IF Vectored(q) THEN t ELSE iovec_to_buffer(m)
           /\ Sure(q) /\ StageOf(p) = "returned" =>
                DataOf(p, q, m, t) = iovec_to_buffer(m)
  BY DEF DataOf

LEMMA WrittenData ==
    ASSUME NEW p, NEW q, NEW m, NEW t, q.kind # "READ"
    PROVE  DataOf(p, q, m, t) = iovec_to_buffer(Payload(q))
  BY DEF DataOf

\* A call is invoked or refused.
LEMMA CallMoves ==
    ASSUME BlocksInv, NEW c \in Clients, NEW r \in Requests, Call(c, r)
    PROVE  DiskMoves
<1>1. PICK p, q, m, t, o :
        /\ pc' = [pc EXCEPT ![c] = p] /\ req' = [req EXCEPT ![c] = q]
        /\ mem' = [mem EXCEPT ![c] = m] /\ temp' = [temp EXCEPT ![c] = t]
        /\ ok' = [ok EXCEPT ![c] = o]
        /\ p = "sent" \/ (p = "returned" /\ o = FALSE)
  <2>1. CASE /\ Goto(c, "sent") /\ ok' = ok
             /\ temp' = [temp EXCEPT ![c] = IF Vectored(r) THEN Linear(r) ELSE NoBuffer]
    <3>1. ok' = [ok EXCEPT ![c] = ok[c]]
      BY <2>1, Unmoved
    <3> QED
      BY <2>1, <3>1 DEF Call, Goto
  <2>2. CASE /\ Goto(c, "returned") /\ ok' = [ok EXCEPT ![c] = FALSE]
             /\ temp' = [temp EXCEPT ![c] = IF Vectored(r) /\ r.async THEN Linear(r) ELSE NoBuffer]
    BY <2>2 DEF Call, Goto
  <2>3. CASE Goto(c, "returned") /\ ok' = [ok EXCEPT ![c] = FALSE] /\ temp' = temp
    <3>1. temp' = [temp EXCEPT ![c] = temp[c]]
      BY <2>3, Unmoved
    <3> QED
      BY <2>3, <3>1 DEF Call, Goto
  <2> QED
    BY <2>1, <2>2, <2>3 DEF Call
<1>2. OnlyMoves(c) /\ pc'[c] = p /\ ok'[c] = o
  BY <1>1, Alone
<1>3. pc[c] = "idle" /\ disk' = disk /\ late' = late
  BY DEF Call
<1>4. CASE p = "sent"
  BY <1>2, <1>3, <1>4, Stages, AsMove DEF DiskMoves
<1>5. CASE p = "returned" /\ o = FALSE
  BY <1>2, <1>3, <1>5, Stages, AsRefuse DEF DiskMoves
<1> QED
  BY <1>1, <1>4, <1>5

\* The application's memory is not what a vectored write stores.
LEMMA ReuseMoves ==
    ASSUME BlocksInv, NEW c \in Clients, Reuse(c)
    PROVE  DiskMoves
<1>1. /\ pc[c] = "sent" /\ pc' = [pc EXCEPT ![c] = "sent"]
      /\ req' = [req EXCEPT ![c] = req[c]] /\ temp' = [temp EXCEPT ![c] = temp[c]]
      /\ ok' = [ok EXCEPT ![c] = ok[c]]
  BY Unmoved DEF Reuse
<1>2. PICK m : mem' = [mem EXCEPT ![c] = m]
  BY DEF Reuse
<1>3. /\ OnlyMoves(c) /\ pc'[c] = "sent" /\ req'[c] = req[c] /\ mem'[c] = m
      /\ temp'[c] = temp[c] /\ ok'[c] = ok[c]
  BY <1>1, <1>2, Alone
<1>4. DataOf("sent", req[c], m, temp[c]) = DataOf("sent", req[c], mem[c], temp[c])
  BY Stages, CalledData
<1>5. disk' = disk /\ late' = late
  BY DEF Reuse
<1> QED
  BY <1>1, <1>3, <1>4, <1>5, AsStutter DEF DiskMoves

\* A handler submits, rejects or loses a call, or defers a trim or write_zeros.
LEMMA HandleMoves ==
    ASSUME BlocksInv, NEW c \in Clients, Handle(c)
    PROVE  DiskMoves
<1>1. ClientInv("sent", req[c], mem[c], temp[c], buffer[c], ok[c], late[c])
  BY Unmoved DEF Handle
<1>2. pc[c] = "sent" /\ disk' = disk /\ temp' = [temp EXCEPT ![c] = temp[c]]
  BY Unmoved DEF Handle
\* The call is neither done nor lost.
<1>3. ASSUME NEW p \in {"submitted", "overrun", "rejected"}, NEW o,
             pc' = [pc EXCEPT ![c] = p], req' = [req EXCEPT ![c] = req[c]],
             mem' = [mem EXCEPT ![c] = mem[c]], ok' = [ok EXCEPT ![c] = o], late' = late
      PROVE  DiskMoves
  <2>1. /\ OnlyMoves(c) /\ pc'[c] = p /\ req'[c] = req[c] /\ mem'[c] = mem[c]
        /\ temp'[c] = temp[c] /\ ok'[c] = o
    BY <1>2, <1>3, Alone
  <2>2. StageOf(p) = "called" /\ StageOf("sent") = "called"
    BY <1>3, Stages
  <2>3. DataOf(p, req[c], mem[c], temp[c]) = DataOf("sent", req[c], mem[c], temp[c])
    BY <2>2, CalledData
  <2>4. OkOf(p, o) = OkOf("sent", ok[c])
    BY <2>2 DEF OkOf
  <2> QED
    BY <1>2, <1>3, <2>1, <2>2, <2>3, <2>4, AsStutter DEF DiskMoves
<1>4. ASSUME UNCHANGED <<req, mem, ok, late>>, NEW p \in {"submitted", "overrun"}, Goto(c, p)
      PROVE  DiskMoves
  <2>1. /\ pc' = [pc EXCEPT ![c] = p] /\ req' = [req EXCEPT ![c] = req[c]]
        /\ mem' = [mem EXCEPT ![c] = mem[c]] /\ ok' = [ok EXCEPT ![c] = ok[c]]
        /\ late' = late /\ p \in {"submitted", "overrun", "rejected"}
    BY <1>4, Unmoved DEF Goto
  <2> QED
    BY <1>3, <2>1
<1>5. CASE Reject(c) /\ late' = late
  <2>1. CASE req[c].async
    <3>1. /\ pc' = [pc EXCEPT ![c] = "lost"] /\ req' = [req EXCEPT ![c] = Idle]
          /\ mem' = [mem EXCEPT ![c] = <<>>] /\ ok' = [ok EXCEPT ![c] = FALSE]
      BY <1>5, <2>1 DEF Reject, Goto
    <3>2. OnlyMoves(c) /\ pc'[c] = "lost"
      BY <1>2, <3>1, Alone
    <3> QED
      BY <1>2, <1>5, <3>2, Stages, AsMove DEF DiskMoves
  <2>2. CASE ~req[c].async
    <3>1. /\ pc' = [pc EXCEPT ![c] = "rejected"] /\ req' = [req EXCEPT ![c] = req[c]]
          /\ mem' = [mem EXCEPT ![c] = mem[c]] /\ ok' = [ok EXCEPT ![c] = FALSE]
      BY <1>5, <2>2 DEF Reject, Goto
    <3> QED
      BY <1>3, <1>5, <3>1
  <2> QED
    BY <2>1, <2>2
<1>6. CASE HandleRead(c)
  <2>1. CASE UNCHANGED <<req, mem, ok>> /\ Goto(c, "submitted")
    BY <1>4, <1>6, <2>1 DEF HandleRead
  <2>2. CASE UNCHANGED <<req, mem, ok>> /\ Goto(c, "overrun")
    BY <1>4, <1>6, <2>2 DEF HandleRead
  <2> QED
    BY <1>5, <1>6, <2>1, <2>2 DEF HandleRead
<1>7. CASE HandleWrite(c)
  <2>1. CASE UNCHANGED <<req, mem, ok>> /\ Goto(c, "submitted")
    BY <1>4, <1>7, <2>1 DEF HandleWrite
  <2>2. CASE UNCHANGED <<req, mem, ok>> /\ Goto(c, "overrun")
    BY <1>4, <1>7, <2>2 DEF HandleWrite
  <2> QED
    BY <1>5, <1>7, <2>1, <2>2 DEF HandleWrite
<1>8. CASE HandleDiscard(c)
  <2>1. CASE /\ Goto(c, "completed") /\ ok' = [ok EXCEPT ![c] = TRUE] /\ UNCHANGED <<req, mem>>
             /\ late' = [late EXCEPT ![c] = [off |-> req[c].off, count |-> Count(c)]]
    <3>1. /\ pc' = [pc EXCEPT ![c] = "completed"] /\ req' = [req EXCEPT ![c] = req[c]]
          /\ mem' = [mem EXCEPT ![c] = mem[c]] /\ ok' = [ok EXCEPT ![c] = TRUE]
      BY <2>1, Unmoved DEF Goto
    <3>2. OnlyMoves(c) /\ pc'[c] = "completed" /\ req'[c] = req[c]
      BY <1>2, <3>1, Alone
    <3>3. req[c].kind \in Discards /\ late[c] = NoBuffer
      BY <1>1, <1>8 DEF ClientInv, BufferInv, HandleDiscard
    <3>4. late' = [late EXCEPT ![c] = [off |-> req[c].off, count |-> req[c].count]]
      BY <2>1 DEF Count
    <3> QED
      BY <1>2, <3>2, <3>3, <3>4, Stages, AsDefer DEF DiskMoves
  <2> QED
    BY <1>5, <1>8, <2>1 DEF HandleDiscard
<1> QED
  BY <1>6, <1>7, <1>8 DEF Handle

\* What the blocks of a read hold is what a sure request asks for.
LEMMA SureHeld ==
    ASSUME NEW c \in Clients, Sized(req[c]), Sure(req[c])
    PROVE  Transferred(c) = [i \in 1 .. req[c].count |-> disk[req[c].off + i - 1]]
<1>1. FirstBlock(c) * BlockSize = req[c].off /\ BlockCount(c) * BlockSize = req[c].count
  BY SureExact DEF FirstBlock, BlockCount, Count
<1> QED
  BY <1>1 DEF Transferred

\* The blocks of a write that starts at a block hold all its bytes.
LEMMA WriteCovers ==
    ASSUME NEW c \in Clients, Sized(req[c]), ~TooSmall(c), req[c].off % BlockSize = 0
    PROVE  /\ FirstBlock(c) * BlockSize = req[c].off
           /\ \A b \in req[c].off .. req[c].off + req[c].count - 1 :
                b \in BlockRange(c) /\ b - req[c].off + 1 \in 1 .. req[c].count
<1> DEFINE f == FirstBlock(c)
           n == BlockCount(c)
<1>1. req[c].off \in Nat /\ req[c].count \in Nat
  BY DEF Sized, RequestType
<1>2. f \in Nat /\ n \in Nat
  BY <1>1, UnitsAssumption, DivBounds, DmaType DEF FirstBlock, BlockCount, Count, offset_blocks
<1>3. f * BlockSize = req[c].off
  BY <1>1, UnitsAssumption, MultipleOf DEF FirstBlock, offset_blocks
<1>4. n * BlockSize \in Nat
  BY <1>2, UnitsAssumption, SMTT(30)
<1>5. dma_size(req[c].count) \in Nat /\ dma_size(req[c].count) <= n * BlockSize
  BY <1>4, ModAtMost DEF dma_size, BlockCount, Count
<1>6. req[c].count <= n * BlockSize
  BY <1>1, <1>4, <1>5, SMTT(30) DEF TooSmall, Count
<1> HIDE DEF f, n
<1>7. (f + n) * BlockSize = f * BlockSize + n * BlockSize
  BY <1>2, UnitsAssumption, SMTT(30)
<1>8. PICK x : x = (f + n) * BlockSize /\ BlockRange(c) = req[c].off .. (x - 1)
  BY <1>3 DEF BlockRange, f, n
<1>10. x = req[c].off + n * BlockSize
  BY <1>3, <1>7, <1>8
<1>9. ASSUME NEW b \in req[c].off .. req[c].off + req[c].count - 1
      PROVE  b \in BlockRange(c) /\ b - req[c].off + 1 \in 1 .. req[c].count
  BY <1>1, <1>4, <1>6, <1>8, <1>10, SMTT(30)
<1> QED
  BY <1>3, <1>9 DEF f

\* The transfer is the instant at which a read or write takes effect.
LEMMA TransferMoves ==
    ASSUME BlocksInv, NEW c \in Clients, Transfer(c)
    PROVE  DiskMoves
<1>1. ClientInv("submitted", req[c], mem[c], temp[c], buffer[c], ok[c], late[c])
  BY Unmoved DEF Transfer
<1>2. /\ pc[c] = "submitted" /\ pc' = [pc EXCEPT ![c] = "done"] /\ late' = late
      /\ req' = [req EXCEPT ![c] = req[c]] /\ ok' = [ok EXCEPT ![c] = ok[c]]
  BY Unmoved DEF Transfer, Goto
<1>3. Sized(req[c])
  BY <1>1 DEF ClientInv
<1>4. CASE /\ req[c].kind = "WRITE"
           /\ disk' = [b \in DOMAIN disk |->
                        IF b \in BlockRange(c) THEN buffer[c][b - FirstBlock(c) * BlockSize + 1]
                        ELSE disk[b]]
           /\ UNCHANGED <<mem, temp>>
  <2>1. mem' = [mem EXCEPT ![c] = mem[c]] /\ temp' = [temp EXCEPT ![c] = temp[c]]
    BY <1>4, Unmoved
  <2>2. OnlyMoves(c) /\ pc'[c] = "done" /\ req'[c] = req[c]
    BY <1>2, <2>1, Alone
  <2>3. DOMAIN disk = 0 .. Size - 1
    BY Unmoved
  <2>4. BlockRange(c) \subseteq Touched(req[c].off, req[c].count)
    <3>1. req[c].off \in Nat /\ req[c].count \in Nat
      BY <1>3 DEF Sized, RequestType
    <3> QED
      BY <3>1, BlocksWithinRequest DEF BlockRange, FirstBlock, BlockCount, Count
  <2>5. \A b \in (0 .. Size - 1) \ Touched(req[c].off, req[c].count) : disk'[b] = disk[b]
    BY <1>4, <2>3, <2>4
  <2>6. ASSUME req[c].off % BlockSize = 0,
               NEW b \in (0 .. Size - 1) \cap (req[c].off .. req[c].off + req[c].count - 1)
        PROVE  disk'[b] = iovec_to_buffer(Payload(req[c]))[b - req[c].off + 1]
    <3>1. /\ ~(dma_size(req[c].count) < req[c].count)
          /\ \A i \in 1 .. req[c].count : buffer[c][i] = iovec_to_buffer(Payload(req[c]))[i]
      BY <1>1, <1>4 DEF ClientInv, WriteInv
    <3>2. /\ FirstBlock(c) * BlockSize = req[c].off
          /\ b \in BlockRange(c) /\ b - req[c].off + 1 \in 1 .. req[c].count
      BY <1>3, <2>6, <3>1, WriteCovers DEF TooSmall, Count
    <3>3. disk'[b] = buffer[c][b - FirstBlock(c) * BlockSize + 1]
      BY <1>4, <2>3, <2>6, <3>2
    <3> QED
      BY <3>1, <3>2, <3>3
  <2> QED
    BY <1>2, <1>4, <2>2, <2>5, <2>6, Stages, AsWrite DEF DiskMoves
<1>5. ASSUME NEW m, NEW t, mem' = [mem EXCEPT ![c] = m], temp' = [temp EXCEPT ![c] = t],
             disk' = disk, req[c].kind = "READ",
             Sure(req[c]) => Transferred(c) = IF Vectored(req[c]) THEN t ELSE iovec_to_buffer(m)
      PROVE  DiskMoves
  <2>1. OnlyMoves(c) /\ pc'[c] = "done" /\ req'[c] = req[c] /\ mem'[c] = m /\ temp'[c] = t
    <3>1. mem' = [mem EXCEPT ![c] = m] /\ temp' = [temp EXCEPT ![c] = t]
      BY <1>5
    <3> QED
      BY <1>2, <3>1, Alone
  <2>2. ASSUME Sure(req[c])
        PROVE  DataOf("done", req[c], m, t) =
                 [i \in 1 .. req[c].count |-> disk[req[c].off + i - 1]]
    <3>1. DataOf("done", req[c], m, t) = IF Vectored(req[c]) THEN t ELSE iovec_to_buffer(m)
      BY <1>5, <2>2, Stages, FoundData
    <3>2. Transferred(c) = [i \in 1 .. req[c].count |-> disk[req[c].off + i - 1]]
      BY <1>3, <2>2, SureHeld
    <3> QED
      BY <1>5, <2>2, <3>1, <3>2
  <2> QED
    BY <1>2, <1>5, <2>1, <2>2, Stages, AsRead DEF DiskMoves
<1>6. CASE req[c].kind = "READ" /\ buffer[c] # NoBuffer /\ UNCHANGED <<disk, mem, temp>>
  <2>1. mem' = [mem EXCEPT ![c] = mem[c]] /\ temp' = [temp EXCEPT ![c] = temp[c]]
    BY <1>6, Unmoved
  <2>2. ~Sure(req[c])
    BY <1>1, <1>6 DEF ClientInv, ReadInv
  <2> QED
    BY <1>5, <1>6, <2>1, <2>2
<1>7. CASE /\ req[c].kind = "READ" /\ Vectored(req[c])
           /\ temp' = [temp EXCEPT ![c] = Transferred(c)] /\ UNCHANGED <<disk, mem>>
  <2>1. mem' = [mem EXCEPT ![c] = mem[c]]
    BY <1>7, Unmoved
  <2> QED
    BY <1>5, <1>7, <2>1
<1>8. CASE /\ req[c].kind = "READ" /\ ~Vectored(req[c]) /\ UNCHANGED <<disk, temp>>
           /\ mem' = [mem EXCEPT ![c] = buffer_to_iovec(Transferred(c), req[c].iov)]
  <2>1. temp' = [temp EXCEPT ![c] = temp[c]]
    BY <1>8, Unmoved
  <2>2. ASSUME Sure(req[c])
        PROVE  Transferred(c) = iovec_to_buffer(buffer_to_iovec(Transferred(c), req[c].iov))
    <3>1. req[c].iov \in Seq(Nat) /\ req[c].count = calculate_iovec_size(req[c].iov)
      BY <1>3 DEF Sized, RequestType
    <3>2. Transferred(c) = [i \in 1 .. req[c].count |-> disk[req[c].off + i - 1]]
      BY <1>3, <2>2, SureHeld
    <3>3. Transferred(c) = [i \in 1 .. calculate_iovec_size(req[c].iov) |-> Transferred(c)[i]]
      BY <3>1, <3>2
    <3> QED
      BY <3>1, <3>3, ScatterGather
  <2> QED
    BY <1>5, <1>8, <2>1, <2>2
<1> QED
  BY <1>4, <1>6, <1>7, <1>8 DEF Transfer

\* A successful call returns what the read found, wherever the bytes were.
LEMMA ScatteredSame ==
    ASSUME NEW c \in Clients, NEW p \in {"done", "completed"},
           ClientInv(p, req[c], mem[c], temp[c], buffer[c], ok[c], late[c]),
           Sure(req[c]), NEW r, StageOf(r) = "returned", NEW m, NEW t,
           m = IF Vectored(req[c]) /\ req[c].kind = "READ"
               THEN buffer_to_iovec(temp[c], req[c].iov) ELSE mem[c]
    PROVE  DataOf(r, req[c], m, t) = DataOf(p, req[c], mem[c], temp[c])
<1>1. CASE req[c].kind # "READ"
  BY <1>1, WrittenData
<1>2. CASE req[c].kind = "READ"
  <2>1. StageOf(p) = "done"
    BY Stages
  <2>2. /\ DataOf(r, req[c], m, t) = iovec_to_buffer(m)
        /\ DataOf(p, req[c], mem[c], temp[c]) =
             IF Vectored(req[c]) THEN temp[c] ELSE iovec_to_buffer(mem[c])
    BY <1>2, <2>1, FoundData
  <2>3. CASE ~Vectored(req[c])
    BY <2>2, <2>3
  <2>4. CASE Vectored(req[c])
    <3>1. req[c].iov \in Seq(Nat) /\ req[c].count = calculate_iovec_size(req[c].iov)
      BY DEF ClientInv, Sized, RequestType
    <3>2. temp[c] = [i \in 1 .. req[c].count |-> temp[c][i]]
      BY <1>2, <2>4 DEF ClientInv, ReadInv
    <3>3. temp[c] = [i \in 1 .. calculate_iovec_size(req[c].iov) |-> temp[c][i]]
      BY <3>1, <3>2
    <3>4. iovec_to_buffer(buffer_to_iovec(temp[c], req[c].iov)) = temp[c]
      BY <3>1, <3>3, ScatterGather
    <3> QED
      BY <1>2, <2>2, <2>4, <3>4
  <2> QED
    BY <2>3, <2>4
<1> QED
  BY <1>1, <1>2

\* A call returns, whether it has succeeded or not, when it has taken effect.
LEMMA ReturnedMoves ==
    ASSUME BlocksInv, NEW c \in Clients, pc[c] \in {"done", "completed"},
           NEW p, NEW s, NEW t, StageOf(p) = "returned",
           pc' = [pc EXCEPT ![c] = p], req' = [req EXCEPT ![c] = req[c]],
           mem' = [mem EXCEPT ![c] = Scattered(c, s)], temp' = [temp EXCEPT ![c] = t],
           ok' = [ok EXCEPT ![c] = s], disk' = disk, late' = late
    PROVE  DiskMoves
<1>2. /\ OnlyMoves(c) /\ pc'[c] = p /\ req'[c] = req[c] /\ mem'[c] = Scattered(c, s)
      /\ temp'[c] = t /\ ok'[c] = s
  BY Alone
<1>3. /\ ClientInv(pc[c], req[c], mem[c], temp[c], buffer[c], ok[c], late[c])
      /\ StageOf(pc[c]) = "done"
  BY Unmoved, Stages
<1>4. CASE s
  <2>1. ASSUME Sure(req[c])
        PROVE  DataOf(p, req[c], Scattered(c, s), t) = DataOf(pc[c], req[c], mem[c], temp[c])
    <3>1. Scattered(c, s) = IF Vectored(req[c]) /\ req[c].kind = "READ"
                            THEN buffer_to_iovec(temp[c], req[c].iov) ELSE mem[c]
      BY <1>4 DEF Scattered
    <3> QED
      BY <1>3, <2>1, <3>1, ScatteredSame, SMTT(30)
  <2> QED
    BY <1>2, <1>3, <1>4, <2>1, AsReturn DEF DiskMoves
<1>5. CASE ~s
  BY <1>2, <1>3, <1>5, AsFail DEF DiskMoves
<1> QED
  BY <1>4, <1>5

\* Completing an asynchronous call returns it; the sender of a synchronous one sees
\* nothing yet.
LEMMA CompleteMoves ==
    ASSUME BlocksInv, NEW c \in Clients, CompleteAsync(c) \/ CompleteSync(c)
    PROVE  DiskMoves
<1>1. pc[c] = "done" /\ req' = [req EXCEPT ![c] = req[c]] /\ disk' = disk /\ late' = late
  BY Unmoved DEF CompleteAsync, CompleteSync
<1>2. CASE CompleteAsync(c)
  <2>1. PICK s : ok' = [ok EXCEPT ![c] = s] /\ mem' = [mem EXCEPT ![c] = Scattered(c, s)]
    BY <1>2 DEF CompleteAsync
  <2>2. pc' = [pc EXCEPT ![c] = "returned"] /\ temp' = [temp EXCEPT ![c] = NoBuffer]
    BY <1>2 DEF CompleteAsync, Goto, LinearFreed
  <2> QED
    BY <1>1, <2>1, <2>2, Stages, ReturnedMoves
<1>3. CASE CompleteSync(c)
  <2>1. PICK s : ok' = [ok EXCEPT ![c] = s]
    BY <1>3 DEF CompleteSync
  <2>2. /\ pc' = [pc EXCEPT ![c] = "completed"] /\ mem' = [mem EXCEPT ![c] = mem[c]]
        /\ temp' = [temp EXCEPT ![c] = temp[c]]
    BY <1>3, Unmoved DEF CompleteSync, Goto
  <2>3. /\ OnlyMoves(c) /\ pc'[c] = "completed" /\ req'[c] = req[c] /\ mem'[c] = mem[c]
        /\ temp'[c] = temp[c] /\ ok'[c] = s
    BY <1>1, <2>1, <2>2, Alone
  <2>4. StageOf("completed") = StageOf("done") /\ OkOf("completed", s) = OkOf("done", ok[c])
    BY Stages DEF OkOf
  <2>5. DataOf("completed", req[c], mem[c], temp[c]) = DataOf("done", req[c], mem[c], temp[c])
    BY <2>4 DEF DataOf
  <2> QED
    BY <1>1, <2>3, <2>4, <2>5, AsStutter DEF DiskMoves
<1> QED
  BY <1>2, <1>3

\* What is copied out of a DMA buffer is not promised to be the device's bytes.
LEMMA CopyOutMoves ==
    ASSUME BlocksInv, NEW c \in Clients, CopyOut(c)
    PROVE  DiskMoves
<1>1. ClientInv("completed", req[c], mem[c], temp[c], buffer[c], ok[c], late[c])
  BY Unmoved DEF CopyOut
<1>2. /\ pc[c] = "completed" /\ pc' = [pc EXCEPT ![c] = "completed"]
      /\ req' = [req EXCEPT ![c] = req[c]] /\ ok' = [ok EXCEPT ![c] = ok[c]]
      /\ disk' = disk /\ late' = late
  BY Unmoved DEF CopyOut
<1>3. PICK m, t : mem' = [mem EXCEPT ![c] = m] /\ temp' = [temp EXCEPT ![c] = t]
  <2>1. CASE temp' = [temp EXCEPT ![c] = SubSeq(buffer[c], 1, Count(c))] /\ mem' = mem
    BY <2>1, Unmoved
  <2>2. CASE /\ mem' = [mem EXCEPT ![c] = buffer_to_iovec(buffer[c], req[c].iov)]
             /\ temp' = temp
    <3>1. temp' = [temp EXCEPT ![c] = temp[c]]
      BY <2>2, Unmoved
    <3> QED
      BY <2>2, <3>1
  <2> QED
    BY <2>1, <2>2 DEF CopyOut
<1>4. req[c].kind = "READ" /\ ~Sure(req[c])
  BY <1>1 DEF CopyOut, ClientInv, BufferInv, ReadInv
<1>5. /\ OnlyMoves(c) /\ pc'[c] = "completed" /\ req'[c] = req[c] /\ mem'[c] = m
      /\ temp'[c] = t /\ ok'[c] = ok[c]
  BY <1>2, <1>3, Alone
<1>6. DataOf("completed", req[c], m, t) = DataOf("completed", req[c], mem[c], temp[c])
  BY <1>4, FoundData
<1> QED
  BY <1>2, <1>5, <1>6, AsStutter DEF DiskMoves

\* A synchronous call returns, or an error that had no effect.
LEMMA ReturnMoves ==
    ASSUME BlocksInv, NEW c \in Clients, Return(c)
    PROVE  DiskMoves
<1>1. PICK p : StageOf(p) = "returned" /\ pc' = [pc EXCEPT ![c] = p]
  BY Stages DEF Return, Goto
<1>2. /\ req' = [req EXCEPT ![c] = req[c]] /\ ok' = [ok EXCEPT ![c] = ok[c]]
      /\ mem' = [mem EXCEPT ![c] = Scattered(c, ok[c])]
      /\ temp' = [temp EXCEPT ![c] = NoBuffer] /\ disk' = disk /\ late' = late
  BY Unmoved DEF Return, LinearFreed
<1>3. CASE pc[c] = "completed"
  BY <1>1, <1>2, <1>3, ReturnedMoves
<1>4. CASE pc[c] = "rejected"
  <2>1. OnlyMoves(c) /\ pc'[c] = p /\ req'[c] = req[c] /\ ok'[c] = ok[c]
    BY <1>1, <1>2, Alone
  <2>2. ~ok[c] /\ StageOf(pc[c]) = "called"
    BY <1>4, Unmoved, Stages DEF ClientInv, BufferInv
  <2> QED
    BY <1>1, <1>2, <2>1, <2>2, AsFail DEF DiskMoves
<1> QED
  BY <1>3, <1>4 DEF Return

LEMMA ForgetMoves ==
    ASSUME BlocksInv, NEW c \in Clients, Forget(c)
    PROVE  DiskMoves
<1>1. /\ pc[c] = "returned" /\ pc' = [pc EXCEPT ![c] = "idle"]
      /\ req' = [req EXCEPT ![c] = Idle] /\ mem' = [mem EXCEPT ![c] = <<>>]
      /\ temp' = [temp EXCEPT ![c] = NoBuffer] /\ ok' = [ok EXCEPT ![c] = TRUE]
      /\ disk' = disk /\ late' = late
  BY DEF Forget, Goto, LinearFreed
<1>2. OnlyMoves(c) /\ pc'[c] = "idle"
  BY <1>1, Alone
<1> QED
  BY <1>1, <1>2, Stages, AsMove DEF DiskMoves

\* If their number fits, the blocks of a trim or write_zeros hold all its bytes.
LEMMA DiscardCovers ==
    ASSUME NEW off \in Nat, NEW count \in Nat, off % BlockSize = 0, Countable(count),
           NEW b \in off .. off + count - 1
    PROVE  /\ b \in (offset_blocks(off) * BlockSize) ..
                    (offset_blocks(off) * BlockSize + num_blocks(count) * BlockSize - 1)
           /\ b - off + 1 \in 1 .. count
<1> DEFINE q == (count + BlockSize - 1) \div BlockSize
<1>1. offset_blocks(off) * BlockSize = off
  BY UnitsAssumption, MultipleOf DEF offset_blocks
<1>2. count + BlockSize - 1 \in Nat
  BY UnitsAssumption, SMTT(30)
<1>3. q \in Nat /\ count + BlockSize - 1 < q * BlockSize + BlockSize
  BY <1>2, UnitsAssumption, DivBounds
<1>4. num_blocks(count) = q
  BY <1>3, ModSmall DEF Countable, num_blocks
<1> HIDE DEF q
<1>5. q * BlockSize \in Nat
  BY <1>3, UnitsAssumption, SMTT(30)
<1>6. b \in off .. (off + q * BlockSize - 1) /\ b - off + 1 \in 1 .. count
  BY <1>3, <1>5, UnitsAssumption, SMTT(30)
<1> QED
  BY <1>1, <1>4, <1>6

\* The late work of a trim or write_zeros is its effect.
LEMMA SettleMoves ==
    ASSUME BlocksInv, NEW c \in Clients, Settle(c)
    PROVE  DiskMoves
<1> DEFINE first == offset_blocks(late[c].off) * BlockSize
           last == first + num_blocks(late[c].count) * BlockSize - 1
<1>1. /\ late[c] # NoBuffer /\ late' = [late EXCEPT ![c] = NoBuffer]
      /\ UNCHANGED <<pc, req, mem, temp, buffer, ok>>
  BY DEF Settle
<1>2. late[c].off \in Nat /\ late[c].count \in Nat /\ DOMAIN disk = 0 .. Size - 1
  BY <1>1, Unmoved DEF ClientInv, BufferInv
<1>3. CASE disk' = disk
  BY <1>1, <1>3, AsSettle DEF DiskMoves
<1>4. CASE disk' = [b \in DOMAIN disk |-> IF b \in first .. last THEN 0 ELSE disk[b]]
  <2>1. first .. last \subseteq Touched(late[c].off, late[c].count)
    BY <1>2, DiscardWithin
  <2>2. ASSUME NEW b \in (0 .. Size - 1) \ Touched(late[c].off, late[c].count)
        PROVE  disk'[b] = disk[b]
    BY <1>2, <1>4, <2>1
  <2>3. ASSUME late[c].off % BlockSize = 0, Countable(late[c].count),
               NEW b \in (0 .. Size - 1) \cap (late[c].off .. late[c].off + late[c].count - 1)
        PROVE  disk'[b] = 0 /\ b - late[c].off + 1 \in 1 .. late[c].count
    <3>1. b \in first .. last /\ b - late[c].off + 1 \in 1 .. late[c].count
      BY <1>2, <2>3, DiscardCovers
    <3> QED
      BY <1>2, <1>4, <3>1
  <2> QED
    BY <1>1, <2>2, <2>3, AsSettle DEF DiskMoves
<1> QED
  BY <1>3, <1>4 DEF Settle

(***************************************************************************)
(* The data path implements XpdkDisk, for any clients, requests, block     *)
(* size and width: whatever the handlers, completions and copies of        *)
(* several calls do in between, a sure read returns what the device held   *)
(* at one instant of the call, a block-aligned write stores what the       *)
(* application's memory held when the call was made, and nothing but a     *)
(* write, trim or write_zeros changes the device (ImplementsDisk).         *)
(***************************************************************************)
THEOREM DataPathImplementsDisk == Spec => ImplementsDisk
<1>1. ASSUME Init PROVE Disk!Init
  <2>1. [c \in Clients |-> StageOf(pc[c])] = [c \in Clients |-> "idle"]
    BY <1>1, Stages DEF Init
  <2> QED
    BY <1>1, <2>1, SeenNow DEF Init, Disk!Init, Disk!Bytes
<1>2. ASSUME BlocksInv, [Next]_vars PROVE DiskMoves
  <2>1. CASE UNCHANGED vars
    <3>1. UNCHANGED <<disk, Disk!callVars, late>>
      BY <2>1, SeenNow, SeenNext DEF vars, Disk!callVars
    <3> QED
      BY <3>1 DEF DiskMoves
  <2>2. CASE Next
    BY <1>2, <2>2, CallMoves, ReuseMoves, HandleMoves, TransferMoves, CompleteMoves,
       CopyOutMoves, ReturnMoves, ForgetMoves, SettleMoves DEF Next
  <2> QED
    BY <1>2, <2>1, <2>2
<1>3. BlocksInv /\ [Next]_vars => [Disk!Next]_<<disk, Disk!callVars, late>>
  BY <1>2 DEF DiskMoves
<1> QED
  BY <1>1, <1>3, BlocksInvariant, PTL DEF Spec, ImplementsDisk, Disk!Spec

=============================================================================
