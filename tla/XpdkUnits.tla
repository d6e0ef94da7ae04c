----------------------------- MODULE XpdkUnits -----------------------------
(***************************************************************************)
(* From bytes to blocks: the arithmetic that xpdk_spdk_handle_read,        *)
(* xpdk_spdk_handle_write and the trim and write-zeros handlers share.     *)
(* Offsets and counts are 64 bits wide; num_blocks and block_size are      *)
(* uint32_t, so the number of blocks and the size of the DMA buffer are    *)
(* reduced modulo Width (2^32 in the code).                                *)
(***************************************************************************)
EXTENDS Integers

CONSTANTS
    BlockSize,   \* spdk_bdev_get_block_size
    Width        \* one more than the largest uint32_t

ASSUME UnitsAssumption ==
    /\ BlockSize \in Nat \ {0}
    /\ Width \in Nat
    /\ BlockSize < Width

\* uint64_t offset_blocks = offset / block_size
offset_blocks(offset) == offset \div BlockSize

\* Mutant: the last, partial block is forgotten.
WholeBlocks(count) == (count \div BlockSize) % Width

\* Mutant: an aligned request gets a block more than it needs.
ExtraBlock(count) == (count \div BlockSize + 1) % Width

\* uint32_t num_blocks = (count + block_size - 1) / block_size
num_blocks(count) == ((count + BlockSize - 1) \div BlockSize) % Width

\* num_blocks * block_size, a product of two uint32_t
dma_size(count) == (num_blocks(count) * BlockSize) % Width

\* The rounded count of bytes is a uint32_t: requests below 4 GiB in the code.
Narrow(count) == count + BlockSize - 1 < Width

\* The number of blocks is a uint32_t.
Countable(count) == (count + BlockSize - 1) \div BlockSize < Width

\* The bytes of the blocks that hold a byte of [offset, offset + count).
Touched(offset, count) ==
    IF count = 0 THEN {}
    ELSE (offset_blocks(offset) * BlockSize) ..
         ((((offset + count - 1) \div BlockSize) + 1) * BlockSize - 1)

=============================================================================
