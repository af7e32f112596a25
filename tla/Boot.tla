-------------------------------- MODULE Boot --------------------------------
(***************************************************************************)
(* From two ELF files to a running kernel with its file system:            *)
(* boot/createimage.c builds the image, somebody copies it to the drive,   *)
(* boot/bootblock.s loads it, and fs_init() of filesystem/fs.c looks for a *)
(* file system behind the kernel.  Later kernels are installed on the same *)
(* drive.                                                                  *)
(*                                                                         *)
(* A file is a sequence of cells.  A cell stands for one of the things the *)
(* programs tell apart: a header, of which only e_phnum or p_memsz is      *)
(* used, a unit of code or data, or the four bytes of os_size.             *)
(***************************************************************************)
EXTENDS Integers, Sequences, SequencesExt

CONSTANTS SECTOR_SIZE,     \* cells of a sector
          OS_SIZE_LOC,     \* the cell of os_size in the boot block
          AL,              \* how many values register %al has
          BootFiles, Kernels,
          MaxBuilds,       \* bound on the images that are built
          BITMAP_ENTRIES, BITMAP_BLOCKS, INODE_BLOCKS, FS_BLOCKS,
          InodesPerBlock   \* BLOCK_SIZE / INODE_SIZE

\* A file in the layout that createimage.c expects (see ElfFile): no segment has
\* more in the file than in memory.
IsFile(f) ==
  /\ f \in [segments : Seq([memsz : Nat, data : Seq(Nat)]), rest : Seq(Nat)]
  /\ \A i \in 1..Len(f.segments) : Len(f.segments[i].data) <= f.segments[i].memsz

\* A sector has more than one cell, so that no sector of an image is taken for a
\* super block.
ASSUME BootAssumption ==
  /\ SECTOR_SIZE \in Nat /\ SECTOR_SIZE > 1 /\ OS_SIZE_LOC \in 0..(SECTOR_SIZE - 1)
  /\ AL \in Nat \ {0} /\ MaxBuilds \in Nat
  /\ \A f \in BootFiles \cup Kernels : IsFile(f)

\* The bits get_free_entry() looks at: their inodes end before the last block of
\* inodes, and their blocks within the file system.
ASSUME LayoutAssumption ==
  /\ BITMAP_ENTRIES \in Nat /\ BITMAP_BLOCKS \in Nat \ {0, 1} /\ INODE_BLOCKS \in Nat \ {0, 1}
  /\ FS_BLOCKS \in Nat /\ InodesPerBlock \in Nat \ {0}
  /\ 8 * (BITMAP_ENTRIES \div 8) <= InodesPerBlock * (INODE_BLOCKS - 1)
  /\ BITMAP_BLOCKS + INODE_BLOCKS + 8 * (BITMAP_ENTRIES \div 8) <= FS_BLOCKS

VARIABLES pc,
          files,    \* the segments and the rest of both files
          boot, kernel,      \* what parse_file() has made of them
          drive,             \* its sectors, as far as they have been written
          memory,            \* from OS_MEM_LOC on
          SUPER_BLOCK_START,
          builds,
          installed,  \* the file of the kernel on the drive
          sizes,      \* the os_size of every kernel that was there before it
          returned    \* has a kernel had the size of an earlier one, but not of
                      \* the one it has replaced?

vars == <<pc, files, boot, kernel, drive, memory, SUPER_BLOCK_START, builds,
          installed, sizes, returned>>

-----------------------------------------------------------------------------
Zeros(n) == [k \in 1..n |-> 0]

\* The layout of an ELF file that createimage.c describes and parse_file() reads:
\* the header with e_phnum, then a program header with p_memsz in front of each
\* segment.  General ELF files have their program headers together and tell by
\* p_offset where a segment is, which parse_file() does not use.
ElfFile(f) ==
  <<Len(f.segments)>>
    \o FlattenSeq([i \in 1..Len(f.segments) |->
                     <<f.segments[i].memsz>> \o f.segments[i].data])
    \o f.rest

\* What a file says is to be in memory: each segment, filled up with zeros
Linked(f) ==
  FlattenSeq([i \in 1..Len(f.segments) |->
                LET s == f.segments[i] IN s.data \o Zeros(s.memsz - Len(s.data))])

\* Every segment has all its memory in the file; or the last one has less, and
\* nothing comes after it.
FullSegments(f) ==
  \A i \in 1..Len(f.segments) :
    LET s == f.segments[i]
    IN  Len(s.data) < s.memsz => i = Len(f.segments) /\ f.rest = <<>>

NoKernel == [segments |-> <<>>, rest |-> <<>>]

Unparsed == [count |-> 0, data |-> <<>>]

\* One turn of the loop of parse_file(): p_memsz cells behind the program header,
\* and what is behind the end of the file stays as calloc() has left it.
ReadSegment(f, r) ==
  IF r.pos > Len(f) THEN [r EXCEPT !.error = TRUE]
  ELSE [pos |-> r.pos + 1 + f[r.pos],
        data |-> r.data \o [k \in 1..f[r.pos] |->
                              IF r.pos + k <= Len(f) THEN f[r.pos + k] ELSE 0],
        error |-> r.error]

\* The loop: it reads on through the file, e_phnum times.
ReadSegments(f) ==
  LET read[i \in 0..f[1]] ==
        IF i = 0 THEN [pos |-> 2, data |-> <<>>, error |-> FALSE]
        ELSE ReadSegment(f, read[i - 1])
  IN  read[f[1]]

parse_file(f) ==
  IF f = <<>> \/ ReadSegments(f).error THEN Unparsed
  ELSE [count |-> f[1], data |-> ReadSegments(f).data]

\* Mutant: the last, partly filled sector is not counted.
SectorsFloor(size) == size \div SECTOR_SIZE

\* os_size in main()
Sectors(size) ==
  (size \div SECTOR_SIZE) + (IF size % SECTOR_SIZE # 0 THEN 1 ELSE 0)

\* The image main() writes: boot block, kernel, padding; then os_size is put
\* into the boot block.
Image(b, k) ==
  LET pad == IF Len(k) % SECTOR_SIZE = 0 THEN 0 ELSE SECTOR_SIZE - (Len(k) % SECTOR_SIZE)
  IN  [b \o k \o Zeros(pad) EXCEPT ![OS_SIZE_LOC + 1] = Sectors(Len(k))]

\* The image as sectors of the drive
InSectors(image) ==
  [s \in 0..((Len(image) \div SECTOR_SIZE) - 1) |->
     SubSeq(image, s * SECTOR_SIZE + 1, (s + 1) * SECTOR_SIZE)]

\* The drive d after the sectors of f have been written
Written(f, d) ==
  [s \in DOMAIN f \cup DOMAIN d |-> IF s \in DOMAIN f THEN f[s] ELSE d[s]]

\* The four bytes in the boot block
os_size == drive[0][OS_SIZE_LOC + 1]

-----------------------------------------------------------------------------
Init ==
  /\ pc = "build"
  /\ files \in BootFiles \X Kernels
  /\ boot = Unparsed /\ kernel = Unparsed
  /\ drive = [s \in {} |-> <<>>]
  /\ memory = <<>>
  /\ SUPER_BLOCK_START = 0
  /\ builds = 0 /\ installed = NoKernel /\ sizes = {} /\ returned = FALSE

\* main() of createimage.c parses both files.
Parse ==
  /\ pc = "build"
  /\ boot' = parse_file(ElfFile(files[1]))
  /\ kernel' = parse_file(ElfFile(files[2]))
  /\ pc' = "parsed"
  /\ UNCHANGED <<files, drive, memory, SUPER_BLOCK_START, builds, installed, sizes, returned>>

Correct ==
  /\ boot.count > 0 /\ kernel.count > 0
  /\ Len(boot.data) = SECTOR_SIZE /\ Len(kernel.data) > 0

\* "Bootblock or Kernel file is incorrect"
Reject ==
  /\ pc = "parsed" /\ ~Correct
  /\ pc' = "off"
  /\ UNCHANGED <<files, boot, kernel, drive, memory, SUPER_BLOCK_START, builds,
                 installed, sizes, returned>>

\* The image is written, and copied to the start of the drive.
Install ==
  LET image == Image(boot.data, kernel.data) IN
  /\ pc = "parsed" /\ Correct
  /\ drive' = Written(InSectors(image), drive)
  /\ installed' = files[2]
  /\ sizes' = IF installed = NoKernel THEN {} ELSE sizes \cup {os_size}
  /\ returned' = (returned \/ (os_size' \in sizes' /\ os_size' # os_size))
  /\ pc' = "off"
  /\ UNCHANGED <<files, boot, kernel, memory, SUPER_BLOCK_START, builds>>

\* Other files are built.
Rebuild ==
  /\ pc \in {"off", "forever", "mounted"}
  /\ builds < MaxBuilds
  /\ builds' = builds + 1
  /\ files' \in BootFiles \X Kernels
  /\ pc' = "build"
  /\ UNCHANGED <<boot, kernel, drive, memory, SUPER_BLOCK_START, installed, sizes, returned>>

-----------------------------------------------------------------------------
\* What `mov os_size, %al' leaves of os_size
al == os_size % AL

\* load: int 13 reads %al sectors behind the boot block.
Load ==
  /\ pc = "off" /\ installed # NoKernel
  /\ memory' = FlattenSeq([s \in 1..al |-> drive[s]])
  /\ pc' = "kernel"
  /\ UNCHANGED <<files, boot, kernel, drive, SUPER_BLOCK_START, builds, installed, sizes, returned>>

\* load_fail: the drive cannot be read.
LoadFails ==
  /\ pc = "off" /\ installed # NoKernel
  /\ pc' = "forever"
  /\ UNCHANGED <<files, boot, kernel, drive, memory, SUPER_BLOCK_START, builds,
                 installed, sizes, returned>>

-----------------------------------------------------------------------------
(* Where fs.c has its blocks, for a super block at sector s *)

\* Mutant: every byte of the bitmap is searched for a free entry.
EntriesAll == 0..(8 * BITMAP_ENTRIES - 1)

\* The entries get_free_entry() can return: it looks at an eighth of the bytes.
Entries == 0..(8 * (BITMAP_ENTRIES \div 8) - 1)

ino2blk(s, ino) == s + BITMAP_BLOCKS + (ino \div InodesPerBlock) + 1

\* One less than the first sector behind the inode blocks
idx2blk(s, index) == s + BITMAP_BLOCKS + INODE_BLOCKS + index

\* Mutant: the super block is the last sector of the kernel.
SuperBlockInKernel == os_size

SuperBlock == 2 + os_size

\* What fs_mkfs() writes: bitmaps, root directory and, last, the super block
Made(s) ==
  [b \in {s, s + 1, s + 2, ino2blk(s, 0), idx2blk(s, 0)} |->
     CASE b = s             -> <<"super">>
       [] b = s + 1         -> <<"inode_bmap">>
       [] b = s + 2         -> <<"dblk_bmap">>
       [] b = ino2blk(s, 0) -> <<"inodes">>
       [] b = idx2blk(s, 0) -> <<"directory">>]

\* Mutant: whatever is in the sector of the super block is taken for one.
fs_initTrusting ==
  LET s == SuperBlock IN
  /\ pc = "kernel"
  /\ SUPER_BLOCK_START' = s
  /\ drive' = IF s \in DOMAIN drive THEN drive ELSE Written(Made(s), drive)
  /\ pc' = "mounted"
  /\ UNCHANGED <<files, boot, kernel, memory, builds, installed, sizes, returned>>

\* fs_init(): does the super block look right?
fs_init ==
  LET s == SuperBlock IN
  /\ pc = "kernel"
  /\ SUPER_BLOCK_START' = s
  /\ drive' = IF s \in DOMAIN drive /\ drive[s] = <<"super">> THEN drive
              ELSE Written(Made(s), drive)
  /\ pc' = "mounted"
  /\ UNCHANGED <<files, boot, kernel, memory, builds, installed, sizes, returned>>

Next ==
  \/ Parse \/ Reject \/ Install \/ Rebuild \/ Load \/ LoadFails \/ fs_init

Spec == Init /\ [][Next]_vars

-----------------------------------------------------------------------------
\* The kernel that is started is the kernel in the file: whatever its
\* segments, its size and the padding, all of it is in memory from OS_MEM_LOC
\* on, behind it nothing but zeros.  This takes a file laid out as createimage.c
\* expects and a number of sectors that fits in %al.
KernelComplete ==
  pc = "kernel" /\ FullSegments(installed) /\ os_size < AL =>
    LET k == Linked(installed)
    IN  memory = k \o Zeros(Len(memory) - Len(k))

Areas(s) ==
  <<0..(s - 2), {s}, (s + 1)..(s + BITMAP_BLOCKS), {ino2blk(s, i) : i \in Entries},
    {idx2blk(s, i) : i \in Entries}>>

\* Boot block and kernel, super block, bitmaps, inodes and data blocks do not
\* overlap on the drive, and stay within FS_BLOCKS.  idx2blk() begins one sector
\* too early, in the last block of inodes, and only because get_free_entry()
\* never finds the inodes that would be there does it do no harm.
DriveDisjoint ==
  pc = "mounted" =>
    LET a == Areas(SUPER_BLOCK_START) IN
    /\ \A i, j \in 1..Len(a) : i # j => a[i] \cap a[j] = {}
    /\ \A i \in 2..Len(a) : a[i] \subseteq
         SUPER_BLOCK_START..(SUPER_BLOCK_START + FS_BLOCKS - 1)

\* The file system that fs_init() has made or found is whole: nothing else that
\* is on the drive behind a kernel of another size is taken for a super block.
\* But when a size returns the old super block may still be there (a sector
\* behind the kernel is left free) while the bitmaps have been overwritten, and
\* fs_init() looks at the super block only.
FileSystemWhole ==
  pc = "mounted" /\ ~returned =>
    \A b \in DOMAIN Made(SUPER_BLOCK_START) : drive[b] = Made(SUPER_BLOCK_START)[b]

\* Installing a kernel of the same number of sectors keeps the files: the new
\* kernel finds the file system the old one has left, unless a kernel of another
\* size has been on the drive in between.
UpdateKeepsFiles ==
  [][pc = "kernel" /\ SUPER_BLOCK_START = SuperBlock /\ ~returned => drive' = drive]_vars
=============================================================================
