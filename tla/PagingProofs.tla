---------------------------- MODULE PagingProofs ----------------------------
(***************************************************************************)
(* Demand paging of memory.c for any number of processes, frames and pages *)
(* of any size, whatever frames are evicted.                               *)
(*                                                                         *)
(* The frames a process gets from get_memory() are only known by the       *)
(* entries that lead to them, so the invariant follows those: Got(p, k) is *)
(* the frame of the k-th request of setup_page_table().  These frames are  *)
(* pinned and all different (GotInv), and what leads to them is not        *)
(* written again (DirectoryInv, StackInv).  A page that is present has an  *)
(* unpinned frame, and memoryblocks knows it under its address (ImageInv); *)
(* and the other way round, the entry get_memory() finds for a frame it    *)
(* evicts is the one that leads to that frame (PageInv).  From these       *)
(* follow the safety of pinned frames and the address spaces, and with     *)
(* what is on the drive (DataInv) that no write is lost.                   *)
(*                                                                         *)
(* init_memory() and identity_map() are folds, which the provers do not    *)
(* unfold.  What they leave is stated as BootedSound, a formula on         *)
(* constants that TLC evaluates for its instance.                          *)
(***************************************************************************)
EXTENDS Paging, QueueLemmas

\* Past the acquisition of memory_lock, and anywhere in the handler
Inside == {"clear", "write", "take", "read", "map"}

Handling == {"lock"} \cup Inside

-----------------------------------------------------------------------------
(* The invariant *)

TypeInv ==
  /\ allocated \in Booted.allocated..PAGEABLE_PAGES
  /\ memoryblocks \in [Frames -> Blocks]
  /\ data \in [Frames -> [Sectors -> Values]]
  /\ tables \in [Frames -> [Index -> Entries]]
  /\ page_directory \in [Procs -> Frames]
  /\ disk \in [ImageSectors -> Values]
  /\ pc \in [Procs -> {"new", "run", "exited"} \cup Handling]
  /\ job \in [Procs -> {"setup", "fault", "bad"}]
  /\ fault_addr \in [Procs -> Int]
  /\ request \in [Procs -> Nat]
  /\ frame \in Frames /\ dirty \in BOOLEAN
  /\ DOMAIN written = Programs
  /\ \A p \in Programs : written[p] \in [Image(p) -> Values]

\* Who is in the handler has memory_lock or is queued for it, and only the owner
\* is past its acquisition.
LockInv ==
  /\ memory_lock \in Seq(Procs) /\ IsInjective(memory_lock)
  /\ ToSet(memory_lock) = {p \in Procs : pc[p] \in Handling}
  /\ \A p \in Procs : pc[p] \in Inside =>
       memory_lock # <<>> /\ Head(memory_lock) = p

\* setup_page_table() has come to its end for p.
Complete(p) == request[p] = 4 + nrOfTables(p)

PhaseInv ==
  \A p \in Procs :
    /\ p \in Threads => /\ request[p] = 0 /\ job[p] = "setup" /\ page_directory[p] = 0
                        /\ pc[p] \in {"new", "lock", "run"}
    /\ p \in Programs => request[p] \in 0..(4 + nrOfTables(p))
    /\ pc[p] = "new" => request[p] = 0 /\ job[p] = "setup"
    /\ p \in Programs /\ pc[p] \in Handling => (job[p] # "setup" <=> Complete(p))
    /\ p \in Programs /\ pc[p] = "run" => Complete(p)
    /\ pc[p] \in {"clear", "write", "take"} => job[p] # "bad"
    /\ pc[p] \in {"read", "map"} => job[p] = "fault"
    /\ job[p] = "fault" => fault_addr[p] \in Image(p)

\* The frame of the k-th request of setup_page_table(p)
Got(p, k) ==
  IF k = 1 THEN page_directory[p]
  ELSE IF k \in {3, 4}
  THEN FrameOf(tables[FrameOf(tables[page_directory[p]][get_directory_index(PROCESS_STACK)])]
                     [get_table_index(RequestAddr(k))])
  ELSE FrameOf(tables[page_directory[p]][get_directory_index(RequestAddr(k))])

\* The requests for tables, of those that were served
TableRequests(n) == {k \in 1..n : k = 2 \/ k >= 5}

\* The kernel's own frames are pinned and keep what they have.
KernelInv ==
  /\ \A i \in KernelFrames : tables[i] = Booted.tables[i] /\ memoryblocks[i].pinned
  /\ \A i \in Frames : i >= allocated => ~memoryblocks[i].pinned

\* Each request was given a frame of its own, which stays pinned for it.
GotInv ==
  \A p \in Programs : \A k \in 1..request[p] :
    /\ Got(p, k) \in Frames \ KernelFrames
    /\ memoryblocks[Got(p, k)] =
         [pcb |-> RequestPcb(p, k), vaddr |-> RequestAddr(k), pinned |-> TRUE]
    /\ \A q \in Programs : \A j \in 1..request[q] :
         Got(p, k) = Got(q, j) => p = q /\ k = j

\* The directory of a process: its tables, and the kernel's for the rest
DirectoryInv ==
  \A p \in Programs : request[p] >= 1 =>
    /\ \A k \in TableRequests(request[p]) :
         tables[page_directory[p]][get_directory_index(RequestAddr(k))].flags = {"P", "US"}
    /\ \A d \in Index \ {get_directory_index(RequestAddr(k)) : k \in TableRequests(request[p])} :
         tables[page_directory[p]][d] = Booted.tables[0][d]

\* The table of the stack leads to the stack pages and nowhere else.
StackInv ==
  \A p \in Programs : request[p] >= 2 =>
    \A i \in Index \ {get_table_index(RequestAddr(k)) : k \in {3, 4} \cap 1..request[p]} :
      tables[Got(p, 2)][i] = NoEntry

\* The request for the table in which the page of an image's address is entered
TableNo(a) == 5 + (((a - PROCESS_ENTRY) \div PAGE) \div PAGE_N_ENTRIES)

\* The entry of page i in the table of the k-th request
Cell(p, k, i) == tables[Got(p, k)][i]

\* The frame that is on its way from one page to another: not entered anywhere
Transit == {i \in {frame} : \E r \in Procs : pc[r] \in {"write", "take", "read", "map"}}

\* Frame i is known as the one of the page of address a of p.
IsPage(i, p, a) ==
  memoryblocks[i].pcb = p /\ memoryblocks[i].vaddr = a /\ Complete(p)

\* A page that is present is in an unpinned frame that is known under its
\* address.
ImageInv ==
  \A p \in Programs : \A k \in 5..request[p], i \in Index :
    LET f == FrameOf(Cell(p, k, i))
    IN  "P" \in Cell(p, k, i).flags =>
          /\ f \in 0..(allocated - 1) /\ f \notin Transit /\ ~memoryblocks[f].pinned
          /\ \E a \in Image(p) :
               /\ memoryblocks[f].pcb = p /\ memoryblocks[f].vaddr = a
               /\ Complete(p) /\ TableNo(a) = k /\ get_table_index(a) = i

\* The entry that is found for a frame is the one that leads to it.
PageInv ==
  \A i \in Frames : i < allocated /\ ~memoryblocks[i].pinned /\ i \notin Transit =>
    \E p \in Programs : \E a \in Image(p) :
      IsPage(i, p, a) /\ IsPresent(p, a) /\ FrameOf(EntryOf(p, a)) = i

\* What the owner of memory_lock relies on while it goes on
TransitInv ==
  /\ \A r \in Procs :
       /\ pc[r] \in Inside => ~memoryblocks[frame].pinned /\ frame < allocated
       /\ pc[r] = "write" => \E p \in Programs : \E a \in Image(p) :
                               IsPage(frame, p, a) /\ ~IsPresent(p, a)
       /\ pc[r] \in {"read", "map"} => memoryblocks[frame].pcb = r
                                         /\ memoryblocks[frame].vaddr = fault_addr[r]
  /\ \A p \in Programs : \A a \in Image(p) :
       pc[p] \in Handling /\ job[p] = "fault" /\ fault_addr[p] = a => ~IsPresent(p, a)

\* The sector of the drive for an address of an image
SectorOf(p, a) == swap_loc[p] + a - PROCESS_ENTRY

\* The frame whose page is about to be dropped as clean
Dropped == {i \in {frame} : ~dirty /\ \E r \in Procs : pc[r] = "clear"}

\* Where the last write to a is: with a page that is clean, or counts as clean,
\* on the drive as well
DataInv ==
  \A p \in Programs : \A a \in Image(p) :
    <<p, a>> \notin lost =>
      IF Complete(p) /\ IsPresent(p, a)
      THEN /\ written[p][a] = data[FrameOf(EntryOf(p, a))][a % PAGE]
           /\ "D" \notin EntryOf(p, a).flags \/ FrameOf(EntryOf(p, a)) \in Dropped =>
                written[p][a] = disk[SectorOf(p, a)]
      ELSE written[p][a] = IF BeingWritten(p, a) THEN data[frame][a % PAGE]
                           ELSE disk[SectorOf(p, a)]

\* A page that has been read in is as on the drive.
ReadInv ==
  \A r \in Procs : pc[r] = "map" =>
    \A a \in Image(r) : a \div PAGE = fault_addr[r] \div PAGE =>
      data[frame][a % PAGE] = disk[SectorOf(r, a)]

ControlInv == TypeInv /\ LockInv /\ PhaseInv

TablesInv == KernelInv /\ GotInv /\ DirectoryInv /\ StackInv

PagesInv == ImageInv /\ PageInv /\ TransitInv

IInv == ControlInv /\ TablesInv /\ PagesInv /\ DataInv /\ ReadInv

-----------------------------------------------------------------------------
(* Addresses *)

\* Quotient and remainder
LEMMA Divides ==
  ASSUME NEW n \in Int, NEW d \in Nat \ {0}
  PROVE  /\ n \div d \in Int /\ n % d \in 0..(d - 1)
         /\ n = d * (n \div d) + (n % d)
  OBVIOUS

\* A multiple of d is at least d.
LEMMA AtLeastOnce ==
  ASSUME NEW q \in Int, NEW d \in Nat \ {0}, q >= 1
  PROVE  d * q >= d
  OBVIOUS

\* There is only one quotient and one remainder.
LEMMA DividesOnce ==
  ASSUME NEW d \in Nat \ {0}, NEW q \in Int, NEW r \in 0..(d - 1),
         NEW p \in Int, NEW s \in 0..(d - 1), d * q + r = d * p + s
  PROVE  q = p /\ r = s
  <1>1. CASE q > p
    <2>1. d * (q - p) >= d
      BY <1>1, AtLeastOnce
    <2>2. d * (q - p) = s - r
      OBVIOUS
    <2>3. QED
      BY <2>1, <2>2
  <1>2. CASE q < p
    <2>1. d * (p - q) >= d
      BY <1>2, AtLeastOnce
    <2>2. d * (p - q) = r - s
      OBVIOUS
    <2>3. QED
      BY <2>1, <2>2
  <1>3. QED
    BY <1>1, <1>2

\* A multiple of a sum
LEMMA Distributes ==
  ASSUME NEW d \in Int, NEW m \in Int, NEW n \in Int
  PROVE  d * (m + n) = d * m + d * n
  OBVIOUS

\* What is given as quotient and remainder is found again.
LEMMA Divided ==
  ASSUME NEW d \in Nat \ {0}, NEW q \in Int, NEW r \in 0..(d - 1)
  PROVE  (d * q + r) \div d = q /\ (d * q + r) % d = r
  <1> DEFINE n == d * q + r
  <1>1. n \in Int
    OBVIOUS
  <1>2. n = d * (n \div d) + (n % d) /\ n \div d \in Int /\ n % d \in 0..(d - 1)
    BY <1>1, Divides
  <1>3. QED
    BY <1>2, DividesOnce

\* Division does not turn the order around.
LEMMA DividesInOrder ==
  ASSUME NEW d \in Nat \ {0}, NEW m \in Int, NEW n \in Int, m <= n
  PROVE  m \div d <= n \div d
  <1> DEFINE q == m \div d
             p == n \div d
  <1>1. /\ q \in Int /\ p \in Int /\ m % d \in 0..(d - 1) /\ n % d \in 0..(d - 1)
        /\ m = d * q + (m % d) /\ n = d * p + (n % d)
    BY Divides
  <1> HIDE DEF q, p
  <1>2. CASE q > p
    <2>1. d * (q - p) >= d
      BY <1>1, <1>2, AtLeastOnce
    <2>2. d * (q - p) = d * q - d * p
      BY <1>1
    <2>3. QED
      BY <1>1, <2>1, <2>2
  <1>3. QED
    BY <1>1, <1>2 DEF q, p

\* An address is a sector of a page, and a page an entry of a table.
LEMMA Address ==
  ASSUME NEW a \in Int
  PROVE  /\ a \div PAGE \in Int /\ a % PAGE \in Sectors
         /\ a = PAGE * (a \div PAGE) + (a % PAGE)
         /\ get_table_index(a) \in Index /\ get_directory_index(a) \in Int
         /\ a \div PAGE = PAGE_N_ENTRIES * get_directory_index(a) + get_table_index(a)
  <1>1. PAGE \in Nat \ {0} /\ PAGE_N_ENTRIES \in Nat \ {0}
    BY PagingAssumption DEF PAGE
  <1>2. /\ a \div PAGE \in Int /\ a % PAGE \in 0..(PAGE - 1)
        /\ a = PAGE * (a \div PAGE) + (a % PAGE)
    BY <1>1, Divides
  <1>3. LET v == a \div PAGE
        IN  /\ v \div PAGE_N_ENTRIES \in Int /\ v % PAGE_N_ENTRIES \in 0..(PAGE_N_ENTRIES - 1)
            /\ v = PAGE_N_ENTRIES * (v \div PAGE_N_ENTRIES) + (v % PAGE_N_ENTRIES)
    BY <1>1, <1>2, Divides
  <1>4. QED
    BY <1>2, <1>3 DEF Sectors, Index, get_table_index, get_directory_index, PAGE

\* Region and index say which page it is, page and offset which address.
LEMMA SamePage ==
  ASSUME NEW a \in Int, NEW b \in Int
  PROVE  /\ (a \div PAGE = b \div PAGE) <=>
              /\ get_directory_index(a) = get_directory_index(b)
              /\ get_table_index(a) = get_table_index(b)
         /\ a \div PAGE = b \div PAGE /\ a % PAGE = b % PAGE => a = b
  <1>1. /\ a = PAGE * (a \div PAGE) + (a % PAGE)
        /\ a \div PAGE = PAGE_N_ENTRIES * get_directory_index(a) + get_table_index(a)
    BY Address
  <1>2. /\ b = PAGE * (b \div PAGE) + (b % PAGE)
        /\ b \div PAGE = PAGE_N_ENTRIES * get_directory_index(b) + get_table_index(b)
    BY Address
  <1>3. a \div PAGE = b \div PAGE => /\ get_directory_index(a) = get_directory_index(b)
                                     /\ get_table_index(a) = get_table_index(b)
    BY DEF get_directory_index, get_table_index
  <1>4. QED
    BY <1>1, <1>2, <1>3

\* The region in which images begin
FirstRegion == PROCESS_ENTRY \div (PAGE * PAGE_N_ENTRIES)

\* Images begin with a region.
LEMMA EntryAligned ==
  /\ PAGE \in Nat \ {0} /\ PAGE_N_ENTRIES \in Nat \ {0} /\ FirstRegion \in Int
  /\ PROCESS_ENTRY = PAGE * (PAGE_N_ENTRIES * FirstRegion)
  <1>1. PAGE \in Nat \ {0} /\ PAGE_N_ENTRIES \in Nat \ {0} /\ PROCESS_ENTRY \in Int
    BY PagingAssumption DEF PAGE
  <1>2. PAGE * PAGE_N_ENTRIES \in Nat \ {0}
    BY <1>1
  <1>3. /\ FirstRegion \in Int
        /\ PROCESS_ENTRY = (PAGE * PAGE_N_ENTRIES) * FirstRegion
                             + (PROCESS_ENTRY % (PAGE * PAGE_N_ENTRIES))
    BY <1>1, <1>2, Divides DEF FirstRegion
  <1>4. PROCESS_ENTRY % (PAGE * PAGE_N_ENTRIES) = 0
    BY PagingAssumption
  <1>5. (PAGE * PAGE_N_ENTRIES) * FirstRegion = PAGE * (PAGE_N_ENTRIES * FirstRegion)
    BY <1>1, <1>3
  <1>6. QED
    BY <1>1, <1>3, <1>4, <1>5

\* The j-th table of an image is for the j-th region.
LEMMA RegionOf ==
  ASSUME NEW j \in Int
  PROVE  get_directory_index(PROCESS_ENTRY + j * PAGE_N_ENTRIES * PAGE) = FirstRegion + j
  <1> DEFINE r == FirstRegion + j
             v == PAGE_N_ENTRIES * r
  <1>1. r \in Int /\ v \in Int
    BY EntryAligned
  <1>2. PROCESS_ENTRY + j * PAGE_N_ENTRIES * PAGE = PAGE * v + 0
    <2>1. v = PAGE_N_ENTRIES * FirstRegion + PAGE_N_ENTRIES * j
      BY EntryAligned
    <2>2. PAGE * v = PAGE * (PAGE_N_ENTRIES * FirstRegion) + PAGE * (PAGE_N_ENTRIES * j)
      BY <2>1, EntryAligned
    <2>3. j * PAGE_N_ENTRIES * PAGE = PAGE * (PAGE_N_ENTRIES * j)
      BY EntryAligned
    <2>4. QED
      BY <2>2, <2>3, EntryAligned
  <1>3. (PAGE * v + 0) \div PAGE = v /\ v = PAGE_N_ENTRIES * r + 0
    BY <1>1, EntryAligned, Divided
  <1>4. (PAGE_N_ENTRIES * r + 0) \div PAGE_N_ENTRIES = r
    BY <1>1, EntryAligned, Divided
  <1>5. QED
    BY <1>2, <1>3, <1>4 DEF get_directory_index

\* The number of tables of an image
LEMMA TablesCount ==
  ASSUME NEW p \in Programs
  PROVE  nrOfPages(p) \in Int /\ nrOfTables(p) \in Nat /\ nrOfTables(p) >= 1
  <1> DEFINE n == swap_size[p] + SECTORS_PER_PAGE - 1
             w == n \div SECTORS_PER_PAGE
  <1>1. n \in Int /\ n >= 0 /\ SECTORS_PER_PAGE \in Nat \ {0}
    BY PagingAssumption
  <1> HIDE DEF n
  <1>2. w \in Int /\ w >= 0 \div SECTORS_PER_PAGE
    BY <1>1, Divides, DividesInOrder
  <1>3. 0 \div SECTORS_PER_PAGE = 0
    BY <1>1, Divided, SECTORS_PER_PAGE * 0 + 0 = 0
  <1>4. PAGE_N_ENTRIES \in Nat \ {0}
    BY PagingAssumption
  <1> HIDE DEF w
  <1>5. w \div PAGE_N_ENTRIES \in Int /\ w \div PAGE_N_ENTRIES >= 0 \div PAGE_N_ENTRIES
    <2>1. w \in Int /\ 0 <= w
      BY <1>2, <1>3
    <2>2. QED
      BY <1>4, <2>1, Divides, DividesInOrder
  <1>6. 0 \div PAGE_N_ENTRIES = 0
    BY <1>4, Divided, PAGE_N_ENTRIES * 0 + 0 = 0
  <1>7. QED
    BY <1>2, <1>5, <1>6 DEF nrOfTables, nrOfPages, w, n

\* An address of an image is in the table that was made for it, and its sector
\* is one of those of its page.
LEMMA ImageAddress ==
  ASSUME NEW p \in Programs, NEW a \in Image(p)
  PROVE  /\ a \in Int /\ TableNo(a) \in 5..(4 + nrOfTables(p))
         /\ get_directory_index(a) = FirstRegion + (TableNo(a) - 5)
         /\ a - PROCESS_ENTRY =
              ((a - PROCESS_ENTRY) \div SECTORS_PER_PAGE) * SECTORS_PER_PAGE + (a % PAGE)
         /\ (a - PROCESS_ENTRY) \div SECTORS_PER_PAGE =
              (a \div PAGE) - PAGE_N_ENTRIES * FirstRegion
  <1> DEFINE o == a - PROCESS_ENTRY
             w == o \div PAGE
             t == w \div PAGE_N_ENTRIES
  <1>1. /\ a \in Int /\ o \in Nat /\ o <= swap_size[p] - 1 /\ swap_size[p] \in Nat
        /\ a = PROCESS_ENTRY + o
    BY PagingAssumption DEF Image
  <1> HIDE DEF o
  <1>2. w \in Int /\ o % PAGE \in 0..(PAGE - 1) /\ o = PAGE * w + (o % PAGE)
    BY <1>1, EntryAligned, Divides
  <1>3. /\ t \in Int /\ w % PAGE_N_ENTRIES \in 0..(PAGE_N_ENTRIES - 1)
        /\ w = PAGE_N_ENTRIES * t + (w % PAGE_N_ENTRIES)
    BY <1>2, EntryAligned, Divides
  <1>4. TableNo(a) = 5 + t
    BY DEF TableNo, o
  <1>5. t >= 0
    <2>1. 0 \div PAGE = 0 /\ 0 \div PAGE_N_ENTRIES = 0
      BY EntryAligned, Divided, PAGE * 0 + 0 = 0, PAGE_N_ENTRIES * 0 + 0 = 0
    <2>2. w >= 0 \div PAGE
      BY <1>1, EntryAligned, DividesInOrder
    <2>3. w \in Int /\ 0 <= w
      BY <1>2, <2>1, <2>2
    <2>4. w \div PAGE_N_ENTRIES >= 0 \div PAGE_N_ENTRIES
      <3> HIDE DEF w
      <3>1. QED
        BY <2>3, EntryAligned, DividesInOrder
    <2>5. QED
      BY <2>1, <2>4
  <1>6. t <= nrOfTables(p) - 1
    <2>1. w <= nrOfPages(p) /\ nrOfPages(p) \in Int
      BY <1>1, EntryAligned, TablesCount, DividesInOrder DEF nrOfPages, PAGE
    <2>2. t <= nrOfPages(p) \div PAGE_N_ENTRIES
      BY <1>2, <2>1, EntryAligned, DividesInOrder
    <2>3. nrOfPages(p) \div PAGE_N_ENTRIES \in Int
      BY <2>1, EntryAligned, Divides
    <2>4. QED
      BY <1>3, <2>2, <2>3 DEF nrOfTables
  <1> HIDE DEF w, t
  <1> DEFINE f == PAGE_N_ENTRIES * FirstRegion
             v == f + w
             r == FirstRegion + t
  <1>7. f \in Int /\ r \in Int /\ PROCESS_ENTRY = PAGE * f
    BY <1>2, <1>3, EntryAligned
  <1> HIDE DEF f
  <1>8. v \in Int /\ PAGE * v = PAGE * f + PAGE * w
    BY <1>2, <1>7, EntryAligned, Distributes
  <1>9. PAGE_N_ENTRIES * r = f + PAGE_N_ENTRIES * t
    BY <1>3, EntryAligned, Distributes DEF f
  <1>10. v = PAGE_N_ENTRIES * r + (w % PAGE_N_ENTRIES)
    <2> DEFINE x == PAGE_N_ENTRIES * t
               z == w % PAGE_N_ENTRIES
    <2>1. x \in Int /\ z \in Int /\ w = x + z
      BY <1>3, EntryAligned
    <2>2. PAGE_N_ENTRIES * r = f + x
      BY <1>9
    <2> HIDE DEF x
    <2>3. QED
      BY <1>7, <2>1, <2>2
  <1> HIDE DEF v, r
  <1>11. a = PAGE * v + (o % PAGE)
    <2> DEFINE x == PAGE * w
               z == PAGE * f
    <2>1. x \in Int /\ o % PAGE \in Int /\ z \in Int
      BY <1>2, <1>7, EntryAligned
    <2>2. o = x + (o % PAGE) /\ a = z + o /\ PAGE * v = z + x
      BY <1>1, <1>2, <1>7, <1>8
    <2> HIDE DEF x, z
    <2>3. QED
      BY <2>1, <2>2
  <1>12. a \div PAGE = v /\ a % PAGE = o % PAGE
    BY <1>2, <1>8, <1>11, EntryAligned, Divided
  <1>13. get_directory_index(a) = r
    <2>1. v \div PAGE_N_ENTRIES = r
      BY <1>3, <1>7, <1>10, EntryAligned, Divided
    <2>2. QED
      BY <1>12, <2>1 DEF get_directory_index
  <1>14. PAGE * w = w * PAGE
    BY <1>2, EntryAligned
  <1>15. w = (a - PROCESS_ENTRY) \div SECTORS_PER_PAGE /\ PAGE = SECTORS_PER_PAGE
    BY DEF w, o, PAGE
  <1>16. TableNo(a) \in 5..(4 + nrOfTables(p)) /\ get_directory_index(a) = FirstRegion + (TableNo(a) - 5)
    BY <1>3, <1>4, <1>5, <1>6, <1>13, TablesCount, EntryAligned DEF r
  <1>17. a - PROCESS_ENTRY = w * PAGE + (a % PAGE)
    BY <1>2, <1>12, <1>14 DEF o
  <1>18. w = (a \div PAGE) - f
    BY <1>2, <1>7, <1>12 DEF v
  <1>19. QED
    BY <1>1, <1>15, <1>16, <1>17, <1>18 DEF f

\* The sectors of a page lie in the image, and are not more than fit in a page.
LEMMA PlaceBounds ==
  ASSUME NEW q \in Programs, NEW b \in Image(q)
  PROVE  /\ Place(q, b).location \in Int /\ Place(q, b).sectors \in Int
         /\ Place(q, b).location >= swap_loc[q]
         /\ Place(q, b).location + Place(q, b).sectors <= swap_loc[q] + swap_size[q]
         /\ Place(q, b).sectors <= SECTORS_PER_PAGE
  <1> DEFINE w == (b - PROCESS_ENTRY) \div SECTORS_PER_PAGE
             x == w * SECTORS_PER_PAGE
             o == b % PAGE
  <1>1. /\ SECTORS_PER_PAGE \in Nat \ {0} /\ b \in Int /\ b - PROCESS_ENTRY \in Nat
        /\ swap_loc[q] \in Nat /\ swap_size[q] \in Nat
    BY PagingAssumption DEF Image
  <1>2. o \in 0..(SECTORS_PER_PAGE - 1)
    BY <1>1, Address DEF Sectors
  <1>3. w \in Int
    <2> DEFINE z == b - PROCESS_ENTRY
    <2>1. z \in Int
      BY <1>1
    <2> HIDE DEF z
    <2>2. z \div SECTORS_PER_PAGE \in Int
      BY <1>1, <2>1, Divides
    <2>3. QED
      BY <2>2 DEF z
  <1>4. b - PROCESS_ENTRY = x + o
    BY ImageAddress
  <1>5. /\ Place(q, b).location = swap_loc[q] + x
        /\ Place(q, b).sectors = IF SECTORS_PER_PAGE + x > swap_size[q]
                                 THEN swap_size[q] - x ELSE SECTORS_PER_PAGE
    BY DEF Place
  <1> HIDE DEF w, o
  <1>6. x \in Int /\ x = SECTORS_PER_PAGE * w
    BY <1>1, <1>3
  <1>7. w >= 0
    <2>1. SUFFICES ASSUME w < 0 PROVE FALSE
      BY <1>3
    <2>2. SECTORS_PER_PAGE * (0 - w) >= SECTORS_PER_PAGE
      BY <1>1, <1>3, <2>1, AtLeastOnce
    <2>3. SECTORS_PER_PAGE * (0 - w) = 0 - x
      BY <1>1, <1>3
    <2> HIDE DEF x
    <2>4. QED
      BY <1>1, <1>2, <1>4, <1>6, <2>2, <2>3
  <1>8. x >= 0
    BY <1>1, <1>3, <1>7
  <1> HIDE DEF x
  <1>9. QED
    BY <1>1, <1>5, <1>6, <1>8

\* Pages of images are kept in sectors of their own: the sector of an address is
\* among those of a page only if the address is on that page, and then at its
\* offset.
LEMMA PlaceExact ==
  ASSUME NEW p \in Programs, NEW a \in Image(p), NEW q \in Programs, NEW b \in Image(q)
  PROVE  /\ Place(q, b).location \in Int /\ Place(q, b).sectors \in Int
         /\ (SectorOf(p, a) \in
               Place(q, b).location..(Place(q, b).location + Place(q, b).sectors - 1))
              <=> p = q /\ a \div PAGE = b \div PAGE
         /\ p = q /\ a \div PAGE = b \div PAGE =>
              SectorOf(p, a) - Place(q, b).location = a % PAGE
  <1> DEFINE l == Place(q, b).location
             n == Place(q, b).sectors
             w == (b - PROCESS_ENTRY) \div SECTORS_PER_PAGE
             x == w * SECTORS_PER_PAGE
             v == (a - PROCESS_ENTRY) \div SECTORS_PER_PAGE
             y == v * SECTORS_PER_PAGE
  <1>1. /\ a \in Int /\ b \in Int /\ PROCESS_ENTRY \in Int /\ SECTORS_PER_PAGE \in Nat \ {0}
        /\ swap_loc[p] \in Nat /\ swap_loc[q] \in Nat
        /\ swap_size[p] \in Nat /\ swap_size[q] \in Nat
        /\ a - PROCESS_ENTRY \in 0..(swap_size[p] - 1) /\ b - PROCESS_ENTRY \in 0..(swap_size[q] - 1)
    BY PagingAssumption DEF Image
  <1>2. /\ a % PAGE \in 0..(SECTORS_PER_PAGE - 1) /\ b % PAGE \in 0..(SECTORS_PER_PAGE - 1)
        /\ a \div PAGE \in Int /\ b \div PAGE \in Int
    BY <1>1, Address DEF Sectors
  <1>3. a - PROCESS_ENTRY = y + (a % PAGE) /\ b - PROCESS_ENTRY = x + (b % PAGE)
    BY ImageAddress
  <1>4. v \in Int /\ w \in Int /\ ((v = w) <=> (a \div PAGE = b \div PAGE))
    <2>1. v = (a \div PAGE) - PAGE_N_ENTRIES * FirstRegion
      BY ImageAddress
    <2>2. w = (b \div PAGE) - PAGE_N_ENTRIES * FirstRegion
      BY ImageAddress
    <2> DEFINE f == PAGE_N_ENTRIES * FirstRegion
    <2>3. f \in Int
      BY EntryAligned
    <2> HIDE DEF f, v, w
    <2>4. QED
      BY <1>2, <2>1, <2>2, <2>3 DEF f
  <1>5. /\ l = swap_loc[q] + x
        /\ n = IF SECTORS_PER_PAGE + x > swap_size[q] THEN swap_size[q] - x ELSE SECTORS_PER_PAGE
    BY DEF Place
  <1> HIDE DEF v, w
  <1>6. x \in Int /\ y \in Int /\ (v = w => x = y)
    BY <1>1, <1>4
  <1>7. v # w => ~ (y + (a % PAGE) \in x..(x + SECTORS_PER_PAGE - 1))
    <2>1. SUFFICES ASSUME v # w, y + (a % PAGE) \in x..(x + SECTORS_PER_PAGE - 1) PROVE FALSE
      OBVIOUS
    <2> DEFINE z == y + (a % PAGE) - x
    <2>2. y = SECTORS_PER_PAGE * v /\ x = SECTORS_PER_PAGE * w
      BY <1>1, <1>4
    <2> HIDE DEF x, y
    <2>3. z \in 0..(SECTORS_PER_PAGE - 1) /\ y + (a % PAGE) = x + z
      BY <1>1, <1>2, <1>6, <2>1
    <2> HIDE DEF z
    <2>4. SECTORS_PER_PAGE * v + (a % PAGE) = SECTORS_PER_PAGE * w + z
      BY <2>2, <2>3
    <2>5. QED
      BY <1>1, <1>2, <1>4, <2>1, <2>3, <2>4, DividesOnce
  <1>8. SectorOf(p, a) = swap_loc[p] + (y + (a % PAGE))
    BY <1>1, <1>3 DEF SectorOf
  <1> DEFINE m == a % PAGE
  <1>9. m \in 0..(SECTORS_PER_PAGE - 1)
    BY <1>2
  <1>10. y + m \in 0..(swap_size[p] - 1)
    BY <1>1, <1>3
  <1> HIDE DEF x, y, l, n, m
  <1>11. l \in Int /\ n \in Int
    BY <1>1, <1>5, <1>6
  <1>12. p # q => ~ (swap_loc[p] + (y + m) \in l..(l + n - 1))
    <2>1. p # q => swap_loc[p] + swap_size[p] <= swap_loc[q]
                     \/ swap_loc[q] + swap_size[q] <= swap_loc[p]
      BY PagingAssumption
    <2>2. l >= swap_loc[q] /\ l + n <= swap_loc[q] + swap_size[q]
      BY PlaceBounds DEF l, n
    <2>3. QED
      BY <1>1, <1>6, <1>9, <1>10, <1>11, <2>1, <2>2
  <1>13. p = q /\ v = w => swap_loc[p] + (y + m) \in l..(l + n - 1) /\ swap_loc[p] + (y + m) - l = m
    BY <1>1, <1>5, <1>6, <1>9, <1>10
  <1>14. p = q /\ v # w => ~ (swap_loc[p] + (y + m) \in l..(l + n - 1))
    BY <1>1, <1>5, <1>6, <1>7, <1>9, <1>10, <1>11 DEF m
  <1>15. SectorOf(p, a) = swap_loc[p] + (y + m)
    BY <1>8 DEF m
  <1>16. (SectorOf(p, a) \in l..(l + n - 1)) <=> (p = q /\ v = w)
    BY <1>12, <1>13, <1>14, <1>15
  <1>17. p = q /\ v = w => SectorOf(p, a) - l = m
    BY <1>1, <1>6, <1>9, <1>11, <1>13, <1>15
  <1>18. (v = w) <=> (a \div PAGE = b \div PAGE)
    BY <1>4
  <1>19. l = Place(q, b).location /\ n = Place(q, b).sectors /\ m = a % PAGE
    BY DEF l, n, m
  <1> HIDE DEF Place, SectorOf
  <1>20. QED
    BY <1>11, <1>16, <1>17, <1>18, <1>19

\* The addresses of the requests, and the regions of the tables
LEMMA Requests ==
  ASSUME NEW p \in Programs
  PROVE  /\ RequestAddr(1) = 0 /\ RequestAddr(2) = PROCESS_STACK
         /\ RequestAddr(3) = PROCESS_STACK /\ RequestAddr(4) = PROCESS_STACK - PAGE
         /\ get_directory_index(PROCESS_STACK) \in Index
         /\ get_directory_index(PROCESS_STACK) \in StackRegions
         /\ \A k \in 5..(4 + nrOfTables(p)) :
              /\ RequestAddr(k) = PROCESS_ENTRY + (k - 5) * PAGE_N_ENTRIES * PAGE
              /\ RequestAddr(k) \in Int
              /\ get_directory_index(RequestAddr(k)) = FirstRegion + (k - 5)
              /\ get_directory_index(RequestAddr(k)) \in Index
              /\ get_directory_index(RequestAddr(k)) \in ImageRegions(p)
  <1>1. /\ RequestAddr(1) = 0 /\ RequestAddr(2) = PROCESS_STACK
        /\ RequestAddr(3) = PROCESS_STACK /\ RequestAddr(4) = PROCESS_STACK - PAGE
    BY DEF RequestAddr
  <1>2. /\ get_directory_index(PROCESS_STACK) \in Index
        /\ get_directory_index(PROCESS_STACK) \in StackRegions
    <2>1. PROCESS_STACK - 0 * PAGE = PROCESS_STACK
      BY PagingAssumption DEF PAGE
    <2>2. get_directory_index(PROCESS_STACK) \in StackRegions
      BY <2>1 DEF StackRegions
    <2>3. QED
      BY <2>2, PagingAssumption
  <1>3. ASSUME NEW k \in 5..(4 + nrOfTables(p))
        PROVE  /\ RequestAddr(k) = PROCESS_ENTRY + (k - 5) * PAGE_N_ENTRIES * PAGE
               /\ RequestAddr(k) \in Int
               /\ get_directory_index(RequestAddr(k)) = FirstRegion + (k - 5)
               /\ get_directory_index(RequestAddr(k)) \in Index
               /\ get_directory_index(RequestAddr(k)) \in ImageRegions(p)
    <2>1. k \in Int /\ k >= 5 /\ k - 5 \in 0..(nrOfTables(p) - 1)
      BY TablesCount
    <2>2. RequestAddr(k) = PROCESS_ENTRY + (k - 5) * PAGE_N_ENTRIES * PAGE
      BY <2>1 DEF RequestAddr
    <2>3. RequestAddr(k) \in Int
      BY <2>1, <2>2, EntryAligned, PagingAssumption
    <2>4. get_directory_index(RequestAddr(k)) = FirstRegion + (k - 5)
      BY <2>1, <2>2, RegionOf
    <2>5. get_directory_index(RequestAddr(k)) \in ImageRegions(p)
      BY <2>1, <2>2 DEF ImageRegions
    <2>6. QED
      BY <2>2, <2>3, <2>4, <2>5, PagingAssumption
  <1>4. QED
    BY <1>1, <1>2, <1>3

\* No two tables of a process are for the same region.
LEMMA RegionsApart ==
  ASSUME NEW p \in Programs,
         NEW j \in {2} \cup 5..(4 + nrOfTables(p)), NEW k \in {2} \cup 5..(4 + nrOfTables(p)),
         get_directory_index(RequestAddr(j)) = get_directory_index(RequestAddr(k))
  PROVE  j = k
  <1>1. ImageRegions(p) \cap StackRegions = {}
    BY PagingAssumption
  <1>2. CASE j = 2 \/ k = 2
    BY <1>1, <1>2, Requests
  <1>3. CASE j # 2 /\ k # 2
    <2>1. FirstRegion + (j - 5) = FirstRegion + (k - 5) /\ j \in Int /\ k \in Int
      BY <1>3, Requests, TablesCount
    <2>2. QED
      BY <2>1, EntryAligned
  <1>4. QED
    BY <1>2, <1>3

\* The two stack pages are neighbours in the same table.
LEMMA StackAddress ==
  /\ PROCESS_STACK \in Int /\ PROCESS_STACK - PAGE \in Int
  /\ get_directory_index(PROCESS_STACK - PAGE) = get_directory_index(PROCESS_STACK)
  /\ get_table_index(PROCESS_STACK - PAGE) # get_table_index(PROCESS_STACK)
  /\ get_table_index(PROCESS_STACK) \in Index /\ get_table_index(PROCESS_STACK - PAGE) \in Index
  /\ (PROCESS_STACK - PAGE) \div PAGE = (PROCESS_STACK \div PAGE) - 1
  <1> DEFINE s == PROCESS_STACK
             v == PROCESS_STACK \div PAGE
  <1>1. s \in Int /\ s - PAGE \in Int /\ PAGE \in Nat \ {0}
    BY PagingAssumption DEF PAGE
  <1>2. (s - PAGE) \div PAGE = v - 1
    <2>1. v \in Int /\ s % PAGE \in 0..(PAGE - 1) /\ s = PAGE * v + (s % PAGE)
      BY <1>1, Divides
    <2>2. s - PAGE = PAGE * (v - 1) + (s % PAGE)
      BY <1>1, <2>1
    <2>3. v - 1 \in Int
      BY <2>1
    <2>4. QED
      BY <1>1, <2>1, <2>2, <2>3, Divided
  <1>3. get_directory_index(s - PAGE) = get_directory_index(s)
    <2>1. s - 0 * PAGE = s /\ s - 1 * PAGE = s - PAGE
      BY <1>1
    <2>2. get_directory_index(s) \in StackRegions /\ get_directory_index(s - PAGE) \in StackRegions
      BY <2>1 DEF StackRegions
    <2>3. QED
      BY <2>2, PagingAssumption
  <1>4. v \in Int /\ (s - PAGE) \div PAGE # v
    BY <1>1, <1>2, Address
  <1>5. get_table_index(s - PAGE) # get_table_index(s)
    BY <1>1, <1>3, <1>4, SamePage
  <1>6. QED
    BY <1>1, <1>2, <1>3, <1>5, Address

-----------------------------------------------------------------------------
(* memory_lock *)

\* Only the owner of memory_lock is past its acquisition.
LEMMA AloneInside ==
  ASSUME LockInv, NEW p \in Procs, NEW l, Owns(p, l)
  PROVE  /\ memory_lock # <<>> /\ Head(memory_lock) = p /\ pc[p] = l /\ l \in Handling
         /\ \A r \in Procs : pc[r] \in Inside => r = p
  <1>1. memory_lock # <<>> /\ Head(memory_lock) = p /\ pc[p] = l
    BY DEF Owns
  <1>2. p \in ToSet(memory_lock)
    BY <1>1, LeavesFirst DEF LockInv
  <1>3. QED
    BY <1>1, <1>2 DEF LockInv

\* lock_acquire() by a process that is not in the handler
LEMMA AcquireLock ==
  ASSUME TypeInv, LockInv, NEW p \in Procs, pc[p] \notin Handling, LockAcquire(p), Goto(p, "lock")
  PROVE  LockInv'
  <1>1. /\ memory_lock \in Seq(Procs) /\ IsInjective(memory_lock)
        /\ ToSet(memory_lock) = {q \in Procs : pc[q] \in Handling}
        /\ \A q \in Procs : pc[q] \in Inside => memory_lock # <<>> /\ Head(memory_lock) = q
    BY DEF LockInv
  <1>2. memory_lock' = Append(memory_lock, p) /\ pc' = [pc EXCEPT ![p] = "lock"]
    BY DEF LockAcquire, Goto
  <1>3. p \notin ToSet(memory_lock)
    BY <1>1
  <1>4. /\ memory_lock' \in Seq(Procs) /\ IsInjective(memory_lock') /\ memory_lock' # <<>>
        /\ ToSet(memory_lock') = ToSet(memory_lock) \cup {p}
    BY <1>1, <1>2, <1>3, Joins
  <1>5. \A q \in Procs : pc'[q] = IF q = p THEN "lock" ELSE pc[q]
    BY <1>2 DEF TypeInv
  <1>6. ToSet(memory_lock') = {q \in Procs : pc'[q] \in Handling}
    BY <1>1, <1>4, <1>5 DEF Handling
  <1>7. memory_lock # <<>> => Head(memory_lock') = Head(memory_lock)
    BY <1>1, <1>2
  <1>8. "lock" \notin Inside
    BY DEF Inside
  <1>9. QED
    BY <1>1, <1>4, <1>5, <1>6, <1>7, <1>8 DEF LockInv

\* The owner goes on in the handler.
LEMMA KeepLock ==
  ASSUME TypeInv, LockInv, NEW p \in Procs, NEW l, Owns(p, l), NEW m \in Handling,
         memory_lock' = memory_lock, Goto(p, m)
  PROVE  LockInv'
  <1>1. /\ memory_lock # <<>> /\ Head(memory_lock) = p /\ pc[p] \in Handling
        /\ \A r \in Procs : pc[r] \in Inside => r = p
    BY AloneInside
  <1>2. \A q \in Procs : pc'[q] = IF q = p THEN m ELSE pc[q]
    BY DEF TypeInv, Goto
  <1>3. {q \in Procs : pc'[q] \in Handling} = {q \in Procs : pc[q] \in Handling}
    BY <1>1, <1>2
  <1>4. QED
    BY <1>1, <1>2, <1>3 DEF LockInv

\* The owner releases memory_lock and leaves the handler.
LEMMA ReleaseLock ==
  ASSUME TypeInv, LockInv, NEW p \in Procs, NEW l, Owns(p, l), NEW m, m \notin Handling,
         LockRelease, Goto(p, m)
  PROVE  LockInv'
  <1>1. /\ memory_lock # <<>> /\ Head(memory_lock) = p /\ pc[p] \in Handling
        /\ \A r \in Procs : pc[r] \in Inside => r = p
    BY AloneInside
  <1>2. memory_lock' = Tail(memory_lock) /\ memory_lock \in Seq(Procs) /\ IsInjective(memory_lock)
    BY DEF LockRelease, LockInv
  <1>3. /\ memory_lock' \in Seq(Procs) /\ IsInjective(memory_lock')
        /\ ToSet(memory_lock') = ToSet(memory_lock) \ {p}
    BY <1>1, <1>2, LeavesFirst
  <1>4. \A q \in Procs : pc'[q] = IF q = p THEN m ELSE pc[q]
    BY DEF TypeInv, Goto
  <1>5. {q \in Procs : pc'[q] \in Handling} = {q \in Procs : pc[q] \in Handling} \ {p}
    BY <1>1, <1>4
  <1>6. \A q \in Procs : pc'[q] \notin Inside
    BY <1>1, <1>4 DEF Handling
  <1>7. QED
    BY <1>3, <1>5, <1>6 DEF LockInv

-----------------------------------------------------------------------------
(* Tables *)

\* The entry of an image's page is in the table that was made for it.
LEMMA ImageCell ==
  ASSUME NEW p \in Programs, NEW a \in Image(p)
  PROVE  /\ EntryOf(p, a) = Cell(p, TableNo(a), get_table_index(a))
         /\ EntryOf(p, a)' = Cell(p, TableNo(a), get_table_index(a))'
         /\ TableOf(p, a) = Got(p, TableNo(a)) /\ TableOf(p, a)' = Got(p, TableNo(a))'
         /\ TableNo(a) \in 5..(4 + nrOfTables(p)) /\ get_table_index(a) \in Index /\ a \in Int
  <1>1. /\ TableNo(a) \in 5..(4 + nrOfTables(p)) /\ a \in Int
        /\ get_directory_index(a) = get_directory_index(RequestAddr(TableNo(a)))
    BY ImageAddress, Requests
  <1>2. TableNo(a) # 1 /\ TableNo(a) \notin {3, 4}
    BY <1>1, TablesCount
  <1>3. TableOf(p, a) = Got(p, TableNo(a)) /\ TableOf(p, a)' = Got(p, TableNo(a))'
    BY <1>1, <1>2 DEF TableOf, Got
  <1>4. QED
    BY <1>1, <1>3, Address DEF EntryOf, Cell

\* Two addresses of an image have the same entry if they are on the same page.
LEMMA SameCell ==
  ASSUME NEW p \in Programs, NEW a \in Image(p), NEW b \in Image(p)
  PROVE  (a \div PAGE = b \div PAGE) <=>
           TableNo(a) = TableNo(b) /\ get_table_index(a) = get_table_index(b)
  <1>1. /\ a \in Int /\ TableNo(a) \in Int
        /\ get_directory_index(a) = FirstRegion + (TableNo(a) - 5)
    BY ImageAddress, TablesCount
  <1>2. /\ b \in Int /\ TableNo(b) \in Int
        /\ get_directory_index(b) = FirstRegion + (TableNo(b) - 5)
    BY ImageAddress, TablesCount
  <1>3. (get_directory_index(a) = get_directory_index(b)) <=> TableNo(a) = TableNo(b)
    BY <1>1, <1>2, EntryAligned
  <1>4. QED
    BY <1>1, <1>2, <1>3, SamePage

\* The frame an entry that was made for frame i leads to
LEMMA EntryLeads ==
  ASSUME NEW i \in Frames, NEW fl \in SUBSET {"P", "US", "D"}
  PROVE  /\ Entry(MEM_START + i, fl) \in Entries /\ FrameOf(Entry(MEM_START + i, fl)) = i
         /\ Entry(MEM_START + i, fl).flags = fl
  BY PagingAssumption DEF Entry, Entries, FrameOf, Frames

\* The kernel's frame 0, and what is and is not one of its frames
LEMMA KernelFrameZero ==
  ASSUME BootedSound
  PROVE  /\ 0 \in Frames /\ 0 \in KernelFrames /\ KernelFrames \subseteq Frames
         /\ Booted.allocated \in Nat /\ PAGEABLE_PAGES \in Nat
         /\ NoEntry \in Entries /\ EmptyTable \in [Index -> Entries]
         /\ \A i \in Index : EmptyTable[i] = NoEntry /\ NoEntry.flags = {}
  BY PagingAssumption DEF BootedSound, Frames, KernelFrames, NoEntry, EmptyTable, Entry, Entries

\* What is known of the frames of requests
LEMMA GotFacts ==
  ASSUME BootedSound, TypeInv, PhaseInv, TablesInv, NEW p \in Programs
  PROVE  /\ p \in Procs /\ request[p] \in Nat /\ request[p] <= 4 + nrOfTables(p)
         /\ \A k \in 1..request[p] :
              /\ Got(p, k) \in Frames /\ Got(p, k) \notin KernelFrames
              /\ memoryblocks[Got(p, k)].pinned
              /\ memoryblocks[Got(p, k)].vaddr = RequestAddr(k)
              /\ memoryblocks[Got(p, k)].pcb = RequestPcb(p, k)
         /\ request[p] >= 1 => Got(p, 1) = page_directory[p]
         /\ request[p] >= 2 =>
              Got(p, 2) = FrameOf(tables[page_directory[p]][get_directory_index(PROCESS_STACK)])
  <1>1. p \in Procs
    BY DEF Programs
  <1>2. request[p] \in Nat /\ request[p] <= 4 + nrOfTables(p)
    BY <1>1, TablesCount DEF TypeInv, PhaseInv
  <1>3. ASSUME NEW k \in 1..request[p]
        PROVE  /\ Got(p, k) \in Frames /\ Got(p, k) \notin KernelFrames
               /\ memoryblocks[Got(p, k)].pinned
               /\ memoryblocks[Got(p, k)].vaddr = RequestAddr(k)
               /\ memoryblocks[Got(p, k)].pcb = RequestPcb(p, k)
    <2>1. /\ Got(p, k) \in Frames \ KernelFrames
          /\ memoryblocks[Got(p, k)] =
               [pcb |-> RequestPcb(p, k), vaddr |-> RequestAddr(k), pinned |-> TRUE]
      BY DEF TablesInv, GotInv
    <2>2. QED
      BY <2>1
  <1>4. /\ Got(p, 1) = page_directory[p]
        /\ Got(p, 2) = FrameOf(tables[page_directory[p]][get_directory_index(PROCESS_STACK)])
    BY Requests DEF Got
  <1>5. QED
    BY <1>1, <1>2, <1>3, <1>4

\* No two requests have the same frame.
LEMMA GotApart ==
  ASSUME TablesInv, NEW p \in Programs, NEW k \in 1..request[p],
         NEW q \in Programs, NEW j \in 1..request[q], Got(p, k) = Got(q, j)
  PROVE  p = q /\ k = j
  <1>1. \A x \in Programs : \A h \in 1..request[x] : \A y \in Programs : \A i \in 1..request[y] :
          Got(x, h) = Got(y, i) => x = y /\ h = i
    BY DEF TablesInv, GotInv
  <1>2. QED
    BY <1>1

\* The frame of a request stays the same while the entries that lead to it do.
LEMMA GotKept ==
  ASSUME NEW p \in Programs, NEW n \in Nat, page_directory'[p] = page_directory[p],
         \A k \in 1..n : k = 2 \/ k >= 5 =>
           tables'[page_directory[p]][get_directory_index(RequestAddr(k))]
             = tables[page_directory[p]][get_directory_index(RequestAddr(k))],
         n >= 2 => \A k \in {3, 4} \cap 1..n :
           tables'[Got(p, 2)][get_table_index(RequestAddr(k))]
             = tables[Got(p, 2)][get_table_index(RequestAddr(k))]
  PROVE  \A k \in 1..n : Got(p, k)' = Got(p, k)
  <1> SUFFICES ASSUME NEW k \in 1..n PROVE Got(p, k)' = Got(p, k)
    OBVIOUS
  <1>1. RequestAddr(2) = PROCESS_STACK
    BY Requests
  <1>2. CASE k = 1
    BY <1>2 DEF Got
  <1>3. CASE k = 2 \/ k >= 5
    BY <1>3 DEF Got
  <1>4. CASE k \in {3, 4}
    <2>1. n >= 2 /\ 2 \in 1..n /\ k \in {3, 4} \cap 1..n
      BY <1>4
    <2>2. Got(p, 2) = FrameOf(tables[page_directory[p]][get_directory_index(PROCESS_STACK)])
      BY <1>1 DEF Got
    <2>3. tables'[page_directory'[p]][get_directory_index(PROCESS_STACK)]
            = tables[page_directory[p]][get_directory_index(PROCESS_STACK)]
      BY <1>1, <2>1
    <2>4. Got(p, k) = FrameOf(tables[Got(p, 2)][get_table_index(RequestAddr(k))])
      BY <1>4, <2>2 DEF Got
    <2>5. Got(p, k)' = FrameOf(tables'[Got(p, 2)][get_table_index(RequestAddr(k))])
      BY <1>4, <2>2, <2>3 DEF Got
    <2>6. QED
      BY <2>1, <2>4, <2>5
  <1>5. QED
    BY <1>2, <1>3, <1>4

\* A step that leaves directories, stack tables and pinned frames alone
LEMMA TablesKept ==
  ASSUME BootedSound, TypeInv, PhaseInv, TablesInv,
         page_directory' = page_directory, request' = request,
         \A p \in Programs : \A k \in {1, 2} \cap 1..request[p] :
           tables'[Got(p, k)] = tables[Got(p, k)],
         \A i \in KernelFrames : tables'[i] = tables[i],
         \A i \in Frames : memoryblocks[i].pinned => memoryblocks'[i] = memoryblocks[i],
         \A i \in Frames : i >= allocated' => ~memoryblocks'[i].pinned
  PROVE  TablesInv' /\ \A p \in Programs : \A k \in 1..request[p] : Got(p, k)' = Got(p, k)
  <1>1. ASSUME NEW p \in Programs
        PROVE  /\ request[p] >= 1 => tables'[page_directory[p]] = tables[page_directory[p]]
               /\ request[p] >= 2 => tables'[Got(p, 2)] = tables[Got(p, 2)]
    BY GotFacts
  <1>2. ASSUME NEW p \in Programs PROVE \A k \in 1..request[p] : Got(p, k)' = Got(p, k)
    <2>1. request[p] \in Nat
      BY GotFacts
    <2>2. CASE request[p] >= 1
      BY <1>1, <2>1, <2>2, GotKept
    <2>3. QED
      BY <2>1, <2>2
  <1>3. KernelInv'
    BY KernelFrameZero DEF TablesInv, KernelInv
  <1>4. GotInv'
    <2> SUFFICES ASSUME NEW p \in Programs, NEW k \in 1..request[p]
                 PROVE  /\ Got(p, k)' \in Frames \ KernelFrames
                        /\ memoryblocks'[Got(p, k)'] =
                             [pcb |-> RequestPcb(p, k), vaddr |-> RequestAddr(k), pinned |-> TRUE]
                        /\ \A q \in Programs : \A j \in 1..request[q] :
                             Got(p, k)' = Got(q, j)' => p = q /\ k = j
      BY DEF GotInv
    <2>1. Got(p, k)' = Got(p, k) /\ memoryblocks'[Got(p, k)] = memoryblocks[Got(p, k)]
      BY <1>2, GotFacts
    <2>2. /\ Got(p, k) \in Frames \ KernelFrames
          /\ memoryblocks[Got(p, k)] =
               [pcb |-> RequestPcb(p, k), vaddr |-> RequestAddr(k), pinned |-> TRUE]
          /\ \A q \in Programs : \A j \in 1..request[q] :
               Got(p, k) = Got(q, j) => p = q /\ k = j
      BY DEF TablesInv, GotInv
    <2>3. QED
      BY <1>2, <2>1, <2>2
  <1>5. DirectoryInv'
    BY <1>1 DEF TablesInv, DirectoryInv, TableRequests
  <1>6. StackInv'
    <2> SUFFICES ASSUME NEW p \in Programs, request[p] >= 2
                 PROVE  \A i \in Index \ {get_table_index(RequestAddr(k)) : k \in {3, 4} \cap 1..request[p]} :
                          tables'[Got(p, 2)'][i] = NoEntry
      BY DEF StackInv
    <2>1. Got(p, 2)' = Got(p, 2)
      BY <1>2, GotFacts
    <2>2. QED
      BY <1>1, <2>1 DEF TablesInv, StackInv
  <1>7. QED
    BY <1>2, <1>3, <1>4, <1>5, <1>6 DEF TablesInv

\* The h-th entry of the table in frame X is set to e, and no other.
OnlySets(X, h, e) ==
  /\ tables' \in [Frames -> [Index -> Entries]]
  /\ \A f \in Frames, j \in Index :
       tables'[f][j] = IF f = X /\ j = h THEN e ELSE tables[f][j]

\* A step that sets one entry of the table of an image
LEMMA SetsEntry ==
  ASSUME BootedSound, TypeInv, PhaseInv, TablesInv,
         NEW q \in Programs, NEW k \in 5..request[q], NEW i \in Index, NEW e \in Entries,
         OnlySets(Got(q, k), i, e),
         UNCHANGED <<page_directory, request, memoryblocks, allocated>>
  PROVE  /\ TablesInv'
         /\ \A p \in Programs : \A j \in 1..request[p] : Got(p, j)' = Got(p, j)
         /\ \A p \in Programs : \A j \in 5..request[p], h \in Index :
              Cell(p, j, h)' = IF p = q /\ j = k /\ h = i THEN e ELSE Cell(p, j, h)
  <1> DEFINE X == Got(q, k)
  <1>1. request[q] \in Nat /\ k \in 1..request[q]
    BY GotFacts
  <1>2. X \in Frames /\ X \notin KernelFrames
    BY <1>1, GotFacts
  <1>3. /\ tables \in [Frames -> [Index -> Entries]] /\ tables' \in [Frames -> [Index -> Entries]]
        /\ \A f \in Frames, h \in Index :
             tables'[f][h] = IF f = X /\ h = i THEN e ELSE tables[f][h]
    BY DEF TypeInv, OnlySets
  <1>4. \A p \in Programs : \A j \in 1..request[p] : Got(p, j) \in Frames /\ (Got(p, j) = X => p = q /\ j = k)
    BY <1>1 DEF TablesInv, GotInv
  <1> HIDE DEF X
  <1>5. \A f \in Frames : f # X => tables'[f] = tables[f]
    BY <1>3
  <1>6. \A p \in Programs : \A j \in {1, 2} \cap 1..request[p] : tables'[Got(p, j)] = tables[Got(p, j)]
    BY <1>4, <1>5
  <1>7. \A f \in KernelFrames : tables'[f] = tables[f]
    BY <1>2, <1>5, KernelFrameZero
  <1>8. TablesInv' /\ \A p \in Programs : \A j \in 1..request[p] : Got(p, j)' = Got(p, j)
    <2>1. \A f \in Frames : f >= allocated' => ~memoryblocks'[f].pinned
      BY DEF TablesInv, KernelInv
    <2>2. QED
      BY <1>6, <1>7, <2>1, TablesKept
  <1>9. ASSUME NEW p \in Programs, NEW j \in 5..request[p], NEW h \in Index
         PROVE  Cell(p, j, h)' = IF p = q /\ j = k /\ h = i THEN e ELSE Cell(p, j, h)
    <2>1. request[p] \in Nat /\ j \in 1..request[p]
      BY GotFacts
    <2>2. Cell(p, j, h)' = tables'[Got(p, j)][h] /\ Cell(p, j, h) = tables[Got(p, j)][h]
      BY <1>8, <2>1 DEF Cell
    <2>3. QED
      BY <1>3, <1>4, <2>1, <2>2 DEF X
  <1>10. QED
    BY <1>8, <1>9

\* A step that gives the frame in transit a new use
LEMMA FrameReused ==
  ASSUME BootedSound, TypeInv, PhaseInv, TablesInv,
         ~memoryblocks[frame].pinned, NEW T, NEW b \in Blocks, ~b.pinned,
         tables' = [tables EXCEPT ![frame] = T],
         memoryblocks' = [memoryblocks EXCEPT ![frame] = b],
         UNCHANGED <<page_directory, request, allocated>>
  PROVE  /\ TablesInv'
         /\ \A p \in Programs : \A j \in 1..request[p] :
              Got(p, j)' = Got(p, j) /\ Got(p, j) # frame /\ Got(p, j) \in Frames
         /\ \A p \in Programs : \A j \in 5..request[p], h \in Index : Cell(p, j, h)' = Cell(p, j, h)
  <1>1. frame \in Frames /\ tables \in [Frames -> [Index -> Entries]] /\ memoryblocks \in [Frames -> Blocks]
    BY DEF TypeInv
  <1>2. /\ \A f \in Frames : f # frame => tables'[f] = tables[f] /\ memoryblocks'[f] = memoryblocks[f]
        /\ memoryblocks'[frame] = b
    BY <1>1
  <1>3. \A p \in Programs : \A j \in 1..request[p] : Got(p, j) # frame /\ Got(p, j) \in Frames
    BY GotFacts
  <1>4. frame \notin KernelFrames
    BY DEF TablesInv, KernelInv
  <1>5. \A p \in Programs : \A j \in {1, 2} \cap 1..request[p] : tables'[Got(p, j)] = tables[Got(p, j)]
    BY <1>2, <1>3
  <1>6. \A f \in KernelFrames : tables'[f] = tables[f]
    BY <1>2, <1>4, KernelFrameZero
  <1>7. \A f \in Frames : memoryblocks[f].pinned => memoryblocks'[f] = memoryblocks[f]
    BY <1>2
  <1>8. \A f \in Frames : f >= allocated' => ~memoryblocks'[f].pinned
    BY <1>2 DEF TablesInv, KernelInv
  <1>9. TablesInv' /\ \A p \in Programs : \A j \in 1..request[p] : Got(p, j)' = Got(p, j)
    BY <1>5, <1>6, <1>7, <1>8, TablesKept
  <1>10. ASSUME NEW p \in Programs, NEW j \in 5..request[p], NEW h \in Index
         PROVE  Cell(p, j, h)' = Cell(p, j, h)
    <2>1. j \in 1..request[p]
      BY GotFacts
    <2>2. QED
      BY <1>2, <1>3, <1>9, <2>1 DEF Cell
  <1>11. QED
    BY <1>3, <1>9, <1>10

-----------------------------------------------------------------------------
(* Pages *)

\* What is known of a page that is present
LEMMA PresentFacts ==
  ASSUME BootedSound, TypeInv, PhaseInv, TablesInv, ImageInv,
         NEW p \in Programs, Complete(p), NEW a \in Image(p), IsPresent(p, a)
  PROVE  LET f == FrameOf(EntryOf(p, a))
         IN  /\ f \in Frames /\ f < allocated /\ f \notin Transit /\ ~memoryblocks[f].pinned
             /\ memoryblocks[f].pcb = p /\ memoryblocks[f].vaddr \in Image(p)
             /\ memoryblocks[f].vaddr \div PAGE = a \div PAGE
  <1> DEFINE k == TableNo(a)
             i == get_table_index(a)
             f == FrameOf(EntryOf(p, a))
  <1>1. EntryOf(p, a) = Cell(p, k, i) /\ i \in Index /\ k \in 5..request[p]
    BY ImageCell DEF Complete
  <1>2. "P" \in Cell(p, k, i).flags /\ f = FrameOf(Cell(p, k, i))
    BY <1>1 DEF IsPresent
  <1> HIDE DEF k, i, f
  <1>3. /\ f \in 0..(allocated - 1) /\ f \notin Transit /\ ~memoryblocks[f].pinned
        /\ \E b \in Image(p) :
             /\ memoryblocks[f].pcb = p /\ memoryblocks[f].vaddr = b
             /\ TableNo(b) = k /\ get_table_index(b) = i
    BY <1>1, <1>2 DEF ImageInv
  <1>4. PICK b \in Image(p) :
          /\ memoryblocks[f].pcb = p /\ memoryblocks[f].vaddr = b
          /\ TableNo(b) = k /\ get_table_index(b) = i
    BY <1>3
  <1>5. b \div PAGE = a \div PAGE
    BY <1>4, SameCell DEF k, i
  <1>6. f \in Frames /\ f < allocated
    BY <1>3, KernelFrameZero DEF TypeInv, Frames
  <1>7. QED
    BY <1>3, <1>4, <1>5, <1>6 DEF f

\* A step that changes neither tables nor frames nor where the owner of
\* memory_lock is, and begins the handling of a fault only for a page that is
\* not present
LEMMA QuietStep ==
  ASSUME BootedSound, IInv,
         UNCHANGED <<allocated, memoryblocks, data, tables, page_directory, disk,
                     request, frame, dirty, written, lost>>,
         \A r \in Procs : pc[r] \in Inside \/ pc'[r] \in Inside =>
           pc'[r] = pc[r] /\ fault_addr'[r] = fault_addr[r],
         \A p \in Programs : \A a \in Image(p) :
           pc'[p] \in Handling /\ job'[p] = "fault" /\ fault_addr'[p] = a => ~IsPresent(p, a)
  PROVE  TablesInv' /\ PagesInv' /\ DataInv' /\ ReadInv'
  <1>1. TablesInv'
    <2>1. \A p, k : Got(p, k)' = Got(p, k)
      BY DEF Got
    <2>2. KernelInv'
      BY DEF IInv, TablesInv, KernelInv
    <2>3. GotInv'
      BY <2>1 DEF IInv, TablesInv, GotInv
    <2>4. DirectoryInv'
      BY DEF IInv, TablesInv, DirectoryInv
    <2>5. StackInv'
      BY <2>1 DEF IInv, TablesInv, StackInv
    <2>6. QED
      BY <2>2, <2>3, <2>4, <2>5 DEF TablesInv
  <1>2. \A r \in Procs : \A l \in Inside : (pc'[r] = l) <=> (pc[r] = l)
    OBVIOUS
  <1>3. Transit' = Transit /\ Dropped' = Dropped
    BY <1>2 DEF Transit, Dropped, Inside
  <1>4. \A p \in Programs : Complete(p)' <=> Complete(p)
    BY DEF Complete
  <1>5. /\ \A p \in Programs : \A k \in 5..request[p], i \in Index : Cell(p, k, i)' = Cell(p, k, i)
        /\ \A p \in Programs : \A a \in Image(p) :
             EntryOf(p, a)' = EntryOf(p, a) /\ (IsPresent(p, a)' <=> IsPresent(p, a))
    BY DEF Cell, Got, EntryOf, TableOf, IsPresent
  <1>6. \A p \in Programs : \A a \in Image(p) : BeingWritten(p, a)' <=> BeingWritten(p, a)
    BY <1>2 DEF BeingWritten, Inside
  <1>7. ImageInv'
    BY <1>3, <1>4, <1>5 DEF IInv, PagesInv, ImageInv
  <1>8. PageInv'
    BY <1>3, <1>4, <1>5 DEF IInv, PagesInv, PageInv, IsPage
  <1>9. TransitInv'
    <2>1. \A r \in Procs : pc'[r] \in Inside => ~memoryblocks'[frame'].pinned /\ frame' < allocated'
      BY DEF IInv, PagesInv, TransitInv
    <2>2. \A r \in Procs : pc'[r] = "write" => \E p \in Programs : \E a \in Image(p) :
            IsPage(frame, p, a)' /\ ~IsPresent(p, a)'
      BY <1>2, <1>4, <1>5 DEF IInv, PagesInv, TransitInv, IsPage, Inside
    <2>3. \A r \in Procs : pc'[r] \in {"read", "map"} =>
            memoryblocks'[frame'].pcb = r /\ memoryblocks'[frame'].vaddr = fault_addr'[r]
      BY <1>2 DEF IInv, PagesInv, TransitInv, Inside
    <2>4. QED
      BY <1>5, <2>1, <2>2, <2>3 DEF TransitInv
  <1>10. DataInv'
    BY <1>3, <1>4, <1>5, <1>6 DEF IInv, DataInv
  <1>11. ReadInv'
    BY <1>2 DEF IInv, ReadInv, Inside
  <1>12. QED
    BY <1>1, <1>7, <1>8, <1>9, <1>10, <1>11 DEF PagesInv

-----------------------------------------------------------------------------
(* The invariant holds at the start, and every step keeps it. *)

\* The address of a program's image has its sector on the drive.
LEMMA SectorOnDrive ==
  ASSUME NEW p \in Programs, NEW a \in Image(p)
  PROVE  SectorOf(p, a) \in ImageSectors
  <1>1. /\ swap_loc[p] \in Nat /\ swap_size[p] \in Nat /\ PROCESS_ENTRY \in Nat
        /\ a \in PROCESS_ENTRY..(PROCESS_ENTRY + swap_size[p] - 1)
    BY PagingAssumption DEF Image
  <1>2. SectorOf(p, a) \in swap_loc[p]..(swap_loc[p] + swap_size[p] - 1)
    BY <1>1 DEF SectorOf
  <1>3. QED
    BY <1>2 DEF ImageSectors

\* What init_memory() and identity_map() leave satisfies the invariant.
LEMMA InitIInv ==
  ASSUME BootedSound, Init
  PROVE  IInv
  <1>1. TypeInv
    <2>1. /\ allocated \in Booted.allocated..PAGEABLE_PAGES /\ memoryblocks \in [Frames -> Blocks]
          /\ tables \in [Frames -> [Index -> Entries]] /\ frame \in Frames
          /\ page_directory \in [Procs -> Frames]
      BY KernelFrameZero DEF Init, BootedSound
    <2>2. data \in [Frames -> [Sectors -> Values]]
      BY DEF Init, Values
    <2>3. disk \in [ImageSectors -> Values]
      BY DEF Init, Values
    <2>4. DOMAIN written = Programs /\ \A p \in Programs : written[p] \in [Image(p) -> Values]
      BY DEF Init, Values
    <2>5. /\ pc \in [Procs -> {"new", "run", "exited"} \cup Handling]
          /\ job \in [Procs -> {"setup", "fault", "bad"}]
          /\ fault_addr \in [Procs -> Int] /\ request \in [Procs -> Nat]
      BY DEF Init
    <2>6. dirty \in BOOLEAN
      BY DEF Init
    <2>7. QED
      BY <2>1, <2>2, <2>3, <2>4, <2>5, <2>6 DEF TypeInv
  <1>2. \A p \in Procs : pc[p] = "new" /\ pc[p] \notin Handling /\ pc[p] \notin Inside
    BY DEF Init, Handling, Inside
  <1>3. LockInv
    BY <1>2, EmptyQueue DEF LockInv, Init
  <1>4. \A p \in Programs : p \in Procs /\ request[p] = 0 /\ ~Complete(p)
    BY TablesCount DEF Init, Complete, Programs
  <1>5. PhaseInv
    <2> SUFFICES ASSUME NEW p \in Procs
                 PROVE  /\ p \in Threads => /\ request[p] = 0 /\ job[p] = "setup" /\ page_directory[p] = 0
                                            /\ pc[p] \in {"new", "lock", "run"}
                        /\ p \in Programs => request[p] \in 0..(4 + nrOfTables(p))
                        /\ pc[p] = "new" => request[p] = 0 /\ job[p] = "setup"
                        /\ job[p] # "fault"
      BY <1>2 DEF PhaseInv, Inside
    <2>1. p \in Programs => 0 \in 0..(4 + nrOfTables(p))
      BY TablesCount
    <2>2. QED
      BY <2>1 DEF Init
  <1>6. KernelInv
    <2>1. /\ allocated = Booted.allocated /\ memoryblocks = Booted.memoryblocks
          /\ tables = Booted.tables
      BY DEF Init
    <2>2. \A i \in Frames : i \in Int /\ (Booted.memoryblocks[i].pinned <=> i < Booted.allocated)
      BY KernelFrameZero DEF BootedSound, Frames
    <2>3. \A i \in KernelFrames : i \in Frames /\ i < Booted.allocated
      BY KernelFrameZero DEF KernelFrames
    <2>4. QED
      BY <2>1, <2>2, <2>3, KernelFrameZero DEF KernelInv
  <1>7. TablesInv
    BY <1>4, <1>6 DEF TablesInv, GotInv, DirectoryInv, StackInv
  <1>8. ImageInv
    BY <1>4 DEF ImageInv
  <1>9. PageInv
    BY DEF PageInv, Init, BootedSound
  <1>10. TransitInv
    BY <1>2, <1>4 DEF TransitInv, Inside
  <1>11. ASSUME NEW p \in Programs, NEW a \in Image(p)
         PROVE  ~BeingWritten(p, a) /\ written[p][a] = disk[SectorOf(p, a)]
    <2>1. ~BeingWritten(p, a)
      BY <1>2 DEF BeingWritten
    <2>2. written[p][a] = 1
      BY DEF Init
    <2>3. disk[SectorOf(p, a)] = 1
      BY SectorOnDrive DEF Init
    <2>4. QED
      BY <2>1, <2>2, <2>3
  <1>12. DataInv
    BY <1>4, <1>11 DEF DataInv
  <1>13. ReadInv
    BY <1>2 DEF ReadInv, Inside
  <1>14. QED
    BY <1>1, <1>3, <1>5, <1>7, <1>8, <1>9, <1>10, <1>12, <1>13 DEF IInv, ControlInv, PagesInv

\* setup_page_table() is called for a new process.
LEMMA CreateIInv ==
  ASSUME BootedSound, IInv, NEW p \in Procs, Create(p)
  PROVE  IInv'
  <1> USE DEF IInv, ControlInv
  <1>1. /\ pc[p] = "new" /\ LockAcquire(p) /\ Goto(p, "lock")
        /\ UNCHANGED <<allocated, memoryblocks, data, tables, page_directory, disk, job,
                       fault_addr, request, frame, dirty, written, lost>>
    BY DEF Create
  <1>2. pc' = [pc EXCEPT ![p] = "lock"] /\ pc[p] \notin Handling
    BY <1>1 DEF Goto, Handling, Inside
  <1>3. \A r \in Procs : pc'[r] = IF r = p THEN "lock" ELSE pc[r]
    BY <1>2 DEF TypeInv
  <1>4. TypeInv'
    BY <1>1, <1>2 DEF TypeInv, Handling
  <1>5. LockInv'
    BY <1>1, <1>2, AcquireLock
  <1>6. request[p] = 0 /\ job[p] = "setup" /\ (p \in Programs => ~Complete(p))
    BY <1>1, TablesCount DEF PhaseInv, Complete
  <1>7. PhaseInv'
    BY <1>1, <1>3, <1>6 DEF PhaseInv, Complete, Handling, Inside
  <1>8. TablesInv' /\ PagesInv' /\ DataInv' /\ ReadInv'
    <2>1. \A r \in Procs : pc[r] \in Inside \/ pc'[r] \in Inside =>
            pc'[r] = pc[r] /\ fault_addr'[r] = fault_addr[r]
      BY <1>1, <1>3 DEF Inside
    <2>2. \A q \in Programs : \A a \in Image(q) :
            pc'[q] \in Handling /\ job'[q] = "fault" /\ fault_addr'[q] = a => ~IsPresent(q, a)
      BY <1>1, <1>3, <1>6 DEF PagesInv, TransitInv, Programs
    <2>3. QED
      BY <1>1, <2>1, <2>2, QuietStep
  <1>9. QED
    BY <1>4, <1>5, <1>7, <1>8

\* A program touches a page of its image that is not present.
LEMMA FaultIInv ==
  ASSUME BootedSound, IInv, NEW p \in Programs, NEW a \in Image(p), Fault(p, a)
  PROVE  IInv'
  <1> USE DEF IInv, ControlInv
  <1>1. /\ pc[p] = "run" /\ ~IsPresent(p, a) /\ LockAcquire(p) /\ Goto(p, "lock")
        /\ job' = [job EXCEPT ![p] = "fault"] /\ fault_addr' = [fault_addr EXCEPT ![p] = a]
        /\ UNCHANGED <<allocated, memoryblocks, data, tables, page_directory, disk, request,
                       frame, dirty, written, lost>>
    BY DEF Fault
  <1>2. pc' = [pc EXCEPT ![p] = "lock"] /\ pc[p] \notin Handling /\ p \in Procs /\ a \in Int
    BY <1>1, ImageAddress DEF Goto, Handling, Inside, Programs
  <1>3. \A r \in Procs : /\ pc'[r] = IF r = p THEN "lock" ELSE pc[r]
                         /\ job'[r] = IF r = p THEN "fault" ELSE job[r]
                         /\ fault_addr'[r] = IF r = p THEN a ELSE fault_addr[r]
    BY <1>1, <1>2 DEF TypeInv
  <1>4. TypeInv'
    BY <1>1, <1>2 DEF TypeInv, Handling
  <1>5. LockInv'
    BY <1>1, <1>2, AcquireLock
  <1>6. Complete(p) /\ p \notin Threads
    BY <1>1, <1>2 DEF PhaseInv, Programs
  <1>7. PhaseInv'
    BY <1>1, <1>3, <1>6 DEF PhaseInv, Complete, Handling, Inside
  <1>8. TablesInv' /\ PagesInv' /\ DataInv' /\ ReadInv'
    <2>1. \A r \in Procs : pc[r] \in Inside \/ pc'[r] \in Inside =>
            pc'[r] = pc[r] /\ fault_addr'[r] = fault_addr[r]
      BY <1>1, <1>3 DEF Inside
    <2>2. \A q \in Programs : \A b \in Image(q) :
            pc'[q] \in Handling /\ job'[q] = "fault" /\ fault_addr'[q] = b => ~IsPresent(q, b)
      BY <1>1, <1>3 DEF PagesInv, TransitInv, Programs
    <2>3. QED
      BY <1>1, <2>1, <2>2, QuietStep
  <1>9. QED
    BY <1>4, <1>5, <1>7, <1>8

\* A program touches what it has no right to.
LEMMA BadAccessIInv ==
  ASSUME BootedSound, IInv, NEW p \in Programs, BadAccess(p)
  PROVE  IInv'
  <1> USE DEF IInv, ControlInv
  <1>1. /\ pc[p] = "run" /\ LockAcquire(p) /\ Goto(p, "lock")
        /\ job' = [job EXCEPT ![p] = "bad"]
        /\ UNCHANGED <<allocated, memoryblocks, data, tables, page_directory, disk,
                       fault_addr, request, frame, dirty, written, lost>>
    BY DEF BadAccess
  <1>2. pc' = [pc EXCEPT ![p] = "lock"] /\ pc[p] \notin Handling /\ p \in Procs
    BY <1>1 DEF Goto, Handling, Inside, Programs
  <1>3. \A r \in Procs : /\ pc'[r] = IF r = p THEN "lock" ELSE pc[r]
                         /\ job'[r] = IF r = p THEN "bad" ELSE job[r]
    BY <1>1, <1>2 DEF TypeInv
  <1>4. TypeInv'
    BY <1>1, <1>2 DEF TypeInv, Handling
  <1>5. LockInv'
    BY <1>1, <1>2, AcquireLock
  <1>6. Complete(p) /\ p \notin Threads
    BY <1>1, <1>2 DEF PhaseInv, Programs
  <1>7. PhaseInv'
    BY <1>1, <1>3, <1>6 DEF PhaseInv, Complete, Handling, Inside
  <1>8. TablesInv' /\ PagesInv' /\ DataInv' /\ ReadInv'
    <2>1. \A r \in Procs : pc[r] \in Inside \/ pc'[r] \in Inside =>
            pc'[r] = pc[r] /\ fault_addr'[r] = fault_addr[r]
      BY <1>1, <1>3 DEF Inside
    <2>2. \A q \in Programs : \A b \in Image(q) :
            pc'[q] \in Handling /\ job'[q] = "fault" /\ fault_addr'[q] = b => ~IsPresent(q, b)
      BY <1>1, <1>3 DEF PagesInv, TransitInv, Programs
    <2>3. QED
      BY <1>1, <2>1, <2>2, QuietStep
  <1>9. QED
    BY <1>4, <1>5, <1>7, <1>8

\* The owner of memory_lock releases it and exits.
LEMMA ReleaseAndExitIInv ==
  ASSUME BootedSound, IInv, NEW p \in Programs, Owns(p, "lock"), ReleaseAndExit(p)
  PROVE  IInv'
  <1> USE DEF IInv, ControlInv
  <1>1. /\ pc[p] = "lock" /\ LockRelease /\ Goto(p, "exited") /\ p \in Procs
        /\ UNCHANGED <<allocated, memoryblocks, data, tables, page_directory, disk, job,
                       fault_addr, request, frame, dirty, written, lost>>
    BY DEF ReleaseAndExit, Owns, Programs
  <1>2. pc' = [pc EXCEPT ![p] = "exited"] /\ "exited" \notin Handling
    BY <1>1 DEF Goto, Handling, Inside
  <1>3. \A r \in Procs : pc'[r] = IF r = p THEN "exited" ELSE pc[r]
    BY <1>2 DEF TypeInv
  <1>4. TypeInv'
    BY <1>1, <1>2 DEF TypeInv
  <1>5. LockInv'
    BY <1>1, <1>2, ReleaseLock
  <1>6. PhaseInv'
    BY <1>1, <1>3 DEF PhaseInv, Complete, Handling, Inside, Programs
  <1>7. TablesInv' /\ PagesInv' /\ DataInv' /\ ReadInv'
    <2>1. \A r \in Procs : pc[r] \in Inside \/ pc'[r] \in Inside =>
            pc'[r] = pc[r] /\ fault_addr'[r] = fault_addr[r]
      BY <1>1, <1>3 DEF Inside
    <2>2. \A q \in Programs : \A b \in Image(q) :
            pc'[q] \in Handling /\ job'[q] = "fault" /\ fault_addr'[q] = b => ~IsPresent(q, b)
      BY <1>1, <1>2, <1>3 DEF PagesInv, TransitInv, Programs
    <2>3. QED
      BY <1>1, <2>1, <2>2, QuietStep
  <1>8. QED
    BY <1>4, <1>5, <1>6, <1>7

\* setup_page_table() of a thread
LEMMA ShareKernelIInv ==
  ASSUME BootedSound, IInv, NEW p \in Procs, ShareKernel(p)
  PROVE  IInv'
  <1> USE DEF IInv, ControlInv
  <1>1. /\ Owns(p, "lock") /\ pc[p] = "lock" /\ p \in Threads /\ LockRelease /\ Goto(p, "run")
        /\ page_directory' = [page_directory EXCEPT ![p] = 0]
        /\ UNCHANGED <<allocated, memoryblocks, data, tables, disk, job,
                       fault_addr, request, frame, dirty, written, lost>>
    BY DEF ShareKernel, Owns
  <1>2. pc' = [pc EXCEPT ![p] = "run"] /\ "run" \notin Handling
    BY <1>1 DEF Goto, Handling, Inside
  <1>3. \A r \in Procs : pc'[r] = IF r = p THEN "run" ELSE pc[r]
    BY <1>2 DEF TypeInv
  <1>4. page_directory' = page_directory
    BY <1>1 DEF TypeInv, PhaseInv
  <1>5. TypeInv'
    BY <1>1, <1>2, <1>4 DEF TypeInv
  <1>6. LockInv'
    BY <1>1, <1>2, ReleaseLock
  <1>7. PhaseInv'
    BY <1>1, <1>3, <1>4 DEF PhaseInv, Complete, Handling, Inside, Programs
  <1>8. TablesInv' /\ PagesInv' /\ DataInv' /\ ReadInv'
    <2>1. \A r \in Procs : pc[r] \in Inside \/ pc'[r] \in Inside =>
            pc'[r] = pc[r] /\ fault_addr'[r] = fault_addr[r]
      BY <1>1, <1>3 DEF Inside
    <2>2. \A q \in Programs : \A b \in Image(q) :
            pc'[q] \in Handling /\ job'[q] = "fault" /\ fault_addr'[q] = b => ~IsPresent(q, b)
      BY <1>1, <1>2, <1>3 DEF PagesInv, TransitInv, Programs
    <2>3. QED
      BY <1>1, <1>4, <2>1, <2>2, QuietStep
  <1>9. QED
    BY <1>5, <1>6, <1>7, <1>8

\* While nobody but p is inside, where p is tells which frame is in transit,
\* which is about to be dropped, and which page is being written back; before a
\* step...
LEMMA Lone ==
  ASSUME NEW p \in Procs, \A r \in Procs : pc[r] \in Inside => r = p
  PROVE  /\ Transit = IF pc[p] \in {"write", "take", "read", "map"} THEN {frame} ELSE {}
         /\ Dropped = IF pc[p] = "clear" /\ ~dirty THEN {frame} ELSE {}
         /\ \A q, a : BeingWritten(q, a) <=>
              /\ pc[p] = "write" /\ memoryblocks[frame].pcb = q
              /\ memoryblocks[frame].vaddr \div PAGE = a \div PAGE
  BY DEF Transit, Dropped, BeingWritten, Inside

\* ...and after it
LEMMA LoneNext ==
  ASSUME NEW p \in Procs, \A r \in Procs : pc'[r] \in Inside => r = p
  PROVE  /\ Transit' = IF pc'[p] \in {"write", "take", "read", "map"} THEN {frame'} ELSE {}
         /\ Dropped' = IF pc'[p] = "clear" /\ ~dirty' THEN {frame'} ELSE {}
         /\ \A q, a : BeingWritten(q, a)' <=>
              /\ pc'[p] = "write" /\ memoryblocks'[frame'].pcb = q
              /\ memoryblocks'[frame'].vaddr \div PAGE = a \div PAGE
  BY DEF Transit, Dropped, BeingWritten, Inside

\* A step that changes no table
LEMMA SameTables ==
  ASSUME BootedSound, TypeInv, PhaseInv, TablesInv, TypeInv',
         UNCHANGED <<tables, page_directory, memoryblocks, request>>, allocated' >= allocated
  PROVE  /\ TablesInv'
         /\ \A p \in Programs : /\ Complete(p)' <=> Complete(p)
                                /\ request[p] \in Nat /\ p \in Procs
         /\ \A p \in Programs : \A k \in 5..request[p], i \in Index : Cell(p, k, i)' = Cell(p, k, i)
         /\ \A p \in Programs : \A a \in Image(p) :
              EntryOf(p, a)' = EntryOf(p, a) /\ (IsPresent(p, a)' <=> IsPresent(p, a))
  <1>1. \A i \in Frames : i >= allocated' => ~memoryblocks'[i].pinned
    <2>1. \A i \in Frames : i \in Int /\ allocated \in Int /\ allocated' \in Int
      BY KernelFrameZero DEF TypeInv, Frames
    <2>2. \A i \in Frames : i >= allocated' => i >= allocated
      BY <2>1
    <2>3. QED
      BY <2>2 DEF TablesInv, KernelInv
  <1>2. TablesInv'
    BY <1>1, TablesKept
  <1>3. QED
    BY <1>2, GotFacts DEF Complete, Cell, Got, EntryOf, TableOf, IsPresent

\* A free frame is taken.
LEMMA GetFreeIInv ==
  ASSUME BootedSound, IInv, NEW p \in Procs, GetFree(p)
  PROVE  IInv'
  <1> USE DEF IInv, ControlInv
  <1>1. /\ Owns(p, "lock") /\ pc[p] = "lock" /\ job[p] # "bad" /\ p \in Programs
        /\ allocated < PAGEABLE_PAGES /\ frame' = allocated /\ allocated' = allocated + 1
        /\ Goto(p, "take") /\ pc' = [pc EXCEPT ![p] = "take"]
        /\ UNCHANGED <<memory_lock, memoryblocks, data, tables, page_directory, disk, job,
                       fault_addr, request, dirty, written, lost>>
    BY DEF GetFree, NeedsFrame, Owns, Goto, PhaseInv, Programs
  <1>2. \A r \in Procs : pc'[r] = IF r = p THEN "take" ELSE pc[r]
    BY <1>1 DEF TypeInv
  <1>3. allocated \in Nat /\ allocated \in Frames /\ allocated >= Booted.allocated
    BY <1>1, KernelFrameZero DEF TypeInv, Frames
  <1>4. TypeInv'
    <2>1. allocated' \in Booted.allocated..PAGEABLE_PAGES /\ frame' \in Frames
      BY <1>1, <1>3, KernelFrameZero
    <2>2. QED
      BY <1>1, <2>1 DEF TypeInv, Handling, Inside
  <1>5. LockInv'
    BY <1>1, KeepLock DEF Handling, Inside
  <1>6. PhaseInv'
    BY <1>1, <1>2 DEF PhaseInv, Complete, Handling, Inside, Programs
  <1>7. \A r \in Procs : pc[r] \notin Inside /\ (pc'[r] \in Inside => r = p)
    BY <1>1, <1>2, AloneInside DEF Inside
  <1>8. /\ Transit = {} /\ Dropped = {} /\ \A q, a : ~BeingWritten(q, a)
    BY <1>1, <1>7, Lone
  <1>9. /\ Transit' = {allocated} /\ Dropped' = {} /\ \A q, a : ~BeingWritten(q, a)'
    BY <1>1, <1>2, <1>7, LoneNext
  <1>10. /\ TablesInv'
         /\ \A q \in Programs : (Complete(q)' <=> Complete(q)) /\ request[q] \in Nat /\ q \in Procs
         /\ \A q \in Programs : \A k \in 5..request[q], i \in Index : Cell(q, k, i)' = Cell(q, k, i)
         /\ \A q \in Programs : \A a \in Image(q) :
              EntryOf(q, a)' = EntryOf(q, a) /\ (IsPresent(q, a)' <=> IsPresent(q, a))
    BY <1>1, <1>3, <1>4, SameTables
  <1>11. ImageInv'
    <2>1. \A f : f \in 0..(allocated - 1) => f \in 0..(allocated' - 1) /\ f # allocated
      BY <1>1, <1>3
    <2>2. QED
      BY <1>1, <1>9, <1>10, <2>1 DEF PagesInv, ImageInv
  <1>12. PageInv'
    <2>1. \A i \in Frames : i < allocated' /\ i # allocated => i < allocated
      BY <1>1, <1>3 DEF Frames
    <2>2. QED
      BY <1>1, <1>8, <1>9, <1>10, <2>1 DEF PagesInv, PageInv, IsPage
  <1>13. TransitInv'
    <2>1. ~memoryblocks'[frame'].pinned /\ frame' < allocated'
      BY <1>1, <1>3 DEF TablesInv, KernelInv
    <2>2. \A r \in Procs : pc'[r] \notin {"write", "read", "map"}
      BY <1>2, <1>7 DEF Inside
    <2>3. \A q \in Programs : \A a \in Image(q) :
            pc'[q] \in Handling /\ job'[q] = "fault" /\ fault_addr'[q] = a => ~IsPresent(q, a)'
      BY <1>1, <1>2, <1>10 DEF PagesInv, TransitInv, Handling
    <2>4. QED
      BY <2>1, <2>2, <2>3 DEF TransitInv
  <1>14. DataInv'
    BY <1>1, <1>8, <1>9, <1>10 DEF DataInv
  <1>15. ReadInv'
    BY <1>2, <1>7 DEF ReadInv, Inside
  <1>16. QED
    BY <1>4, <1>5, <1>6, <1>10, <1>11, <1>12, <1>13, <1>14, <1>15 DEF PagesInv

\* A frame is chosen to be evicted, and the dirty bit of its page is read.
LEMMA ChooseIInv ==
  ASSUME BootedSound, IInv, NEW p \in Procs, Choose(p)
  PROVE  IInv'
  <1> USE DEF IInv, ControlInv
  <1>1. PICK i \in Unpinned :
          frame' = i /\ dirty' = ("D" \in EntryOf(memoryblocks[i].pcb, memoryblocks[i].vaddr).flags)
    BY DEF Choose
  <1>2. /\ Owns(p, "lock") /\ pc[p] = "lock" /\ job[p] # "bad" /\ p \in Programs
        /\ allocated = PAGEABLE_PAGES
        /\ Goto(p, "clear") /\ pc' = [pc EXCEPT ![p] = "clear"]
        /\ UNCHANGED <<memory_lock, allocated, memoryblocks, data, tables, page_directory,
                       disk, job, fault_addr, request, written, lost>>
    BY DEF Choose, NeedsFrame, Owns, Goto, PhaseInv, Programs
  <1>3. \A r \in Procs : pc'[r] = IF r = p THEN "clear" ELSE pc[r]
    BY <1>2 DEF TypeInv
  <1>4. i \in Frames /\ i < allocated /\ ~memoryblocks[i].pinned
    BY <1>2, KernelFrameZero DEF Unpinned, Frames
  <1>5. TypeInv'
    <2>1. dirty' \in BOOLEAN
      BY <1>1
    <2>2. QED
      BY <1>1, <1>2, <1>4, <2>1 DEF TypeInv, Handling, Inside
  <1>6. LockInv'
    BY <1>2, KeepLock DEF Handling, Inside
  <1>7. PhaseInv'
    BY <1>2, <1>3 DEF PhaseInv, Complete, Handling, Inside, Programs
  <1>8. \A r \in Procs : pc[r] \notin Inside /\ (pc'[r] \in Inside => r = p)
    BY <1>2, <1>3, AloneInside DEF Inside
  <1>9. /\ Transit = {} /\ Dropped = {} /\ \A q, a : ~BeingWritten(q, a)
    BY <1>2, <1>8, Lone
  <1>10. /\ Transit' = {} /\ Dropped' = (IF dirty' THEN {} ELSE {i})
         /\ \A q, a : ~BeingWritten(q, a)'
    BY <1>1, <1>2, <1>3, <1>8, LoneNext
  <1>11. /\ TablesInv'
         /\ \A q \in Programs : (Complete(q)' <=> Complete(q)) /\ request[q] \in Nat /\ q \in Procs
         /\ \A q \in Programs : \A k \in 5..request[q], h \in Index : Cell(q, k, h)' = Cell(q, k, h)
         /\ \A q \in Programs : \A a \in Image(q) :
              EntryOf(q, a)' = EntryOf(q, a) /\ (IsPresent(q, a)' <=> IsPresent(q, a))
    <2>1. allocated' >= allocated
      BY <1>2, KernelFrameZero DEF TypeInv
    <2>2. QED
      BY <1>2, <1>5, <2>1, SameTables
  <1>12. ImageInv'
    BY <1>2, <1>10, <1>11 DEF PagesInv, ImageInv
  <1>13. PageInv'
    BY <1>2, <1>9, <1>10, <1>11 DEF PagesInv, PageInv, IsPage
  <1>14. TransitInv'
    <2>1. ~memoryblocks'[frame'].pinned /\ frame' < allocated'
      BY <1>1, <1>2, <1>4
    <2>2. \A r \in Procs : pc'[r] \notin {"write", "read", "map"}
      BY <1>3, <1>8 DEF Inside
    <2>3. \A q \in Programs : \A a \in Image(q) :
            pc'[q] \in Handling /\ job'[q] = "fault" /\ fault_addr'[q] = a => ~IsPresent(q, a)'
      BY <1>2, <1>3, <1>11 DEF PagesInv, TransitInv, Handling
    <2>4. QED
      BY <2>1, <2>2, <2>3 DEF TransitInv
  <1>15. DataInv'
    <2>1. ASSUME NEW q \in Programs, NEW a \in Image(q), Complete(q), IsPresent(q, a),
                 FrameOf(EntryOf(q, a)) \in Dropped'
          PROVE  "D" \notin EntryOf(q, a).flags
      <3>1. ~dirty' /\ FrameOf(EntryOf(q, a)) = i
        BY <1>10, <2>1
      <3> DEFINE b == memoryblocks[i].vaddr
      <3>2. memoryblocks[i].pcb = q /\ b \in Image(q) /\ b \div PAGE = a \div PAGE
        BY <2>1, <3>1, PresentFacts DEF PagesInv
      <3>3. EntryOf(q, b) = EntryOf(q, a)
        <4>1. TableNo(a) = TableNo(b) /\ get_table_index(a) = get_table_index(b)
          BY <3>2, SameCell
        <4>2. QED
          BY <3>2, <4>1, ImageCell
      <3>4. QED
        BY <1>1, <3>1, <3>2, <3>3
    <2>2. QED
      BY <1>2, <1>9, <1>10, <1>11, <2>1 DEF DataInv
  <1>16. ReadInv'
    BY <1>3, <1>8 DEF ReadInv, Inside
  <1>17. QED
    BY <1>5, <1>6, <1>7, <1>11, <1>12, <1>13, <1>14, <1>15, <1>16 DEF PagesInv

\* A dirty page that has been evicted is written back.
LEMMA WriteBackIInv ==
  ASSUME BootedSound, IInv, NEW p \in Procs, WriteBack(p)
  PROVE  IInv'
  <1> USE DEF IInv, ControlInv
  <1>1. /\ Owns(p, "write") /\ pc[p] = "write" /\ dirty' = FALSE
        /\ Goto(p, "take") /\ pc' = [pc EXCEPT ![p] = "take"]
        /\ UNCHANGED <<memory_lock, allocated, memoryblocks, data, tables, page_directory,
                       job, fault_addr, request, frame, written, lost>>
    BY DEF WriteBack, Owns, Goto
  <1>0. PICK q \in Programs : \E b \in Image(q) : IsPage(frame, q, b) /\ ~IsPresent(q, b)
    BY <1>1 DEF PagesInv, TransitInv
  <1>2. PICK b \in Image(q) : IsPage(frame, q, b) /\ ~IsPresent(q, b)
    BY <1>0
  <1> DEFINE l == Place(q, b).location
             n == Place(q, b).sectors
  <1>3. /\ memoryblocks[frame].pcb = q /\ memoryblocks[frame].vaddr = b /\ Complete(q)
        /\ frame \in Frames /\ DOMAIN disk = ImageSectors
        /\ disk' = [k \in ImageSectors |-> IF k \in l..(l + n - 1) THEN data[frame][k - l] ELSE disk[k]]
    BY <1>2 DEF WriteBack, IsPage, TypeInv
  <1> HIDE DEF l, n
  <1>4. \A r \in Procs : pc'[r] = IF r = p THEN "take" ELSE pc[r]
    BY <1>1 DEF TypeInv
  <1>5. disk' \in [ImageSectors -> Values]
    <2>1. l \in Int /\ n \in Int /\ n <= SECTORS_PER_PAGE
      BY PlaceBounds DEF l, n
    <2>2. \A k \in l..(l + n - 1) : k - l \in Sectors
      BY <2>1, PagingAssumption DEF Sectors
    <2>3. \A k \in l..(l + n - 1) : data[frame][k - l] \in Values
      BY <1>3, <2>2 DEF TypeInv
    <2>4. QED
      BY <1>3, <2>3 DEF TypeInv
  <1>6. TypeInv'
    <2>1. dirty' \in BOOLEAN
      BY <1>1
    <2>2. QED
      BY <1>1, <1>5, <2>1 DEF TypeInv, Handling, Inside
  <1>7. LockInv'
    BY <1>1, KeepLock DEF Handling, Inside
  <1>8. PhaseInv'
    BY <1>1, <1>4 DEF PhaseInv, Complete, Handling, Inside, Programs
  <1>9. \A r \in Procs : (pc[r] \in Inside => r = p) /\ (pc'[r] \in Inside => r = p)
    BY <1>1, <1>4, AloneInside
  <1>10. /\ Transit = {frame} /\ Dropped = {}
         /\ \A x, a : BeingWritten(x, a) <=> x = q /\ b \div PAGE = a \div PAGE
    BY <1>1, <1>3, <1>9, Lone
  <1>11. Transit' = {frame} /\ Dropped' = {} /\ \A x, a : ~BeingWritten(x, a)'
    BY <1>1, <1>4, <1>9, LoneNext
  <1>12. /\ TablesInv'
         /\ \A x \in Programs : (Complete(x)' <=> Complete(x)) /\ request[x] \in Nat /\ x \in Procs
         /\ \A x \in Programs : \A k \in 5..request[x], h \in Index : Cell(x, k, h)' = Cell(x, k, h)
         /\ \A x \in Programs : \A a \in Image(x) :
              EntryOf(x, a)' = EntryOf(x, a) /\ (IsPresent(x, a)' <=> IsPresent(x, a))
    <2>1. allocated' >= allocated
      BY <1>1, KernelFrameZero DEF TypeInv
    <2>2. QED
      BY <1>1, <1>6, <2>1, SameTables
  <1>13. ImageInv'
    BY <1>1, <1>10, <1>11, <1>12 DEF PagesInv, ImageInv
  <1>14. PageInv'
    BY <1>1, <1>10, <1>11, <1>12 DEF PagesInv, PageInv, IsPage
  <1>15. TransitInv'
    <2>1. ~memoryblocks'[frame'].pinned /\ frame' < allocated'
      BY <1>1 DEF PagesInv, TransitInv, Inside
    <2>2. \A r \in Procs : pc'[r] \notin {"write", "read", "map"}
      BY <1>4, <1>9 DEF Inside
    <2>3. \A x \in Programs : \A a \in Image(x) :
            pc'[x] \in Handling /\ job'[x] = "fault" /\ fault_addr'[x] = a => ~IsPresent(x, a)'
      BY <1>1, <1>4, <1>12 DEF PagesInv, TransitInv, Handling, Inside
    <2>4. QED
      BY <2>1, <2>2, <2>3 DEF TransitInv
  <1>16. DataInv'
    <2> SUFFICES ASSUME NEW x \in Programs, NEW a \in Image(x), <<x, a>> \notin lost
                 PROVE  IF Complete(x) /\ IsPresent(x, a)
                        THEN /\ written[x][a] = data[FrameOf(EntryOf(x, a))][a % PAGE]
                             /\ "D" \notin EntryOf(x, a).flags =>
                                  written[x][a] = disk'[SectorOf(x, a)]
                        ELSE written[x][a] = disk'[SectorOf(x, a)]
      BY <1>1, <1>11, <1>12 DEF DataInv
    <2>1. SectorOf(x, a) \in ImageSectors
      BY SectorOnDrive
    <2>2. CASE x = q /\ a \div PAGE = b \div PAGE
      <3>1. EntryOf(x, a) = EntryOf(q, b) /\ ~IsPresent(x, a)
        <4>1. TableNo(a) = TableNo(b) /\ get_table_index(a) = get_table_index(b)
          BY <2>2, SameCell
        <4>2. EntryOf(x, a) = EntryOf(q, b)
          BY <2>2, <4>1, ImageCell
        <4>3. QED
          BY <1>2, <4>2 DEF IsPresent
      <3>2. BeingWritten(x, a)
        BY <1>10, <2>2
      <3>3. written[x][a] = data[frame][a % PAGE]
        BY <3>1, <3>2 DEF DataInv
      <3>4. SectorOf(x, a) \in l..(l + n - 1) /\ SectorOf(x, a) - l = a % PAGE
        BY <2>2, PlaceExact DEF l, n
      <3>5. disk'[SectorOf(x, a)] = data[frame][a % PAGE]
        BY <1>3, <2>1, <3>4
      <3>6. QED
        BY <3>1, <3>3, <3>5
    <2>3. CASE ~(x = q /\ a \div PAGE = b \div PAGE)
      <3>1. SectorOf(x, a) \notin l..(l + n - 1)
        BY <2>3, PlaceExact DEF l, n
      <3>2. disk'[SectorOf(x, a)] = disk[SectorOf(x, a)]
        BY <1>3, <2>1, <3>1
      <3>3. ~BeingWritten(x, a)
        BY <1>10, <2>3
      <3>4. QED
        BY <3>2, <3>3 DEF DataInv
    <2>4. QED
      BY <2>2, <2>3
  <1>17. ReadInv'
    BY <1>4, <1>9 DEF ReadInv, Inside
  <1>18. QED
    BY <1>6, <1>7, <1>8, <1>12, <1>13, <1>14, <1>15, <1>16, <1>17 DEF PagesInv

\* A page is read in.
LEMMA ReadInIInv ==
  ASSUME BootedSound, IInv, NEW p \in Procs, ReadIn(p)
  PROVE  IInv'
  <1> USE DEF IInv, ControlInv
  <1> DEFINE b == fault_addr[p]
             l == Place(p, b).location
             n == Place(p, b).sectors
             page == [s \in Sectors |-> IF s < n THEN disk[l + s] ELSE data[frame][s]]
  <1>1. /\ Owns(p, "read") /\ pc[p] = "read"
        /\ Goto(p, "map") /\ pc' = [pc EXCEPT ![p] = "map"]
        /\ data' = [data EXCEPT ![frame] = page]
        /\ UNCHANGED <<memory_lock, allocated, memoryblocks, tables, page_directory, disk, job,
                       fault_addr, request, frame, dirty, written, lost>>
    BY DEF ReadIn, Owns, Goto
  <1>2. p \in Programs /\ b \in Image(p) /\ frame \in Frames /\ data \in [Frames -> [Sectors -> Values]]
    BY <1>1 DEF PhaseInv, TypeInv, Programs
  <1> HIDE DEF b, l, n, page
  <1>3. \A r \in Procs : pc'[r] = IF r = p THEN "map" ELSE pc[r]
    BY <1>1 DEF TypeInv
  <1>4. /\ data'[frame] = page
        /\ \A f \in Frames : f # frame => data'[f] = data[f]
    BY <1>1, <1>2
  <1>5. page \in [Sectors -> Values]
    <2>1. /\ l \in Int /\ n \in Int /\ l >= swap_loc[p] /\ l + n <= swap_loc[p] + swap_size[p]
          /\ swap_loc[p] \in Nat /\ swap_size[p] \in Nat
      BY <1>2, PlaceBounds, PagingAssumption DEF l, n
    <2>2. ASSUME NEW s \in Sectors, s < n PROVE disk[l + s] \in Values
      <3>1. l + s \in swap_loc[p]..(swap_loc[p] + swap_size[p] - 1)
        BY <2>1, <2>2, PagingAssumption DEF Sectors
      <3>2. l + s \in ImageSectors
        BY <1>2, <3>1 DEF ImageSectors
      <3>3. QED
        BY <3>2 DEF TypeInv
    <2>3. QED
      BY <1>2, <2>2 DEF page
  <1>6. TypeInv'
    <2>1. data' \in [Frames -> [Sectors -> Values]]
      BY <1>1, <1>2, <1>5
    <2>2. QED
      BY <1>1, <2>1 DEF TypeInv, Handling, Inside
  <1>7. LockInv'
    BY <1>1, KeepLock DEF Handling, Inside
  <1>8. PhaseInv'
    BY <1>1, <1>3 DEF PhaseInv, Complete, Handling, Inside, Programs
  <1>9. \A r \in Procs : (pc[r] \in Inside => r = p) /\ (pc'[r] \in Inside => r = p)
    BY <1>1, <1>3, AloneInside
  <1>10. Transit = {frame} /\ Dropped = {} /\ \A x, a : ~BeingWritten(x, a)
    BY <1>1, <1>9, Lone
  <1>11. Transit' = {frame} /\ Dropped' = {} /\ \A x, a : ~BeingWritten(x, a)'
    BY <1>1, <1>3, <1>9, LoneNext
  <1>12. /\ TablesInv'
         /\ \A x \in Programs : (Complete(x)' <=> Complete(x)) /\ request[x] \in Nat /\ x \in Procs
         /\ \A x \in Programs : \A k \in 5..request[x], h \in Index : Cell(x, k, h)' = Cell(x, k, h)
         /\ \A x \in Programs : \A a \in Image(x) :
              EntryOf(x, a)' = EntryOf(x, a) /\ (IsPresent(x, a)' <=> IsPresent(x, a))
    <2>1. allocated' >= allocated
      BY <1>1, KernelFrameZero DEF TypeInv
    <2>2. QED
      BY <1>1, <1>6, <2>1, SameTables
  <1>13. ImageInv'
    BY <1>1, <1>10, <1>11, <1>12 DEF PagesInv, ImageInv
  <1>14. PageInv'
    BY <1>1, <1>10, <1>11, <1>12 DEF PagesInv, PageInv, IsPage
  <1>15. TransitInv'
    <2>1. ~memoryblocks'[frame'].pinned /\ frame' < allocated'
      BY <1>1 DEF PagesInv, TransitInv, Inside
    <2>2. \A r \in Procs : pc'[r] \notin {"write", "read"}
      BY <1>3, <1>9 DEF Inside
    <2>3. \A r \in Procs : pc'[r] = "map" =>
            memoryblocks'[frame'].pcb = r /\ memoryblocks'[frame'].vaddr = fault_addr'[r]
      BY <1>1, <1>3, <1>9 DEF PagesInv, TransitInv, Inside
    <2>4. \A x \in Programs : \A a \in Image(x) :
            pc'[x] \in Handling /\ job'[x] = "fault" /\ fault_addr'[x] = a => ~IsPresent(x, a)'
      BY <1>1, <1>3, <1>12 DEF PagesInv, TransitInv, Handling, Inside
    <2>5. QED
      BY <2>1, <2>2, <2>3, <2>4 DEF TransitInv
  <1>16. DataInv'
    <2>1. ASSUME NEW x \in Programs, NEW a \in Image(x), Complete(x), IsPresent(x, a)
          PROVE  data'[FrameOf(EntryOf(x, a))] = data[FrameOf(EntryOf(x, a))]
      BY <1>4, <1>10, <2>1, PresentFacts DEF PagesInv
    <2>2. QED
      BY <1>1, <1>10, <1>11, <1>12, <2>1 DEF DataInv
  <1>17. ReadInv'
    <2> SUFFICES ASSUME NEW a \in Image(p), a \div PAGE = b \div PAGE
                 PROVE  data'[frame][a % PAGE] = disk[SectorOf(p, a)]
      BY <1>1, <1>3, <1>9 DEF ReadInv, Inside, b
    <2>1. SectorOf(p, a) \in l..(l + n - 1) /\ SectorOf(p, a) - l = a % PAGE
      BY <1>2, PlaceExact DEF l, n
    <2>2. a % PAGE \in Sectors /\ l \in Int /\ n \in Int /\ a \in Int
      BY <1>2, PlaceBounds, ImageAddress, Address DEF l, n
    <2>3. a % PAGE < n /\ l + (a % PAGE) = SectorOf(p, a)
      BY <2>1, <2>2
    <2>4. QED
      BY <1>4, <2>2, <2>3 DEF page
  <1>18. QED
    BY <1>6, <1>7, <1>8, <1>12, <1>13, <1>14, <1>15, <1>16, <1>17 DEF PagesInv

\* A step that leaves the tables of images alone
LEMMA EntriesKept ==
  ASSUME request' = request,
         \A x \in Programs : \A j \in 5..request[x], h \in Index : Cell(x, j, h)' = Cell(x, j, h)
  PROVE  \A x \in Programs :
           /\ Complete(x)' <=> Complete(x)
           /\ Complete(x) => \A a \in Image(x) :
                EntryOf(x, a)' = EntryOf(x, a) /\ (IsPresent(x, a)' <=> IsPresent(x, a))
  <1>1. \A x \in Programs : Complete(x)' <=> Complete(x)
    BY DEF Complete
  <1>2. ASSUME NEW x \in Programs, Complete(x), NEW a \in Image(x)
        PROVE  EntryOf(x, a)' = EntryOf(x, a)
    BY <1>2, ImageCell DEF Complete
  <1>3. QED
    BY <1>1, <1>2 DEF IsPresent

\* A step that sets the entry of the page of address a
LEMMA SetsPage ==
  ASSUME BootedSound, TypeInv, PhaseInv, TablesInv,
         NEW q \in Programs, Complete(q), NEW a \in Image(q), NEW e \in Entries,
         OnlySets(TableOf(q, a), get_table_index(a), e),
         UNCHANGED <<page_directory, request, memoryblocks, allocated>>
  PROVE  /\ TablesInv'
         /\ \A x \in Programs : Complete(x)' <=> Complete(x)
         /\ \A x \in Programs : \A j \in 5..request[x], h \in Index :
              Cell(x, j, h)' = IF x = q /\ j = TableNo(a) /\ h = get_table_index(a)
                               THEN e ELSE Cell(x, j, h)
         /\ \A x \in Programs : \A c \in Image(x) : Complete(x) =>
              /\ EntryOf(x, c)' = IF x = q /\ c \div PAGE = a \div PAGE THEN e ELSE EntryOf(x, c)
              /\ x = q /\ c \div PAGE = a \div PAGE => EntryOf(x, c) = EntryOf(q, a)
  <1> DEFINE k == TableNo(a)
             i == get_table_index(a)
  <1>1. k \in 5..request[q] /\ i \in Index /\ TableOf(q, a) = Got(q, k)
    BY ImageCell DEF Complete
  <1> HIDE DEF k, i
  <1>2. OnlySets(Got(q, k), i, e)
    BY <1>1 DEF i
  <1>3. /\ TablesInv'
        /\ \A x \in Programs : \A j \in 5..request[x], h \in Index :
             Cell(x, j, h)' = IF x = q /\ j = k /\ h = i THEN e ELSE Cell(x, j, h)
    BY <1>1, <1>2, SetsEntry
  <1>4. \A x \in Programs : Complete(x)' <=> Complete(x)
    BY DEF Complete
  <1>5. ASSUME NEW x \in Programs, NEW c \in Image(x), Complete(x)
        PROVE  /\ EntryOf(x, c)' = IF x = q /\ c \div PAGE = a \div PAGE THEN e ELSE EntryOf(x, c)
               /\ x = q /\ c \div PAGE = a \div PAGE => EntryOf(x, c) = EntryOf(q, a)
    <2>1. /\ EntryOf(x, c) = Cell(x, TableNo(c), get_table_index(c))
          /\ EntryOf(x, c)' = Cell(x, TableNo(c), get_table_index(c))'
          /\ TableNo(c) \in 5..request[x] /\ get_table_index(c) \in Index
      BY <1>5, ImageCell DEF Complete
    <2>2. x = q => ((c \div PAGE = a \div PAGE) <=> TableNo(c) = k /\ get_table_index(c) = i)
      BY SameCell DEF k, i
    <2>3. EntryOf(q, a) = Cell(q, k, i)
      BY ImageCell DEF k, i
    <2>4. QED
      BY <1>3, <2>1, <2>2, <2>3
  <1>6. QED
    BY <1>3, <1>4, <1>5 DEF k, i

\* The frame of a page that faulted gets its new owner.
LEMMA TakeIInv ==
  ASSUME BootedSound, IInv, NEW p \in Procs, Take(p)
  PROVE  IInv'
  <1> USE DEF IInv, ControlInv
  <1> DEFINE b == [pcb |-> p, vaddr |-> fault_addr[p], pinned |-> FALSE]
             zero == [s \in Sectors |-> 0]
  <1>1. /\ Owns(p, "take") /\ pc[p] = "take" /\ job[p] = "fault"
        /\ memoryblocks' = [memoryblocks EXCEPT ![frame] = b]
        /\ data' = [data EXCEPT ![frame] = zero]
        /\ tables' = [tables EXCEPT ![frame] = EmptyTable]
        /\ Goto(p, "read") /\ pc' = [pc EXCEPT ![p] = "read"]
        /\ UNCHANGED <<memory_lock, allocated, page_directory, disk, job, fault_addr, request,
                       frame, dirty, written, lost>>
    BY DEF Take, Granted, Owns, Goto
  <1>2. \A r \in Procs : pc'[r] = IF r = p THEN "read" ELSE pc[r]
    BY <1>1 DEF TypeInv
  <1>3. frame \in Frames /\ ~memoryblocks[frame].pinned /\ frame < allocated
    BY <1>1 DEF TypeInv, PagesInv, TransitInv, Inside
  <1>4. b \in Blocks /\ ~b.pinned /\ b.pcb = p /\ b.vaddr = fault_addr[p]
    <2>1. fault_addr[p] \in Int
      BY DEF TypeInv
    <2>2. QED
      BY <2>1 DEF Blocks
  <1>5. zero \in [Sectors -> Values]
    BY DEF Values
  <1> HIDE DEF b, zero
  <1>6. /\ memoryblocks'[frame] = b
        /\ \A f \in Frames : f # frame => memoryblocks'[f] = memoryblocks[f] /\ data'[f] = data[f]
    BY <1>1, <1>3 DEF TypeInv
  <1>7. TypeInv'
    <2>1. memoryblocks' \in [Frames -> Blocks]
      BY <1>1, <1>3, <1>4 DEF TypeInv
    <2>2. data' \in [Frames -> [Sectors -> Values]]
      BY <1>1, <1>3, <1>5 DEF TypeInv
    <2>3. tables' \in [Frames -> [Index -> Entries]]
      BY <1>1, <1>3, KernelFrameZero DEF TypeInv
    <2>4. QED
      BY <1>1, <2>1, <2>2, <2>3 DEF TypeInv, Handling, Inside
  <1>8. LockInv'
    BY <1>1, KeepLock DEF Handling, Inside
  <1>9. PhaseInv'
    BY <1>1, <1>2 DEF PhaseInv, Complete, Handling, Inside, Programs
  <1>10. \A r \in Procs : (pc[r] \in Inside => r = p) /\ (pc'[r] \in Inside => r = p)
    BY <1>1, <1>2, AloneInside
  <1>11. Transit = {frame} /\ Dropped = {} /\ \A x, a : ~BeingWritten(x, a)
    BY <1>1, <1>10, Lone
  <1>12. Transit' = {frame} /\ Dropped' = {} /\ \A x, a : ~BeingWritten(x, a)'
    BY <1>1, <1>2, <1>10, LoneNext
  <1>13. /\ TablesInv'
         /\ \A x \in Programs : \A j \in 5..request[x], h \in Index : Cell(x, j, h)' = Cell(x, j, h)
    BY <1>1, <1>3, <1>4, FrameReused
  <1>14. \A x \in Programs :
           /\ Complete(x)' <=> Complete(x)
           /\ Complete(x) => \A a \in Image(x) :
                EntryOf(x, a)' = EntryOf(x, a) /\ (IsPresent(x, a)' <=> IsPresent(x, a))
    BY <1>1, <1>13, EntriesKept
  <1>15. ImageInv'
    <2>1. \A f \in 0..(allocated - 1) : f \in Frames
      BY KernelFrameZero DEF TypeInv, Frames
    <2>2. QED
      BY <1>1, <1>6, <1>11, <1>12, <1>13, <1>14, <2>1 DEF PagesInv, ImageInv
  <1>16. PageInv'
    BY <1>1, <1>6, <1>11, <1>12, <1>14 DEF PagesInv, PageInv, IsPage
  <1>17. TransitInv'
    <2>1. ~memoryblocks'[frame'].pinned /\ frame' < allocated'
      BY <1>1, <1>3, <1>4, <1>6
    <2>2. \A r \in Procs : pc'[r] # "write"
      BY <1>2, <1>10 DEF Inside
    <2>3. \A r \in Procs : pc'[r] \in {"read", "map"} =>
            memoryblocks'[frame'].pcb = r /\ memoryblocks'[frame'].vaddr = fault_addr'[r]
      BY <1>1, <1>4, <1>6, <1>10 DEF Inside
    <2>4. \A x \in Programs : \A a \in Image(x) :
            pc'[x] \in Handling /\ job'[x] = "fault" /\ fault_addr'[x] = a => ~IsPresent(x, a)'
      <3>1. \A x \in Programs : pc'[x] \in Handling /\ job'[x] = "fault" =>
              pc[x] \in Handling /\ job[x] = "fault" /\ Complete(x)
        BY <1>1, <1>2 DEF PhaseInv, Handling, Inside, Programs
      <3>2. QED
        BY <1>1, <1>14, <3>1 DEF PagesInv, TransitInv
    <2>5. QED
      BY <2>1, <2>2, <2>3, <2>4 DEF TransitInv
  <1>18. DataInv'
    <2>1. ASSUME NEW x \in Programs, NEW a \in Image(x), Complete(x), IsPresent(x, a)
          PROVE  data'[FrameOf(EntryOf(x, a))] = data[FrameOf(EntryOf(x, a))]
      BY <1>6, <1>11, <2>1, PresentFacts DEF PagesInv
    <2>2. QED
      BY <1>1, <1>11, <1>12, <1>14, <2>1 DEF DataInv
  <1>19. ReadInv'
    BY <1>2, <1>10 DEF ReadInv, Inside
  <1>20. QED
    BY <1>7, <1>8, <1>9, <1>13, <1>15, <1>16, <1>17, <1>18, <1>19 DEF PagesInv

\* The entry of the evicted page is cleared.
LEMMA ClearIInv ==
  ASSUME BootedSound, IInv, NEW p \in Procs, Clear(p)
  PROVE  IInv'
  <1> USE DEF IInv, ControlInv
  <1> DEFINE l == IF dirty THEN "write" ELSE "take"
             e == Entry(MEM_START + frame, {})
  <1>1. /\ Owns(p, "clear") /\ pc[p] = "clear" /\ Goto(p, l) /\ pc' = [pc EXCEPT ![p] = l]
        /\ UNCHANGED <<memory_lock, allocated, memoryblocks, data, page_directory, disk, job,
                       fault_addr, request, frame, dirty, written, lost>>
    BY DEF Clear, Owns, Goto
  <1>2. /\ l \in Inside /\ l \in {"write", "take"} /\ l \in Handling
        /\ (l = "write") <=> dirty
    BY DEF Handling, Inside, TypeInv
  <1> HIDE DEF l
  <1>3. \A r \in Procs : pc'[r] = IF r = p THEN l ELSE pc[r]
    BY <1>1 DEF TypeInv
  <1>4. frame \in Frames /\ ~memoryblocks[frame].pinned /\ frame < allocated
    BY <1>1 DEF TypeInv, PagesInv, TransitInv, Inside
  <1>5. \A r \in Procs : (pc[r] \in Inside => r = p) /\ (pc'[r] \in Inside => r = p)
    BY <1>1, <1>2, <1>3, AloneInside
  <1>6. Transit = {} /\ Dropped = (IF dirty THEN {} ELSE {frame}) /\ \A x, c : ~BeingWritten(x, c)
    BY <1>1, <1>5, Lone
  <1>7. PICK q \in Programs : \E b \in Image(q) :
          IsPage(frame, q, b) /\ IsPresent(q, b) /\ FrameOf(EntryOf(q, b)) = frame
    BY <1>4, <1>6 DEF PagesInv, PageInv
  <1>8. PICK a \in Image(q) :
          IsPage(frame, q, a) /\ IsPresent(q, a) /\ FrameOf(EntryOf(q, a)) = frame
    BY <1>7
  <1>9. /\ memoryblocks[frame].pcb = q /\ memoryblocks[frame].vaddr = a /\ Complete(q)
        /\ tables' = [tables EXCEPT ![TableOf(q, a)][get_table_index(a)] = e]
    BY <1>8 DEF Clear, IsPage
  <1>10. e \in Entries /\ e.flags = {}
    BY <1>4, EntryLeads
  <1> HIDE DEF e
  <1>11. OnlySets(TableOf(q, a), get_table_index(a), e)
    BY <1>9, <1>10 DEF OnlySets, TypeInv
  <1>12. /\ TablesInv'
         /\ \A x \in Programs : Complete(x)' <=> Complete(x)
         /\ \A x \in Programs : \A j \in 5..request[x], h \in Index :
              Cell(x, j, h)' = IF x = q /\ j = TableNo(a) /\ h = get_table_index(a)
                               THEN e ELSE Cell(x, j, h)
         /\ \A x \in Programs : \A c \in Image(x) : Complete(x) =>
              /\ EntryOf(x, c)' = IF x = q /\ c \div PAGE = a \div PAGE THEN e ELSE EntryOf(x, c)
              /\ x = q /\ c \div PAGE = a \div PAGE => EntryOf(x, c) = EntryOf(q, a)
    BY <1>1, <1>9, <1>10, <1>11, SetsPage
  <1>13. \A x, c : BeingWritten(x, c)' <=> dirty /\ x = q /\ a \div PAGE = c \div PAGE
    BY <1>1, <1>2, <1>3, <1>5, <1>9, LoneNext
  <1>14. Transit' = {frame} /\ Dropped' = {}
    BY <1>1, <1>2, <1>3, <1>5, LoneNext
  <1>15. TypeInv'
    BY <1>1, <1>2, <1>11 DEF TypeInv, OnlySets
  <1>16. LockInv'
    BY <1>1, <1>2, KeepLock
  <1>17. PhaseInv'
    BY <1>1, <1>2, <1>3 DEF PhaseInv, Complete, Handling, Inside, Programs
  <1>18. ImageInv'
    <2> SUFFICES ASSUME NEW x \in Programs, NEW j \in 5..request[x], NEW h \in Index,
                        "P" \in Cell(x, j, h)'.flags
                 PROVE  LET f == FrameOf(Cell(x, j, h)')
                        IN  /\ f \in 0..(allocated - 1) /\ f \notin Transit' /\ ~memoryblocks[f].pinned
                            /\ \E c \in Image(x) :
                                 /\ memoryblocks[f].pcb = x /\ memoryblocks[f].vaddr = c
                                 /\ Complete(x)' /\ TableNo(c) = j /\ get_table_index(c) = h
      BY <1>1 DEF ImageInv
    <2>1. Cell(x, j, h)' = Cell(x, j, h) /\ ~(x = q /\ j = TableNo(a) /\ h = get_table_index(a))
      BY <1>10, <1>12
    <2>2. LET f == FrameOf(Cell(x, j, h))
          IN  /\ f \in 0..(allocated - 1) /\ ~memoryblocks[f].pinned
              /\ \E c \in Image(x) :
                   /\ memoryblocks[f].pcb = x /\ memoryblocks[f].vaddr = c
                   /\ Complete(x) /\ TableNo(c) = j /\ get_table_index(c) = h
      BY <2>1 DEF PagesInv, ImageInv
    <2>3. FrameOf(Cell(x, j, h)) # frame
      BY <1>9, <2>1, <2>2
    <2>4. QED
      BY <1>12, <1>14, <2>1, <2>2, <2>3
  <1>19. PageInv'
    <2> SUFFICES ASSUME NEW i \in Frames, i < allocated, ~memoryblocks[i].pinned, i # frame
                 PROVE  \E x \in Programs : \E c \in Image(x) :
                          IsPage(i, x, c)' /\ IsPresent(x, c)' /\ FrameOf(EntryOf(x, c)') = i
      BY <1>1, <1>14 DEF PageInv
    <2>1. PICK x \in Programs : \E c \in Image(x) :
            IsPage(i, x, c) /\ IsPresent(x, c) /\ FrameOf(EntryOf(x, c)) = i
      BY <1>6 DEF PagesInv, PageInv
    <2>2. PICK c \in Image(x) : IsPage(i, x, c) /\ IsPresent(x, c) /\ FrameOf(EntryOf(x, c)) = i
      BY <2>1
    <2>3. EntryOf(x, c)' = EntryOf(x, c)
      BY <1>8, <1>12, <2>2 DEF IsPage
    <2>4. QED
      BY <1>1, <1>12, <2>2, <2>3 DEF IsPage, IsPresent
  <1>20. TransitInv'
    <2>1. ~memoryblocks'[frame'].pinned /\ frame' < allocated'
      BY <1>1, <1>4
    <2>2. IsPage(frame, q, a)' /\ ~IsPresent(q, a)'
      BY <1>1, <1>8, <1>9, <1>10, <1>12 DEF IsPage, IsPresent
    <2>3. \A r \in Procs : pc'[r] \notin {"read", "map"}
      BY <1>2, <1>3, <1>5 DEF Inside
    <2>4. \A x \in Programs : \A c \in Image(x) :
            pc'[x] \in Handling /\ job'[x] = "fault" /\ fault_addr'[x] = c => ~IsPresent(x, c)'
      <3>1. \A x \in Programs : pc'[x] \in Handling /\ job'[x] = "fault" =>
              pc[x] \in Handling /\ job[x] = "fault" /\ Complete(x)
        BY <1>1, <1>3 DEF PhaseInv, Handling, Inside, Programs
      <3>2. QED
        BY <1>1, <1>10, <1>12, <3>1 DEF PagesInv, TransitInv, IsPresent
    <2>5. QED
      BY <2>1, <2>2, <2>3, <2>4 DEF TransitInv
  <1>21. DataInv'
    <2> SUFFICES ASSUME NEW x \in Programs, NEW c \in Image(x), <<x, c>> \notin lost
                 PROVE  IF Complete(x) /\ IsPresent(x, c)'
                        THEN /\ written[x][c] = data[FrameOf(EntryOf(x, c)')][c % PAGE]
                             /\ "D" \notin EntryOf(x, c)'.flags =>
                                  written[x][c] = disk[SectorOf(x, c)]
                        ELSE written[x][c] = IF BeingWritten(x, c)' THEN data[frame][c % PAGE]
                                             ELSE disk[SectorOf(x, c)]
      BY <1>1, <1>12, <1>14 DEF DataInv
    <2>1. CASE x = q /\ c \div PAGE = a \div PAGE
      <3>1. Complete(x) /\ EntryOf(x, c)' = e /\ EntryOf(x, c) = EntryOf(q, a)
        BY <1>9, <1>12, <2>1
      <3>2. ~IsPresent(x, c)' /\ IsPresent(x, c) /\ FrameOf(EntryOf(x, c)) = frame
        BY <1>8, <1>10, <3>1 DEF IsPresent
      <3>3. CASE dirty
        BY <1>13, <2>1, <3>1, <3>2, <3>3 DEF DataInv
      <3>4. CASE ~dirty
        BY <1>6, <1>13, <2>1, <3>1, <3>2, <3>4 DEF DataInv
      <3>5. QED
        BY <3>3, <3>4
    <2>2. CASE ~(x = q /\ c \div PAGE = a \div PAGE)
      <3>1. ~BeingWritten(x, c)' /\ ~BeingWritten(x, c)
        BY <1>6, <1>13, <2>2
      <3>2. Complete(x) => EntryOf(x, c)' = EntryOf(x, c) /\ (IsPresent(x, c)' <=> IsPresent(x, c))
        BY <1>12, <2>2 DEF IsPresent
      <3>3. QED
        BY <3>1, <3>2 DEF DataInv
    <2>3. QED
      BY <2>1, <2>2
  <1>22. ReadInv'
    BY <1>2, <1>3, <1>5 DEF ReadInv, Inside
  <1>23. QED
    BY <1>12, <1>15, <1>16, <1>17, <1>18, <1>19, <1>20, <1>21, <1>22 DEF PagesInv

\* A page that has been read in becomes present.
LEMMA MapIInv ==
  ASSUME BootedSound, IInv, NEW p \in Procs, Map(p)
  PROVE  IInv'
  <1> USE DEF IInv, ControlInv
  <1> DEFINE e == Entry(MEM_START + frame, {"P", "US"})
  <1>0. PICK a : a = fault_addr[p]
    OBVIOUS
  <1>1. /\ Owns(p, "map") /\ pc[p] = "map" /\ LockRelease
        /\ Goto(p, "run") /\ pc' = [pc EXCEPT ![p] = "run"]
        /\ tables' = [tables EXCEPT ![TableOf(p, a)][get_table_index(a)] = e]
        /\ UNCHANGED <<allocated, memoryblocks, data, page_directory, disk, job, fault_addr,
                       request, frame, dirty, written, lost>>
    BY <1>0 DEF Map, Owns, Goto
  <1>2. \A r \in Procs : pc'[r] = IF r = p THEN "run" ELSE pc[r]
    BY <1>1 DEF TypeInv
  <1>3. /\ p \in Programs /\ a \in Image(p) /\ Complete(p) /\ job[p] = "fault"
        /\ p \notin Threads
    BY <1>0, <1>1 DEF PhaseInv, Handling, Inside, Programs
  <1>4. /\ frame \in Frames /\ ~memoryblocks[frame].pinned /\ frame < allocated
        /\ memoryblocks[frame].pcb = p /\ memoryblocks[frame].vaddr = a
    BY <1>0, <1>1 DEF TypeInv, PagesInv, TransitInv, Inside
  <1>5. ~IsPresent(p, a)
    BY <1>0, <1>1, <1>3 DEF PagesInv, TransitInv, Handling, Inside
  <1>6. e \in Entries /\ e.flags = {"P", "US"} /\ FrameOf(e) = frame
    BY <1>4, EntryLeads
  <1> HIDE DEF e
  <1>7. OnlySets(TableOf(p, a), get_table_index(a), e)
    <2>1. tables' = [tables EXCEPT ![TableOf(p, a)][get_table_index(a)] = e]
      BY <1>1
    <2>2. e \in Entries /\ tables \in [Frames -> [Index -> Entries]]
      BY <1>6 DEF TypeInv
    <2>3. QED
      BY <2>1, <2>2 DEF OnlySets
  <1>8. /\ TablesInv'
        /\ \A x \in Programs : Complete(x)' <=> Complete(x)
        /\ \A x \in Programs : \A j \in 5..request[x], h \in Index :
             Cell(x, j, h)' = IF x = p /\ j = TableNo(a) /\ h = get_table_index(a)
                              THEN e ELSE Cell(x, j, h)
        /\ \A x \in Programs : \A c \in Image(x) : Complete(x) =>
             /\ EntryOf(x, c)' = IF x = p /\ c \div PAGE = a \div PAGE THEN e ELSE EntryOf(x, c)
             /\ x = p /\ c \div PAGE = a \div PAGE => EntryOf(x, c) = EntryOf(p, a)
    BY <1>1, <1>3, <1>6, <1>7, SetsPage
  <1>9. (\A r \in Procs : pc[r] \in Inside => r = p) /\ \A r \in Procs : pc'[r] \notin Inside
    BY <1>1, <1>2, AloneInside DEF Inside
  <1>10. Transit = {frame} /\ Dropped = {} /\ \A x, c : ~BeingWritten(x, c)
    BY <1>1, <1>9, Lone
  <1>11. Transit' = {} /\ Dropped' = {} /\ \A x, c : ~BeingWritten(x, c)'
    BY <1>1, <1>2, <1>9, LoneNext
  <1>12. TypeInv'
    BY <1>1, <1>7 DEF TypeInv, OnlySets
  <1>13. LockInv'
    BY <1>1, ReleaseLock DEF Handling, Inside
  <1>14. PhaseInv'
    BY <1>1, <1>2, <1>3 DEF PhaseInv, Complete, Handling, Inside, Programs
  <1>15. ImageInv'
    <2> SUFFICES ASSUME NEW x \in Programs, NEW j \in 5..request[x], NEW h \in Index,
                        "P" \in Cell(x, j, h)'.flags
                 PROVE  LET f == FrameOf(Cell(x, j, h)')
                        IN  /\ f \in 0..(allocated - 1) /\ ~memoryblocks[f].pinned
                            /\ \E c \in Image(x) :
                                 /\ memoryblocks[f].pcb = x /\ memoryblocks[f].vaddr = c
                                 /\ Complete(x) /\ TableNo(c) = j /\ get_table_index(c) = h
      BY <1>1, <1>8, <1>11 DEF ImageInv
    <2>1. CASE x = p /\ j = TableNo(a) /\ h = get_table_index(a)
      <3>1. Cell(x, j, h)' = e /\ frame \in 0..(allocated - 1)
        BY <1>4, <1>8, <2>1, KernelFrameZero DEF TypeInv, Frames
      <3>2. QED
        BY <1>3, <1>4, <1>6, <2>1, <3>1
    <2>2. CASE ~(x = p /\ j = TableNo(a) /\ h = get_table_index(a))
      <3>1. Cell(x, j, h)' = Cell(x, j, h)
        BY <1>8, <2>2
      <3>2. QED
        BY <3>1 DEF PagesInv, ImageInv
    <2>3. QED
      BY <2>1, <2>2
  <1>16. PageInv'
    <2> SUFFICES ASSUME NEW i \in Frames, i < allocated, ~memoryblocks[i].pinned
                 PROVE  \E x \in Programs : \E c \in Image(x) :
                          IsPage(i, x, c)' /\ IsPresent(x, c)' /\ FrameOf(EntryOf(x, c)') = i
      BY <1>1, <1>11 DEF PageInv
    <2>1. CASE i = frame
      <3>1. EntryOf(p, a)' = e
        BY <1>3, <1>8
      <3>2. IsPage(i, p, a)' /\ IsPresent(p, a)' /\ FrameOf(EntryOf(p, a)') = i
        BY <1>1, <1>3, <1>4, <1>6, <1>8, <2>1, <3>1 DEF IsPage, IsPresent
      <3>3. QED
        BY <1>3, <3>2
    <2>2. CASE i # frame
      <3>1. PICK x \in Programs : \E c \in Image(x) :
              IsPage(i, x, c) /\ IsPresent(x, c) /\ FrameOf(EntryOf(x, c)) = i
        BY <1>10, <2>2 DEF PagesInv, PageInv
      <3>2. PICK c \in Image(x) : IsPage(i, x, c) /\ IsPresent(x, c) /\ FrameOf(EntryOf(x, c)) = i
        BY <3>1
      <3>3. EntryOf(x, c)' = EntryOf(x, c)
        BY <1>5, <1>8, <3>2 DEF IsPage, IsPresent
      <3>4. QED
        BY <1>1, <1>8, <3>2, <3>3 DEF IsPage, IsPresent
    <2>3. QED
      BY <2>1, <2>2
  <1>17. TransitInv'
    <2>1. \A x \in Programs : pc'[x] \in Handling /\ job'[x] = "fault" =>
            x # p /\ pc[x] \in Handling /\ job[x] = "fault" /\ Complete(x)
      BY <1>1, <1>2, <1>3 DEF PhaseInv, Handling, Inside, Programs
    <2>2. \A x \in Programs : \A c \in Image(x) :
            pc'[x] \in Handling /\ job'[x] = "fault" /\ fault_addr'[x] = c => ~IsPresent(x, c)'
      BY <1>1, <1>8, <2>1 DEF PagesInv, TransitInv, IsPresent
    <2>3. QED
      BY <1>9, <2>2 DEF TransitInv, Inside
  <1>18. DataInv'
    <2> SUFFICES ASSUME NEW x \in Programs, NEW c \in Image(x), <<x, c>> \notin lost
                 PROVE  IF Complete(x) /\ IsPresent(x, c)'
                        THEN /\ written[x][c] = data[FrameOf(EntryOf(x, c)')][c % PAGE]
                             /\ "D" \notin EntryOf(x, c)'.flags =>
                                  written[x][c] = disk[SectorOf(x, c)]
                        ELSE written[x][c] = disk[SectorOf(x, c)]
      BY <1>1, <1>8, <1>11 DEF DataInv
    <2>1. CASE x = p /\ c \div PAGE = a \div PAGE
      <3>1. EntryOf(x, c)' = e /\ ~IsPresent(x, c)
        BY <1>3, <1>5, <1>8, <2>1 DEF IsPresent
      <3>2. written[x][c] = disk[SectorOf(x, c)]
        BY <1>10, <3>1 DEF DataInv
      <3>3. data[frame][c % PAGE] = disk[SectorOf(x, c)]
        BY <1>0, <1>1, <2>1 DEF ReadInv
      <3>4. QED
        BY <1>6, <3>1, <3>2, <3>3
    <2>2. CASE ~(x = p /\ c \div PAGE = a \div PAGE)
      <3>1. Complete(x) => EntryOf(x, c)' = EntryOf(x, c) /\ (IsPresent(x, c)' <=> IsPresent(x, c))
        BY <1>8, <2>2 DEF IsPresent
      <3>2. QED
        BY <1>10, <3>1 DEF DataInv
    <2>3. QED
      BY <2>1, <2>2
  <1>19. ReadInv'
    BY <1>9 DEF ReadInv, Inside
  <1>20. QED
    BY <1>8, <1>12, <1>13, <1>14, <1>15, <1>16, <1>17, <1>18, <1>19 DEF PagesInv

\* A running program writes to a page that is present.
LEMMA WriteIInv ==
  ASSUME BootedSound, IInv, NEW p \in Programs, NEW a \in Image(p), NEW w \in Values, Write(p, a, w)
  PROVE  IInv'
  <1> USE DEF IInv, ControlInv
  <1> DEFINE i == FrameOf(EntryOf(p, a))
             o == a % PAGE
             e == [EntryOf(p, a) EXCEPT !.flags = @ \cup {"D"}]
  <1>1. /\ pc[p] = "run" /\ IsPresent(p, a) /\ p \in Procs /\ p \notin Threads
        /\ data' = [data EXCEPT ![i][o] = w]
        /\ written' = [written EXCEPT ![p][a] = w]
        /\ lost' = IF frame = i /\ ~dirty /\ \E r \in Procs : pc[r] = "clear"
                   THEN lost \cup {<<p, a>>} ELSE lost \ {<<p, a>>}
        /\ UNCHANGED <<memory_lock, allocated, memoryblocks, page_directory, disk, pc, job,
                       fault_addr, request, frame, dirty>>
    BY DEF Write, Programs
  <1>2. Complete(p)
    BY <1>1 DEF PhaseInv
  <1>3. /\ i \in Frames /\ i \notin Transit /\ memoryblocks[i].pcb = p
        /\ memoryblocks[i].vaddr \div PAGE = a \div PAGE
    BY <1>1, <1>2, PresentFacts DEF PagesInv
  <1>4. a \in Int /\ o \in Sectors
    BY ImageAddress, Address
  <1>5. EntryOf(p, a) \in Entries /\ TableOf(p, a) \in Frames /\ get_table_index(a) \in Index
    <2>1. /\ TableOf(p, a) = Got(p, TableNo(a)) /\ get_table_index(a) \in Index
          /\ TableNo(a) \in 5..request[p]
      BY <1>2, ImageCell DEF Complete
    <2>2. TableNo(a) \in 1..request[p]
      BY <2>1, GotFacts
    <2>3. TableOf(p, a) \in Frames
      BY <2>1, <2>2, GotFacts
    <2>4. QED
      BY <2>1, <2>3 DEF EntryOf, TypeInv
  <1>6. e \in Entries /\ e.flags = EntryOf(p, a).flags \cup {"D"} /\ FrameOf(e) = i
    BY <1>5 DEF Entries, FrameOf
  <1>7. OnlySets(TableOf(p, a), get_table_index(a), e)
    <2>1. tables' = [tables EXCEPT ![TableOf(p, a)][get_table_index(a)].flags = @ \cup {"D"}]
      BY DEF Write
    <2> DEFINE X == TableOf(p, a)
               h == get_table_index(a)
    <2>2. EntryOf(p, a) = tables[X][h]
      BY DEF EntryOf
    <2> HIDE DEF X, h
    <2>3. tables' = [tables EXCEPT ![X][h] = [tables[X][h] EXCEPT !.flags = @ \cup {"D"}]]
      BY <2>1 DEF X, h
    <2>4. tables' = [tables EXCEPT ![X][h] = e]
      BY <2>2, <2>3
    <2>5. e \in Entries
      BY <1>6
    <2>6. tables \in [Frames -> [Index -> Entries]] /\ X \in Frames /\ h \in Index
      BY <1>5 DEF TypeInv, X, h
    <2> HIDE DEF e
    <2>7. OnlySets(X, h, e)
      BY <2>4, <2>5, <2>6 DEF OnlySets
    <2>8. QED
      BY <2>7 DEF X, h
  <1> HIDE DEF i, o, e
  <1>8. /\ TablesInv'
        /\ \A x \in Programs : Complete(x)' <=> Complete(x)
        /\ \A x \in Programs : \A j \in 5..request[x], h \in Index :
             Cell(x, j, h)' = IF x = p /\ j = TableNo(a) /\ h = get_table_index(a)
                              THEN e ELSE Cell(x, j, h)
        /\ \A x \in Programs : \A c \in Image(x) : Complete(x) =>
             /\ EntryOf(x, c)' = IF x = p /\ c \div PAGE = a \div PAGE THEN e ELSE EntryOf(x, c)
             /\ x = p /\ c \div PAGE = a \div PAGE => EntryOf(x, c) = EntryOf(p, a)
    BY <1>1, <1>2, <1>6, <1>7, SetsPage
  <1>9. /\ \A x \in Programs : \A j \in 5..request[x], h \in Index :
             /\ FrameOf(Cell(x, j, h)') = FrameOf(Cell(x, j, h))
             /\ "P" \in Cell(x, j, h)'.flags <=> "P" \in Cell(x, j, h).flags
        /\ \A x \in Programs : \A c \in Image(x) : Complete(x) =>
             /\ FrameOf(EntryOf(x, c)') = FrameOf(EntryOf(x, c))
             /\ IsPresent(x, c)' <=> IsPresent(x, c)
    <2>1. EntryOf(p, a) = Cell(p, TableNo(a), get_table_index(a))
      BY ImageCell
    <2>2. "P" \in e.flags <=> "P" \in EntryOf(p, a).flags
      BY <1>6
    <2>3. FrameOf(e) = FrameOf(EntryOf(p, a))
      BY <1>6 DEF i
    <2>4. QED
      BY <1>8, <2>1, <2>2, <2>3 DEF IsPresent
  <1>10. /\ Transit' = Transit /\ Dropped' = Dropped
         /\ \A x, c : BeingWritten(x, c)' <=> BeingWritten(x, c)
    BY <1>1 DEF Transit, Dropped, BeingWritten
  <1>11. /\ data'[i][o] = w /\ \A s \in Sectors : s # o => data'[i][s] = data[i][s]
         /\ \A f \in Frames : f # i => data'[f] = data[f]
         /\ data' \in [Frames -> [Sectors -> Values]]
    BY <1>1, <1>3, <1>4 DEF TypeInv
  <1>12. /\ written'[p][a] = w
         /\ \A x \in Programs : \A c \in Image(x) : ~(x = p /\ c = a) => written'[x][c] = written[x][c]
         /\ DOMAIN written' = Programs /\ \A x \in Programs : written'[x] \in [Image(x) -> Values]
    BY <1>1 DEF TypeInv
  <1>13. TypeInv'
    BY <1>1, <1>7, <1>11, <1>12 DEF TypeInv, OnlySets
  <1>14. LockInv' /\ PhaseInv'
    BY <1>1 DEF LockInv, PhaseInv, Complete
  <1>15. ImageInv'
    BY <1>1, <1>8, <1>9, <1>10 DEF PagesInv, ImageInv
  <1>16. PageInv'
    BY <1>1, <1>8, <1>9, <1>10 DEF PagesInv, PageInv, IsPage
  <1>17. TransitInv'
    <2>1. \A r \in Procs : pc'[r] \in Inside => ~memoryblocks'[frame'].pinned /\ frame' < allocated'
      BY <1>1 DEF PagesInv, TransitInv
    <2>2. \A r \in Procs : pc'[r] = "write" => \E x \in Programs : \E c \in Image(x) :
            IsPage(frame, x, c)' /\ ~IsPresent(x, c)'
      BY <1>1, <1>8, <1>9 DEF PagesInv, TransitInv, IsPage
    <2>3. \A r \in Procs : pc'[r] \in {"read", "map"} =>
            memoryblocks'[frame'].pcb = r /\ memoryblocks'[frame'].vaddr = fault_addr'[r]
      BY <1>1 DEF PagesInv, TransitInv
    <2>4. \A x \in Programs : \A c \in Image(x) :
            pc'[x] \in Handling /\ job'[x] = "fault" /\ fault_addr'[x] = c => ~IsPresent(x, c)'
      <3>1. \A x \in Programs : pc[x] \in Handling /\ job[x] = "fault" => Complete(x)
        BY DEF PhaseInv, Programs
      <3>2. QED
        BY <1>1, <1>9, <3>1 DEF PagesInv, TransitInv
    <2>5. QED
      BY <2>1, <2>2, <2>3, <2>4 DEF TransitInv
  <1>18. DataInv'
    <2> SUFFICES ASSUME NEW x \in Programs, NEW c \in Image(x), <<x, c>> \notin lost'
                 PROVE  IF Complete(x) /\ IsPresent(x, c)
                        THEN /\ written'[x][c] = data'[FrameOf(EntryOf(x, c))][c % PAGE]
                             /\ "D" \notin EntryOf(x, c)'.flags \/ FrameOf(EntryOf(x, c)) \in Dropped =>
                                  written'[x][c] = disk[SectorOf(x, c)]
                        ELSE written'[x][c] = IF BeingWritten(x, c) THEN data'[frame][c % PAGE]
                                              ELSE disk[SectorOf(x, c)]
      BY <1>1, <1>8, <1>9, <1>10 DEF DataInv
    <2>1. CASE x = p /\ c = a
      <3>1. i \notin Dropped
        BY <1>1, <2>1 DEF Dropped
      <3>2. "D" \in EntryOf(x, c)'.flags
        BY <1>2, <1>6, <1>8, <2>1
      <3>3. QED
        BY <1>1, <1>2, <1>11, <1>12, <2>1, <3>1, <3>2 DEF i, o
    <2>2. CASE ~(x = p /\ c = a)
      <3>1. <<x, c>> \notin lost /\ written'[x][c] = written[x][c]
        BY <1>1, <1>12, <2>2
      <3>2. CASE Complete(x) /\ IsPresent(x, c)
        <4> DEFINE f == FrameOf(EntryOf(x, c))
        <4>1. /\ f \in Frames /\ memoryblocks[f].pcb = x
              /\ memoryblocks[f].vaddr \div PAGE = c \div PAGE
          BY <3>2, PresentFacts DEF PagesInv
        <4>2. c \in Int /\ c % PAGE \in Sectors
          BY ImageAddress, Address
        <4>3. f = i => c % PAGE # o
          <5>1. SUFFICES ASSUME f = i PROVE c % PAGE # o
            OBVIOUS
          <5>2. x = p /\ c \div PAGE = a \div PAGE
            BY <1>3, <4>1, <5>1
          <5>3. QED
            BY <1>4, <2>2, <4>2, <5>2, SamePage DEF o
        <4>4. data'[f][c % PAGE] = data[f][c % PAGE]
          BY <1>11, <4>1, <4>2, <4>3
        <4>5. "D" \notin EntryOf(x, c)'.flags => "D" \notin EntryOf(x, c).flags
          BY <1>6, <1>8, <3>2
        <4>6. QED
          BY <3>1, <3>2, <4>4, <4>5 DEF DataInv
      <3>3. CASE ~(Complete(x) /\ IsPresent(x, c))
        <4>1. BeingWritten(x, c) => frame # i /\ frame \in Frames
          BY <1>3 DEF BeingWritten, Transit, TypeInv
        <4>2. QED
          BY <1>11, <3>1, <3>3, <4>1 DEF DataInv
      <3>4. QED
        BY <3>2, <3>3
    <2>3. QED
      BY <2>1, <2>2
  <1>19. ReadInv'
    <2>1. \A r \in Procs : pc[r] = "map" => frame # i /\ frame \in Frames
      BY <1>3 DEF Transit, TypeInv
    <2>2. QED
      BY <1>1, <1>11, <2>1 DEF ReadInv
  <1>20. QED
    BY <1>8, <1>13, <1>14, <1>15, <1>16, <1>17, <1>18, <1>19 DEF PagesInv

\* What setup_page_table(p) does to directories and tables with the frame of its
\* k-th request: the frame is entered where Got(p, k) looks for it, the directory
\* and the table of the stack have what they should, a table of the image has
\* no page that is present, and nothing else that is in use changes.
Enters(p, k) ==
  /\ tables' \in [Frames -> [Index -> Entries]] /\ page_directory' \in [Procs -> Frames]
  /\ \A f \in KernelFrames : tables'[f] = tables[f]
  /\ \A q \in Procs : q # p => page_directory'[q] = page_directory[q]
  /\ \A q \in Programs : q # p => \A j \in 1..request[q] : tables'[Got(q, j)] = tables[Got(q, j)]
  /\ \A j \in 1..(k - 1) : Got(p, j)' = Got(p, j)
  /\ Got(p, k)' = frame
  /\ \A j \in 5..(k - 1) : tables'[Got(p, j)] = tables[Got(p, j)]
  /\ k >= 5 => \A h \in Index : "P" \notin tables'[frame][h].flags
  /\ \A j \in TableRequests(k) :
       tables'[page_directory'[p]][get_directory_index(RequestAddr(j))].flags = {"P", "US"}
  /\ \A d \in Index \ {get_directory_index(RequestAddr(j)) : j \in TableRequests(k)} :
       tables'[page_directory'[p]][d] = Booted.tables[0][d]
  /\ k >= 2 => \A i \in Index \ {get_table_index(RequestAddr(j)) : j \in {3, 4} \cap 1..k} :
       tables'[Got(p, 2)'][i] = NoEntry

\* The frame in transit has no use yet.
LEMMA FrameUnused ==
  ASSUME BootedSound, TypeInv, PhaseInv, TablesInv, ~memoryblocks[frame].pinned
  PROVE  /\ frame \in Frames /\ frame \notin KernelFrames /\ 0 \in Frames
         /\ \A q \in Programs : \A j \in 1..request[q] : Got(q, j) # frame /\ Got(q, j) \in Frames
                                                           /\ Got(q, j) \notin KernelFrames
  <1>1. frame \in Frames /\ frame \notin KernelFrames
    BY DEF TypeInv, TablesInv, KernelInv
  <1>2. QED
    BY <1>1, GotFacts, KernelFrameZero

\* The first request: the directory is a copy of the kernel's.
LEMMA EntersDirectory ==
  ASSUME BootedSound, TypeInv, PhaseInv, TablesInv, ~memoryblocks[frame].pinned,
         NEW p \in Programs, request[p] = 0, Entered(p, 1)
  PROVE  Enters(p, 1)
  <1>1. p \in Procs
    BY DEF Programs
  <1>2. /\ page_directory' = [page_directory EXCEPT ![p] = frame]
        /\ tables' = [tables EXCEPT ![frame] = tables[0]]
    BY DEF Entered
  <1>3. /\ frame \in Frames /\ frame \notin KernelFrames /\ 0 \in Frames
        /\ \A q \in Programs : \A j \in 1..request[q] : Got(q, j) # frame /\ Got(q, j) \in Frames
    BY FrameUnused
  <1>4. tables \in [Frames -> [Index -> Entries]] /\ page_directory \in [Procs -> Frames]
    BY DEF TypeInv
  <1>5. /\ \A f \in Frames : f # frame => tables'[f] = tables[f]
        /\ tables'[frame] = tables[0] /\ tables' \in [Frames -> [Index -> Entries]]
    BY <1>2, <1>3, <1>4
  <1>6. /\ \A q \in Procs : q # p => page_directory'[q] = page_directory[q]
        /\ page_directory'[p] = frame /\ page_directory' \in [Procs -> Frames]
    BY <1>1, <1>2, <1>3, <1>4
  <1>7. \A f \in KernelFrames : tables'[f] = tables[f]
    BY <1>3, <1>5, KernelFrameZero
  <1>8. Got(p, 1)' = frame
    BY <1>6 DEF Got
  <1>9. TableRequests(1) = {}
    BY DEF TableRequests
  <1>10. tables[0] = Booted.tables[0]
    BY KernelFrameZero DEF TablesInv, KernelInv
  <1>11. QED
    BY <1>3, <1>5, <1>6, <1>7, <1>8, <1>9, <1>10 DEF Enters

\* A request for a table: it is entered in the directory.
LEMMA EntersTable ==
  ASSUME BootedSound, TypeInv, PhaseInv, TablesInv, ~memoryblocks[frame].pinned,
         NEW p \in Programs, NEW k \in Nat, k = request[p] + 1, k <= 4 + nrOfTables(p),
         k = 2 \/ k >= 5, Entered(p, k)
  PROVE  Enters(p, k)
  <1> DEFINE D == page_directory[p]
             r == get_directory_index(RequestAddr(k))
             e == Entry(MEM_START + frame, {"P", "US"})
             T == IF k = 2 THEN EmptyTable ELSE ImageTable(p, k)
  <1>1. /\ frame \in Frames /\ frame \notin KernelFrames
        /\ \A q \in Programs : \A j \in 1..request[q] : Got(q, j) # frame /\ Got(q, j) \in Frames
                                                          /\ Got(q, j) \notin KernelFrames
    BY FrameUnused
  <1>2. /\ p \in Procs /\ request[p] \in Nat /\ request[p] >= 1 /\ nrOfTables(p) \in Nat
        /\ \A j \in 1..(k - 1) : j \in 1..request[p]
    BY GotFacts, TablesCount
  <1>3. D = Got(p, 1) /\ D \in Frames /\ D # frame /\ D \notin KernelFrames
    BY <1>1, <1>2, GotFacts
  <1>4. tables \in [Frames -> [Index -> Entries]] /\ page_directory \in [Procs -> Frames]
    BY DEF TypeInv
  <1>5. k \in {2} \cup 5..(4 + nrOfTables(p)) /\ r \in Index
    BY <1>2, Requests
  <1>6. e \in Entries /\ e.flags = {"P", "US"} /\ FrameOf(e) = frame
    BY <1>1, EntryLeads
  <1>7. /\ T \in [Index -> Entries] /\ \A h \in Index : "P" \notin T[h].flags
        /\ k = 2 => \A h \in Index : T[h] = NoEntry
    <2>1. Entry(0, {"US"}) \in Entries /\ Entry(0, {"US"}).flags = {"US"}
      BY DEF Entry, Entries
    <2>2. /\ NoEntry \in Entries /\ NoEntry.flags = {}
          /\ EmptyTable \in [Index -> Entries] /\ \A h \in Index : EmptyTable[h] = NoEntry
      BY DEF NoEntry, EmptyTable, Entry, Entries
    <2>3. /\ ImageTable(p, k) \in [Index -> Entries]
          /\ \A h \in Index : ImageTable(p, k)[h] \in {Entry(0, {"US"}), NoEntry}
      BY <2>1, <2>2 DEF ImageTable
    <2> HIDE DEF Entry, NoEntry, EmptyTable, ImageTable
    <2>4. QED
      BY <2>1, <2>2, <2>3
  <1>8. /\ page_directory' = page_directory
        /\ tables' = [tables EXCEPT ![frame] = T, ![D][r] = e]
    BY <1>2 DEF Entered
  <1> HIDE DEF D, r, e, T
  <1>9. /\ tables'[frame] = T
        /\ \A f \in Frames : f # frame /\ f # D => tables'[f] = tables[f]
        /\ \A h \in Index : tables'[D][h] = IF h = r THEN e ELSE tables[D][h]
        /\ tables' \in [Frames -> [Index -> Entries]]
    BY <1>1, <1>3, <1>4, <1>5, <1>6, <1>7, <1>8
  <1>10. \A f \in KernelFrames : tables'[f] = tables[f]
    BY <1>1, <1>3, <1>9, KernelFrameZero
  <1>11. \A q \in Programs : \A j \in 1..request[q] :
           Got(q, j) = D => q = p /\ j = 1
    <2>1. 1 \in 1..request[p] /\ D = Got(p, 1)
      BY <1>2, <1>3
    <2>2. ASSUME NEW q \in Programs, NEW j \in 1..request[q], Got(q, j) = Got(p, 1)
          PROVE  q = p /\ j = 1
      BY <2>1, <2>2, GotApart
    <2>3. QED
      BY <2>1, <2>2
  <1>12. \A q \in Programs : \A j \in 1..request[q] :
           ~(q = p /\ j = 1) => tables'[Got(q, j)] = tables[Got(q, j)]
    BY <1>1, <1>9, <1>11
  <1>13. \A j \in TableRequests(k) : j # k =>
           /\ get_directory_index(RequestAddr(j)) # r
           /\ get_directory_index(RequestAddr(j)) \in Index
           /\ j \in TableRequests(request[p])
    <2> SUFFICES ASSUME NEW j \in TableRequests(k), j # k
                 PROVE  /\ get_directory_index(RequestAddr(j)) # r
                        /\ get_directory_index(RequestAddr(j)) \in Index
                        /\ j \in TableRequests(request[p])
      OBVIOUS
    <2>1. j \in {2} \cup 5..(4 + nrOfTables(p)) /\ j \in TableRequests(request[p])
      BY <1>2 DEF TableRequests
    <2>2. get_directory_index(RequestAddr(j)) # r
      BY <1>5, <2>1, RegionsApart DEF r
    <2>3. QED
      BY <2>1, <2>2, Requests
  <1>14. \A j \in 1..(k - 1) : Got(p, j)' = Got(p, j)
    <2>1. \A j \in 1..(k - 1) : j = 2 \/ j >= 5 =>
            tables'[D][get_directory_index(RequestAddr(j))] = tables[D][get_directory_index(RequestAddr(j))]
      BY <1>9, <1>13 DEF TableRequests
    <2>2. k - 1 >= 2 => tables'[Got(p, 2)] = tables[Got(p, 2)]
      BY <1>2, <1>12
    <2>3. k - 1 \in Nat /\ page_directory'[p] = page_directory[p]
      BY <1>2, <1>8
    <2>4. QED
      BY <2>1, <2>2, <2>3, GotKept DEF D
  <1>15. Got(p, k)' = frame
    <2>1. k # 1 /\ k \notin {3, 4}
      OBVIOUS
    <2>2. Got(p, k)' = FrameOf(tables'[page_directory'[p]][r])
      BY <2>1 DEF Got, r
    <2>3. QED
      BY <1>5, <1>6, <1>8, <1>9, <2>2 DEF D
  <1>16. \A j \in 5..(k - 1) : tables'[Got(p, j)] = tables[Got(p, j)]
    BY <1>2, <1>12
  <1>17. k >= 5 => \A h \in Index : "P" \notin tables'[frame][h].flags
    BY <1>7, <1>9
  <1>18. page_directory'[p] = D
    BY <1>8 DEF D
  <1>19. \A j \in TableRequests(k) : tables'[D][get_directory_index(RequestAddr(j))].flags = {"P", "US"}
    <2> SUFFICES ASSUME NEW j \in TableRequests(k)
                 PROVE  tables'[D][get_directory_index(RequestAddr(j))].flags = {"P", "US"}
      OBVIOUS
    <2>1. CASE j = k
      BY <1>5, <1>6, <1>9, <2>1 DEF r
    <2>2. CASE j # k
      <3>1. tables'[D][get_directory_index(RequestAddr(j))] = tables[D][get_directory_index(RequestAddr(j))]
        BY <1>9, <1>13, <2>2
      <3>2. QED
        BY <1>2, <1>13, <2>2, <3>1 DEF TablesInv, DirectoryInv, D
    <2>3. QED
      BY <2>1, <2>2
  <1>20. \A d \in Index \ {get_directory_index(RequestAddr(j)) : j \in TableRequests(k)} :
           tables'[D][d] = Booted.tables[0][d]
    <2> SUFFICES ASSUME NEW d \in Index,
                        d \notin {get_directory_index(RequestAddr(j)) : j \in TableRequests(k)}
                 PROVE  tables'[D][d] = Booted.tables[0][d]
      OBVIOUS
    <2>1. k \in TableRequests(k) /\ TableRequests(request[p]) \subseteq TableRequests(k)
      BY <1>2 DEF TableRequests
    <2>2. d # r /\ d \notin {get_directory_index(RequestAddr(j)) : j \in TableRequests(request[p])}
      BY <2>1 DEF r
    <2>3. tables[D][d] = Booted.tables[0][d]
      BY <1>2, <2>2 DEF TablesInv, DirectoryInv, D
    <2>4. QED
      BY <1>9, <2>2, <2>3
  <1>21. \A i \in Index \ {get_table_index(RequestAddr(j)) : j \in {3, 4} \cap 1..k} :
           tables'[Got(p, 2)'][i] = NoEntry
    <2>1. CASE k = 2
      BY <1>7, <1>9, <1>15, <2>1
    <2>2. CASE k >= 5
      <3>1. request[p] >= 2 /\ {3, 4} \cap 1..k = {3, 4} \cap 1..request[p] /\ 2 \in 1..(k - 1)
        BY <1>2, <2>2
      <3>2. Got(p, 2)' = Got(p, 2) /\ tables'[Got(p, 2)] = tables[Got(p, 2)]
        BY <1>2, <1>12, <1>14, <3>1
      <3>3. QED
        BY <3>1, <3>2 DEF TablesInv, StackInv
    <2>3. QED
      BY <2>1, <2>2
  <1>22. \A q \in Programs : q # p => \A j \in 1..request[q] : tables'[Got(q, j)] = tables[Got(q, j)]
    BY <1>12
  <1>23. page_directory' \in [Procs -> Frames] /\ \A q \in Procs : q # p => page_directory'[q] = page_directory[q]
    BY <1>4, <1>8 DEF TypeInv
  <1>24. tables' \in [Frames -> [Index -> Entries]]
    BY <1>9
  <1>25. QED
    BY <1>10, <1>14, <1>15, <1>16, <1>17, <1>18, <1>19, <1>20, <1>21, <1>22, <1>23, <1>24 DEF Enters

\* A request for a stack page: it is entered in the table of the stack.
LEMMA EntersStack ==
  ASSUME BootedSound, TypeInv, PhaseInv, TablesInv, ~memoryblocks[frame].pinned,
         NEW p \in Programs, NEW k \in Nat, k = 3 \/ k = 4, k = request[p] + 1, Entered(p, k)
  PROVE  Enters(p, k)
  <1> DEFINE D == page_directory[p]
             S == Got(p, 2)
             h == get_table_index(RequestAddr(k))
             e == Entry(MEM_START + frame, {"P", "US"})
  <1>1. /\ frame \in Frames /\ frame \notin KernelFrames
        /\ \A q \in Programs : \A j \in 1..request[q] : Got(q, j) # frame /\ Got(q, j) \in Frames
                                                          /\ Got(q, j) \notin KernelFrames
    BY FrameUnused
  <1>2. /\ p \in Procs /\ request[p] \in Nat /\ request[p] >= 2 /\ request[p] = k - 1
        /\ 1 \in 1..request[p] /\ 2 \in 1..request[p]
    BY GotFacts
  <1>3. /\ D = Got(p, 1) /\ D \in Frames /\ D # frame /\ D # S
        /\ S \in Frames /\ S # frame /\ S \notin KernelFrames
        /\ S = TableOf(p, PROCESS_STACK)
    <2>1. D = Got(p, 1) /\ S = TableOf(p, PROCESS_STACK)
      BY <1>2, GotFacts DEF TableOf
    <2>2. Got(p, 1) = Got(p, 2) => 1 = 2
      BY <1>2, GotApart
    <2>3. /\ Got(p, 1) \in Frames /\ Got(p, 1) # frame
          /\ Got(p, 2) \in Frames /\ Got(p, 2) # frame /\ Got(p, 2) \notin KernelFrames
      BY <1>1, <1>2
    <2>4. QED
      BY <2>1, <2>2, <2>3
  <1>4. tables \in [Frames -> [Index -> Entries]] /\ page_directory \in [Procs -> Frames]
    BY DEF TypeInv
  <1>5. h \in Index /\ (k = 4 => h # get_table_index(RequestAddr(3)))
    BY StackAddress, Requests
  <1>6. e \in Entries /\ e.flags = {"P", "US"} /\ FrameOf(e) = frame
    BY <1>1, EntryLeads
  <1>7. EmptyTable \in [Index -> Entries]
    BY KernelFrameZero
  <1>8. /\ page_directory' = page_directory
        /\ tables' = [tables EXCEPT ![frame] = EmptyTable, ![S][h] = e]
    BY <1>3 DEF Entered
  <1> HIDE DEF D, S, h, e
  <1>9. /\ \A f \in Frames : f # frame /\ f # S => tables'[f] = tables[f]
        /\ \A j \in Index : tables'[S][j] = IF j = h THEN e ELSE tables[S][j]
        /\ tables' \in [Frames -> [Index -> Entries]]
    BY <1>1, <1>3, <1>4, <1>5, <1>6, <1>7, <1>8
  <1>10. \A f \in KernelFrames : tables'[f] = tables[f]
    BY <1>1, <1>3, <1>9, KernelFrameZero
  <1>11. \A q \in Programs : \A j \in 1..request[q] : Got(q, j) = S => q = p /\ j = 2
    BY <1>2, GotApart DEF S
  <1>12. \A q \in Programs : \A j \in 1..request[q] :
           ~(q = p /\ j = 2) => tables'[Got(q, j)] = tables[Got(q, j)]
    BY <1>1, <1>9, <1>11
  <1>13. page_directory'[p] = D /\ tables'[D] = tables[D]
    BY <1>3, <1>8, <1>9 DEF D
  <1>14. \A j \in 1..(k - 1) : Got(p, j)' = Got(p, j)
    <2>1. \A j \in {3, 4} \cap 1..(k - 1) :
            tables'[S][get_table_index(RequestAddr(j))] = tables[S][get_table_index(RequestAddr(j))]
      <3>1. \A j \in {3, 4} \cap 1..(k - 1) : j = 3 /\ k = 4
        OBVIOUS
      <3>2. get_table_index(RequestAddr(3)) \in Index
        BY StackAddress, Requests
      <3>3. QED
        BY <1>5, <1>9, <3>1, <3>2
    <2>2. k - 1 \in Nat /\ page_directory'[p] = page_directory[p]
      BY <1>2, <1>8
    <2>3. QED
      BY <1>13, <2>1, <2>2, GotKept DEF D, S
  <1>15. Got(p, k)' = frame
    <2>1. Got(p, k)' = FrameOf(tables'[FrameOf(tables'[D][get_directory_index(PROCESS_STACK)])][h])
      BY <1>13 DEF Got, h
    <2>2. S = FrameOf(tables[D][get_directory_index(PROCESS_STACK)])
      BY <1>3 DEF TableOf, D
    <2>3. QED
      BY <1>5, <1>6, <1>9, <1>13, <2>1, <2>2
  <1>16. TableRequests(k) = TableRequests(request[p])
    BY <1>2 DEF TableRequests
  <1>17. /\ \A j \in TableRequests(k) :
              tables'[D][get_directory_index(RequestAddr(j))].flags = {"P", "US"}
         /\ \A d \in Index \ {get_directory_index(RequestAddr(j)) : j \in TableRequests(k)} :
              tables'[D][d] = Booted.tables[0][d]
    <2> request[p] >= 1
      BY <1>2
    <2>1. ASSUME NEW j \in TableRequests(k)
          PROVE  tables'[D][get_directory_index(RequestAddr(j))].flags = {"P", "US"}
      BY <1>13, <1>16 DEF TablesInv, DirectoryInv, D
    <2>2. ASSUME NEW d \in Index,
                 d \notin {get_directory_index(RequestAddr(j)) : j \in TableRequests(k)}
          PROVE  tables'[D][d] = Booted.tables[0][d]
      <3>1. d \notin {get_directory_index(RequestAddr(j)) : j \in TableRequests(request[p])}
        BY <1>16, <2>2
      <3>2. tables[D][d] = Booted.tables[0][d]
        BY <3>1 DEF TablesInv, DirectoryInv, D
      <3>3. QED
        BY <1>13, <3>2
    <2>3. QED
      BY <2>1, <2>2
  <1>18. \A i \in Index \ {get_table_index(RequestAddr(j)) : j \in {3, 4} \cap 1..k} :
           tables'[Got(p, 2)'][i] = NoEntry
    <2> SUFFICES ASSUME NEW i \in Index,
                        i \notin {get_table_index(RequestAddr(j)) : j \in {3, 4} \cap 1..k}
                 PROVE  tables'[Got(p, 2)'][i] = NoEntry
      OBVIOUS
    <2>1. Got(p, 2)' = S /\ k \in {3, 4} \cap 1..k
          /\ {3, 4} \cap 1..request[p] \subseteq {3, 4} \cap 1..k
      BY <1>2, <1>14 DEF S
    <2>2. i # h /\ i \notin {get_table_index(RequestAddr(j)) : j \in {3, 4} \cap 1..request[p]}
      BY <2>1 DEF h
    <2>3. tables[S][i] = NoEntry
      BY <1>2, <2>2 DEF TablesInv, StackInv, S
    <2>4. QED
      BY <1>9, <2>1, <2>2, <2>3
  <1>19. ~(k >= 5) /\ \A j \in 5..(k - 1) : FALSE
    OBVIOUS
  <1>20. \A q \in Procs : q # p => page_directory'[q] = page_directory[q]
    BY <1>8
  <1>21. \A q \in Programs : q # p => \A j \in 1..request[q] : tables'[Got(q, j)] = tables[Got(q, j)]
    BY <1>12
  <1>22. page_directory' \in [Procs -> Frames]
    BY <1>4, <1>8
  <1>23. QED
    BY <1>9, <1>10, <1>13, <1>14, <1>15, <1>17, <1>18, <1>19, <1>20, <1>21, <1>22 DEF Enters

\* Every request is entered.
LEMMA EntersAll ==
  ASSUME BootedSound, TypeInv, PhaseInv, TablesInv, ~memoryblocks[frame].pinned,
         NEW p \in Programs, NEW k \in Nat, k = request[p] + 1, k <= 4 + nrOfTables(p), Entered(p, k)
  PROVE  Enters(p, k)
  <1>1. request[p] \in Nat
    BY GotFacts
  <1>2. CASE k = 1
    <2>1. request[p] = 0 /\ Entered(p, 1)
      BY <1>1, <1>2
    <2>2. Enters(p, 1)
      BY <2>1, EntersDirectory
    <2>3. QED
      BY <1>2, <2>2
  <1>3. CASE k = 2 \/ k >= 5
    BY <1>3, EntersTable
  <1>4. CASE k = 3 \/ k = 4
    BY <1>4, EntersStack
  <1>5. QED
    BY <1>1, <1>2, <1>3, <1>4

\* What is entered for one more request leaves all of the tables sound.
LEMMA EntersTablesInv ==
  ASSUME BootedSound, TypeInv, PhaseInv, TablesInv, ~memoryblocks[frame].pinned, frame < allocated,
         NEW p \in Programs, NEW k \in Nat, k = request[p] + 1, k <= 4 + nrOfTables(p), Enters(p, k),
         memoryblocks'[frame] = [pcb |-> RequestPcb(p, k), vaddr |-> RequestAddr(k), pinned |-> TRUE],
         \A f \in Frames : f # frame => memoryblocks'[f] = memoryblocks[f],
         request'[p] = k, \A q \in Programs : q # p => request'[q] = request[q],
         allocated' = allocated
  PROVE  /\ TablesInv'
         /\ \A q \in Programs : \A j \in 1..request[q] : Got(q, j)' = Got(q, j)
  <1>1. /\ frame \in Frames /\ frame \notin KernelFrames
        /\ \A q \in Programs : \A j \in 1..request[q] : Got(q, j) # frame /\ Got(q, j) \in Frames
    BY FrameUnused
  <1>2. \A q \in Programs : q \in Procs /\ request[q] \in Nat
    BY GotFacts
  <1>3. ASSUME NEW q \in Programs, q # p
        PROVE  /\ page_directory'[q] = page_directory[q]
               /\ request[q] >= 1 => tables'[page_directory[q]] = tables[page_directory[q]]
               /\ request[q] >= 2 => tables'[Got(q, 2)] = tables[Got(q, 2)]
               /\ \A j \in 1..request[q] : Got(q, j)' = Got(q, j)
    <2>1. page_directory'[q] = page_directory[q]
      BY <1>2, <1>3 DEF Enters
    <2>2. request[q] >= 1 => tables'[page_directory[q]] = tables[page_directory[q]]
      <3>1. request[q] >= 1 => 1 \in 1..request[q] /\ Got(q, 1) = page_directory[q]
        BY <1>2, GotFacts
      <3>2. QED
        BY <1>3, <3>1 DEF Enters
    <2>3. request[q] >= 2 => tables'[Got(q, 2)] = tables[Got(q, 2)]
      <3>1. request[q] >= 2 => 2 \in 1..request[q]
        BY <1>2
      <3>2. QED
        BY <1>3, <3>1 DEF Enters
    <2>4. \A j \in 1..request[q] : Got(q, j)' = Got(q, j)
      <3>1. CASE request[q] >= 1
        BY <1>2, <2>1, <2>2, <2>3, <3>1, GotKept
      <3>2. QED
        BY <1>2, <3>1
    <2>5. QED
      BY <2>1, <2>2, <2>3, <2>4
  <1>4. /\ \A j \in 1..request[p] : Got(p, j)' = Got(p, j)
        /\ Got(p, k)' = frame /\ request[p] = k - 1
    BY <1>2 DEF Enters
  <1>5. \A q \in Programs : \A j \in 1..request[q] : Got(q, j)' = Got(q, j)
    BY <1>3, <1>4
  <1>6. KernelInv'
    <2>1. \A f \in KernelFrames : f \in Frames /\ f # frame /\ tables'[f] = tables[f]
      BY <1>1, KernelFrameZero DEF Enters
    <2>2. \A f \in Frames : f >= allocated => f # frame
      BY KernelFrameZero DEF TypeInv, Frames
    <2>3. QED
      BY <2>1, <2>2 DEF TablesInv, KernelInv
  <1>7. ASSUME NEW q \in Programs, NEW j \in 1..request'[q]
        PROVE  (q = p /\ j = k) \/ j \in 1..request[q]
    BY <1>2, <1>4
  <1>8. GotInv'
    <2> SUFFICES ASSUME NEW q \in Programs, NEW j \in 1..request'[q]
                 PROVE  /\ Got(q, j)' \in Frames \ KernelFrames
                        /\ memoryblocks'[Got(q, j)'] =
                             [pcb |-> RequestPcb(q, j), vaddr |-> RequestAddr(j), pinned |-> TRUE]
                        /\ \A x \in Programs : \A h \in 1..request'[x] :
                             Got(q, j)' = Got(x, h)' => q = x /\ j = h
      BY DEF GotInv
    <2>1. CASE q = p /\ j = k
      <3>1. Got(q, j)' = frame
        BY <1>4, <2>1
      <3>2. ASSUME NEW x \in Programs, NEW h \in 1..request'[x], Got(q, j)' = Got(x, h)'
            PROVE  q = x /\ j = h
        BY <1>1, <1>5, <1>7, <2>1, <3>1, <3>2
      <3>3. QED
        BY <1>1, <2>1, <3>1, <3>2
    <2>2. CASE j \in 1..request[q]
      <3>1. Got(q, j)' = Got(q, j) /\ Got(q, j) # frame /\ Got(q, j) \in Frames
        BY <1>1, <1>5, <2>2
      <3>2. /\ Got(q, j) \in Frames \ KernelFrames
            /\ memoryblocks[Got(q, j)] =
                 [pcb |-> RequestPcb(q, j), vaddr |-> RequestAddr(j), pinned |-> TRUE]
        BY <2>2 DEF TablesInv, GotInv
      <3>3. ASSUME NEW x \in Programs, NEW h \in 1..request'[x], Got(q, j)' = Got(x, h)'
            PROVE  q = x /\ j = h
        <4>1. h \in 1..request[x]
          BY <1>4, <1>7, <3>1, <3>3
        <4>2. Got(q, j) = Got(x, h)
          BY <1>5, <3>1, <3>3, <4>1
        <4>3. QED
          BY <2>2, <4>1, <4>2, GotApart
      <3>4. QED
        BY <3>1, <3>2, <3>3
    <2>3. QED
      BY <1>7, <2>1, <2>2
  <1>9. DirectoryInv'
    <2> SUFFICES ASSUME NEW q \in Programs, request'[q] >= 1
                 PROVE  /\ \A j \in TableRequests(request'[q]) :
                             tables'[page_directory'[q]][get_directory_index(RequestAddr(j))].flags
                               = {"P", "US"}
                        /\ \A d \in Index \ {get_directory_index(RequestAddr(j)) :
                                               j \in TableRequests(request'[q])} :
                             tables'[page_directory'[q]][d] = Booted.tables[0][d]
      BY DEF DirectoryInv, TableRequests
    <2>1. CASE q = p
      BY <2>1 DEF Enters
    <2>2. CASE q # p
      <3>1. /\ request[q] >= 1 /\ request'[q] = request[q]
            /\ tables'[page_directory'[q]] = tables[page_directory[q]]
        BY <1>3, <2>2
      <3>2. QED
        BY <3>1 DEF TablesInv, DirectoryInv
    <2>3. QED
      BY <2>1, <2>2
  <1>10. StackInv'
    <2> SUFFICES ASSUME NEW q \in Programs, request'[q] >= 2, NEW i \in Index,
                        i \notin {get_table_index(RequestAddr(j)) : j \in {3, 4} \cap 1..request'[q]}
                 PROVE  tables'[Got(q, 2)'][i] = NoEntry
      BY DEF StackInv
    <2>1. CASE q = p
      BY <2>1 DEF Enters
    <2>2. CASE q # p
      <3>1. /\ request[q] >= 2 /\ request'[q] = request[q] /\ 2 \in 1..request[q]
            /\ tables'[Got(q, 2)] = tables[Got(q, 2)]
        BY <1>2, <1>3, <2>2
      <3>2. Got(q, 2)' = Got(q, 2)
        BY <1>5, <3>1
      <3>3. QED
        BY <3>1, <3>2 DEF TablesInv, StackInv
    <2>3. QED
      BY <2>1, <2>2
  <1>11. QED
    BY <1>5, <1>6, <1>8, <1>9, <1>10 DEF TablesInv

\* setup_page_table() goes on with the frame it has got.
LEMMA SetUpIInv ==
  ASSUME BootedSound, IInv, NEW p \in Procs, SetUp(p)
  PROVE  IInv'
  <1> USE DEF IInv, ControlInv
  <1> DEFINE zero == [s \in Sectors |-> 0]
             last == request[p] + 1 = 4 + nrOfTables(p)
             l == IF last THEN "run" ELSE "lock"
  <1>1. PICK k : k = request[p] + 1
    OBVIOUS
  <1> DEFINE b == [pcb |-> RequestPcb(p, k), vaddr |-> RequestAddr(k), pinned |-> TRUE]
  <1>2. /\ Owns(p, "take") /\ pc[p] = "take" /\ job[p] = "setup"
        /\ memoryblocks' = [memoryblocks EXCEPT ![frame] = b]
        /\ data' = [data EXCEPT ![frame] = zero]
        /\ Entered(p, k)
        /\ request' = [request EXCEPT ![p] = k]
        /\ Goto(p, l) /\ pc' = [pc EXCEPT ![p] = l]
        /\ IF last THEN LockRelease ELSE UNCHANGED memory_lock
        /\ UNCHANGED <<allocated, disk, job, fault_addr, frame, dirty, written, lost>>
    BY <1>1 DEF SetUp, Granted, Owns, Goto
  <1>3. /\ p \in Programs /\ ~Complete(p) /\ request[p] \in Nat /\ nrOfTables(p) \in Nat
        /\ k \in Nat /\ k >= 1 /\ k <= 4 + nrOfTables(p)
        /\ last <=> k = 4 + nrOfTables(p)
    <2>1. p \in Programs /\ ~Complete(p)
      BY <1>2 DEF PhaseInv, Programs, Handling, Inside
    <2>2. request[p] \in Nat /\ nrOfTables(p) \in Nat /\ request[p] <= 4 + nrOfTables(p)
      BY <2>1, GotFacts, TablesCount
    <2>3. QED
      BY <1>1, <2>1, <2>2 DEF Complete
  <1>4. \A r \in Procs : /\ pc'[r] = IF r = p THEN l ELSE pc[r]
                         /\ request'[r] = IF r = p THEN k ELSE request[r]
    BY <1>2 DEF TypeInv
  <1>5. /\ l \notin Inside /\ (last => l = "run" /\ l \notin Handling)
        /\ (~last => l = "lock" /\ l \in Handling)
    BY DEF Handling, Inside
  <1> HIDE DEF l, last
  <1>6. frame \in Frames /\ ~memoryblocks[frame].pinned /\ frame < allocated
    BY <1>2 DEF TypeInv, PagesInv, TransitInv, Inside
  <1>7. b \in Blocks
    <2>1. RequestAddr(k) \in Int
      <3>1. k \in {1, 2, 3, 4} \/ k \in 5..(4 + nrOfTables(p))
        BY <1>3
      <3>2. QED
        BY <1>3, <3>1, Requests, StackAddress
    <2>2. RequestPcb(p, k) \in Procs \cup {Kernel}
      BY DEF RequestPcb
    <2>3. QED
      BY <2>1, <2>2 DEF Blocks
  <1>8. b.pinned /\ b = [pcb |-> RequestPcb(p, k), vaddr |-> RequestAddr(k), pinned |-> TRUE]
    OBVIOUS
  <1>9. zero \in [Sectors -> Values]
    BY DEF Values
  <1> HIDE DEF b, zero
  <1>10. /\ memoryblocks'[frame] = b
         /\ \A f \in Frames : f # frame => memoryblocks'[f] = memoryblocks[f] /\ data'[f] = data[f]
         /\ memoryblocks' \in [Frames -> Blocks] /\ data' \in [Frames -> [Sectors -> Values]]
    BY <1>2, <1>6, <1>7, <1>9 DEF TypeInv
  <1>11. Enters(p, k)
    BY <1>1, <1>2, <1>3, <1>6, EntersAll
  <1>12. TypeInv'
    <2>1. tables' \in [Frames -> [Index -> Entries]] /\ page_directory' \in [Procs -> Frames]
      BY <1>11 DEF Enters
    <2>2. pc' \in [Procs -> {"new", "run", "exited"} \cup Handling] /\ request' \in [Procs -> Nat]
      BY <1>2, <1>3, <1>5 DEF TypeInv
    <2>3. QED
      BY <1>2, <1>10, <2>1, <2>2 DEF TypeInv
  <1>13. LockInv'
    <2>1. CASE last
      BY <1>2, <1>5, <2>1, ReleaseLock
    <2>2. CASE ~last
      BY <1>2, <1>5, <2>2, KeepLock
    <2>3. QED
      BY <2>1, <2>2
  <1>14. /\ \A x \in Programs : x # p => (Complete(x)' <=> Complete(x))
         /\ Complete(p)' <=> last
    BY <1>3, <1>4 DEF Complete, Programs
  <1>15. PhaseInv'
    <2>1. \A r \in Procs : r # p => page_directory'[r] = page_directory[r]
      BY <1>11 DEF Enters
    <2> SUFFICES ASSUME NEW r \in Procs
                 PROVE  /\ r \in Threads => /\ request'[r] = 0 /\ job[r] = "setup" /\ page_directory'[r] = 0
                                            /\ pc'[r] \in {"new", "lock", "run"}
                        /\ r \in Programs => request'[r] \in 0..(4 + nrOfTables(r))
                        /\ pc'[r] = "new" => request'[r] = 0 /\ job[r] = "setup"
                        /\ r \in Programs /\ pc'[r] \in Handling => (job[r] # "setup" <=> Complete(r)')
                        /\ r \in Programs /\ pc'[r] = "run" => Complete(r)'
                        /\ pc'[r] \in {"clear", "write", "take"} => job[r] # "bad"
                        /\ pc'[r] \in {"read", "map"} => job[r] = "fault"
                        /\ job[r] = "fault" => fault_addr[r] \in Image(r)
      BY <1>2 DEF PhaseInv
    <2>2. CASE r = p
      BY <1>2, <1>3, <1>4, <1>5, <1>14, <2>2 DEF Programs, Handling, Inside
    <2>3. CASE r # p
      BY <1>4, <1>14, <2>1, <2>3 DEF PhaseInv
    <2>4. QED
      BY <2>2, <2>3
  <1>16. /\ TablesInv'
         /\ \A q \in Programs : \A j \in 1..request[q] : Got(q, j)' = Got(q, j)
    <2>1. request'[p] = k /\ \A q \in Programs : q # p => request'[q] = request[q]
      BY <1>4 DEF Programs
    <2>2. QED
      BY <1>1, <1>2, <1>3, <1>6, <1>8, <1>10, <1>11, <2>1, EntersTablesInv
  <1>17. \A x \in Programs : x # p => \A j \in 5..request[x], h \in Index : Cell(x, j, h)' = Cell(x, j, h)
    <2>1. \A x \in Programs : \A j \in 5..request[x] : j \in 1..request[x]
      BY GotFacts
    <2>2. QED
      BY <1>11, <1>16, <2>1 DEF Cell, Enters
  <1>18. \A j \in 5..k, h \in Index : "P" \notin Cell(p, j, h)'.flags
    <2> SUFFICES ASSUME NEW j \in 5..k, NEW h \in Index PROVE "P" \notin Cell(p, j, h)'.flags
      OBVIOUS
    <2>1. CASE j = k
      BY <1>3, <1>11, <2>1 DEF Enters, Cell
    <2>2. CASE j # k
      <3>1. j \in 1..request[p] /\ j \in 5..request[p] /\ j \in 5..(k - 1)
        BY <1>1, <1>3, <2>2
      <3>2. Cell(p, j, h)' = Cell(p, j, h)
        BY <1>11, <1>16, <3>1 DEF Enters, Cell
      <3>3. "P" \notin Cell(p, j, h).flags
        BY <1>3, <3>1 DEF PagesInv, ImageInv
      <3>4. QED
        BY <3>2, <3>3
    <2>3. QED
      BY <2>1, <2>2
  <1>19. \A x \in Programs : x # p /\ Complete(x) => \A a \in Image(x) :
           EntryOf(x, a)' = EntryOf(x, a) /\ (IsPresent(x, a)' <=> IsPresent(x, a))
    BY <1>17, ImageCell DEF Complete, IsPresent
  <1>20. last => \A a \in Image(p) : ~IsPresent(p, a)'
    BY <1>3, <1>18, ImageCell DEF IsPresent
  <1>21. /\ \A r \in Procs : pc[r] \in Inside => r = p
         /\ \A r \in Procs : pc'[r] \notin Inside
    BY <1>2, <1>4, <1>5, AloneInside
  <1>22. Transit = {frame} /\ Dropped = {} /\ \A x, a : ~BeingWritten(x, a)
    BY <1>2, <1>21, Lone
  <1>23. Transit' = {} /\ Dropped' = {} /\ \A x, a : ~BeingWritten(x, a)'
    BY <1>21 DEF Transit, Dropped, BeingWritten, Inside
  <1>24. ImageInv'
    <2> SUFFICES ASSUME NEW x \in Programs, NEW j \in 5..request'[x], NEW h \in Index,
                        "P" \in Cell(x, j, h)'.flags
                 PROVE  LET f == FrameOf(Cell(x, j, h)')
                        IN  /\ f \in 0..(allocated - 1) /\ ~memoryblocks'[f].pinned
                            /\ \E a \in Image(x) :
                                 /\ memoryblocks'[f].pcb = x /\ memoryblocks'[f].vaddr = a
                                 /\ Complete(x)' /\ TableNo(a) = j /\ get_table_index(a) = h
      BY <1>2, <1>23 DEF ImageInv
    <2>1. x # p /\ request'[x] = request[x]
      BY <1>4, <1>18 DEF Programs
    <2>2. Cell(x, j, h)' = Cell(x, j, h)
      BY <1>17, <2>1
    <2>3. LET f == FrameOf(Cell(x, j, h))
          IN  /\ f \in 0..(allocated - 1) /\ f \notin Transit /\ ~memoryblocks[f].pinned
              /\ \E a \in Image(x) :
                   /\ memoryblocks[f].pcb = x /\ memoryblocks[f].vaddr = a
                   /\ Complete(x) /\ TableNo(a) = j /\ get_table_index(a) = h
      BY <2>1, <2>2 DEF PagesInv, ImageInv
    <2>4. FrameOf(Cell(x, j, h)) \in Frames
      BY <2>3, KernelFrameZero DEF TypeInv, Frames
    <2>5. memoryblocks'[FrameOf(Cell(x, j, h))] = memoryblocks[FrameOf(Cell(x, j, h))]
      BY <1>10, <1>22, <2>3, <2>4
    <2>6. QED
      BY <1>14, <2>1, <2>2, <2>3, <2>5
  <1>25. PageInv'
    <2> SUFFICES ASSUME NEW i \in Frames, i < allocated, ~memoryblocks'[i].pinned
                 PROVE  \E x \in Programs : \E c \in Image(x) :
                          IsPage(i, x, c)' /\ IsPresent(x, c)' /\ FrameOf(EntryOf(x, c)') = i
      BY <1>2 DEF PageInv
    <2>1. i # frame /\ memoryblocks'[i] = memoryblocks[i]
      BY <1>8, <1>10
    <2>2. PICK x \in Programs : \E c \in Image(x) :
            IsPage(i, x, c) /\ IsPresent(x, c) /\ FrameOf(EntryOf(x, c)) = i
      BY <1>22, <2>1 DEF PagesInv, PageInv
    <2>3. PICK c \in Image(x) : IsPage(i, x, c) /\ IsPresent(x, c) /\ FrameOf(EntryOf(x, c)) = i
      BY <2>2
    <2>4. x # p /\ Complete(x)
      BY <1>3, <2>3 DEF IsPage
    <2>5. QED
      BY <1>14, <1>19, <2>1, <2>3, <2>4 DEF IsPage
  <1>26. TransitInv'
    <2>1. \A x \in Programs : pc'[x] \in Handling /\ job'[x] = "fault" =>
            x # p /\ pc[x] \in Handling /\ job[x] = "fault" /\ Complete(x)
      BY <1>2, <1>4 DEF PhaseInv, Programs
    <2>2. \A x \in Programs : \A a \in Image(x) :
            pc'[x] \in Handling /\ job'[x] = "fault" /\ fault_addr'[x] = a => ~IsPresent(x, a)'
      BY <1>2, <1>19, <2>1 DEF PagesInv, TransitInv
    <2>3. QED
      BY <1>21, <2>2 DEF TransitInv, Inside
  <1>27. DataInv'
    <2> SUFFICES ASSUME NEW x \in Programs, NEW a \in Image(x), <<x, a>> \notin lost
                 PROVE  IF Complete(x)' /\ IsPresent(x, a)'
                        THEN /\ written[x][a] = data'[FrameOf(EntryOf(x, a)')][a % PAGE]
                             /\ "D" \notin EntryOf(x, a)'.flags =>
                                  written[x][a] = disk[SectorOf(x, a)]
                        ELSE written[x][a] = disk[SectorOf(x, a)]
      BY <1>2, <1>23 DEF DataInv
    <2>1. CASE x = p
      <3>1. ~(Complete(x)' /\ IsPresent(x, a)')
        BY <1>14, <1>20, <2>1
      <3>2. written[x][a] = disk[SectorOf(x, a)]
        BY <1>3, <1>22, <2>1 DEF DataInv
      <3>3. QED
        BY <3>1, <3>2
    <2>2. CASE x # p
      <3>1. Complete(x)' <=> Complete(x)
        BY <1>14, <2>2
      <3>2. CASE Complete(x) /\ IsPresent(x, a)
        <4>1. data'[FrameOf(EntryOf(x, a))] = data[FrameOf(EntryOf(x, a))]
          BY <1>10, <1>22, <3>2, PresentFacts DEF PagesInv
        <4>2. EntryOf(x, a)' = EntryOf(x, a) /\ IsPresent(x, a)'
          BY <1>19, <2>2, <3>2
        <4>3. QED
          BY <3>1, <3>2, <4>1, <4>2 DEF DataInv
      <3>3. CASE ~(Complete(x) /\ IsPresent(x, a))
        <4>1. ~(Complete(x)' /\ IsPresent(x, a)')
          BY <1>19, <2>2, <3>1, <3>3
        <4>2. QED
          BY <1>22, <3>3, <4>1 DEF DataInv
      <3>4. QED
        BY <3>2, <3>3
    <2>3. QED
      BY <2>1, <2>2
  <1>28. ReadInv'
    BY <1>21 DEF ReadInv, Inside
  <1>29. QED
    BY <1>12, <1>13, <1>15, <1>16, <1>24, <1>25, <1>26, <1>27, <1>28 DEF PagesInv

\* Every step keeps the invariant.
LEMMA NextIInv ==
  ASSUME BootedSound, IInv, [Next]_vars
  PROVE  IInv'
  <1>1. CASE UNCHANGED vars
    <2>1. UNCHANGED <<memory_lock, allocated, memoryblocks, data, tables, page_directory, disk, pc,
                      job, fault_addr, request, frame, dirty, written, lost>>
      BY <1>1 DEF vars
    <2>2. ControlInv'
      BY <2>1 DEF IInv, ControlInv, TypeInv, LockInv, PhaseInv, Complete
    <2>3. \A p \in Programs : \A a \in Image(p) :
            pc'[p] \in Handling /\ job'[p] = "fault" /\ fault_addr'[p] = a => ~IsPresent(p, a)
      BY <2>1 DEF IInv, PagesInv, TransitInv
    <2>4. TablesInv' /\ PagesInv' /\ DataInv' /\ ReadInv'
      BY <2>1, <2>3, QuietStep
    <2>5. QED
      BY <2>2, <2>4 DEF IInv
  <1>2. ASSUME NEW p \in Procs, Create(p) PROVE IInv'
    BY <1>2, CreateIInv
  <1>3. ASSUME NEW p \in Procs, Handle(p) PROVE IInv'
    <2>1. CASE Denied(p)
      <3>1. Owns(p, "lock") /\ ReleaseAndExit(p) /\ p \in Programs
        BY <2>1 DEF Denied, IInv, ControlInv, PhaseInv, Programs
      <3>2. QED
        BY <3>1, ReleaseAndExitIInv
    <2>2. CASE NoneFree(p)
      <3>1. Owns(p, "lock") /\ ReleaseAndExit(p) /\ p \in Programs
        BY <2>2 DEF NoneFree, NeedsFrame, IInv, ControlInv, PhaseInv, Programs
      <3>2. QED
        BY <3>1, ReleaseAndExitIInv
    <2>3. CASE ShareKernel(p)
      BY <2>3, ShareKernelIInv
    <2>4. CASE GetFree(p)
      BY <2>4, GetFreeIInv
    <2>5. CASE Choose(p)
      BY <2>5, ChooseIInv
    <2>6. CASE Clear(p)
      BY <2>6, ClearIInv
    <2>7. CASE WriteBack(p)
      BY <2>7, WriteBackIInv
    <2>8. CASE SetUp(p)
      BY <2>8, SetUpIInv
    <2>9. CASE Take(p)
      BY <2>9, TakeIInv
    <2>10. CASE ReadIn(p)
      BY <2>10, ReadInIInv
    <2>11. CASE Map(p)
      BY <2>11, MapIInv
    <2>12. QED
      BY <1>3, <2>1, <2>2, <2>3, <2>4, <2>5, <2>6, <2>7, <2>8, <2>9, <2>10, <2>11 DEF Handle
  <1>4. ASSUME NEW p \in Programs, BadAccess(p) PROVE IInv'
    BY <1>4, BadAccessIInv
  <1>5. ASSUME NEW p \in Programs, NEW a \in Image(p), Fault(p, a) PROVE IInv'
    BY <1>5, FaultIInv
  <1>6. ASSUME NEW p \in Programs, NEW a \in data_of[p], NEW x \in Values, Write(p, a, x) PROVE IInv'
    <2>1. a \in Image(p)
      BY PagingAssumption
    <2>2. QED
      BY <1>6, <2>1, WriteIInv
  <1>7. QED
    BY <1>1, <1>2, <1>3, <1>4, <1>5, <1>6 DEF Next

\* The invariant holds always, if the kernel has been set up as it should.
LEMMA Invariance == BootedSound => (Spec => []IInv)
  <1> SUFFICES ASSUME BootedSound PROVE Spec => []IInv
    OBVIOUS
  <1>1. Init => IInv
    BY InitIInv
  <1>2. IInv /\ [Next]_vars => IInv'
    BY NextIInv
  <1>3. QED
    BY <1>1, <1>2, PTL DEF Spec

-----------------------------------------------------------------------------
(* What follows *)

\* No step takes a pinned frame away: get_memory() gives a frame a new owner
\* only at "take", and what it has chosen is not pinned even if a directory, a
\* table or a stack was set up since memory became full.
THEOREM PinnedFramesStay == BootedSound => (Spec => PinnedStay)
  <1> SUFFICES ASSUME BootedSound PROVE Spec => PinnedStay
    OBVIOUS
  <1>1. ASSUME IInv, [Next]_vars
        PROVE  \A i \in Frames : memoryblocks[i].pinned => memoryblocks'[i] = memoryblocks[i]
    <2>1. CASE UNCHANGED memoryblocks
      BY <2>1
    <2>2. ASSUME NEW p \in Procs, NEW b, Owns(p, "take"),
                 memoryblocks' = [memoryblocks EXCEPT ![frame] = b]
          PROVE  \A i \in Frames : memoryblocks[i].pinned => memoryblocks'[i] = memoryblocks[i]
      <3>1. ~memoryblocks[frame].pinned /\ memoryblocks \in [Frames -> Blocks]
        BY <1>1, <2>2 DEF Owns, Inside, IInv, ControlInv, TypeInv, PagesInv, TransitInv
      <3>2. QED
        BY <2>2, <3>1
    <2>3. ASSUME NEW p \in Procs, Handle(p)
          PROVE  \A i \in Frames : memoryblocks[i].pinned => memoryblocks'[i] = memoryblocks[i]
      <3>1. CASE SetUp(p)
        <4>1. PICK b : Owns(p, "take") /\ memoryblocks' = [memoryblocks EXCEPT ![frame] = b]
          BY <3>1 DEF SetUp, Granted
        <4>2. QED
          BY <2>2, <4>1
      <3>2. CASE Take(p)
        <4>1. PICK b : Owns(p, "take") /\ memoryblocks' = [memoryblocks EXCEPT ![frame] = b]
          BY <3>2 DEF Take, Granted
        <4>2. QED
          BY <2>2, <4>1
      <3>3. CASE ~SetUp(p) /\ ~Take(p)
        <4>1. UNCHANGED memoryblocks
          BY <2>3, <3>3 DEF Handle, Denied, ReleaseAndExit, ShareKernel, GetFree, NoneFree, Choose,
                            Clear, WriteBack, ReadIn, Map
        <4>2. QED
          BY <2>1, <4>1
      <3>4. QED
        BY <3>1, <3>2, <3>3
    <2>4. CASE ~(\E p \in Procs : Handle(p))
      <3>1. UNCHANGED memoryblocks
        BY <1>1, <2>4 DEF Next, vars, Create, BadAccess, Fault, Write
      <3>2. QED
        BY <2>1, <3>1
    <2>5. QED
      BY <2>3, <2>4
  <1>2. Spec => []IInv
    BY Invariance
  <1>3. QED
    BY <1>1, <1>2, PTL DEF Spec, PinnedStay

\* What a process last wrote to a sector of its image is in the frame of its
\* page, or on the way to the drive, or in its own place there, unless it wrote
\* between the reading of the dirty bit of a clean page and the clearing of its
\* entry in get_memory().
THEOREM WritesKept == BootedSound => (Spec => []NoLostWrite)
  <1> SUFFICES ASSUME BootedSound PROVE Spec => []NoLostWrite
    OBVIOUS
  <1>1. IInv => NoLostWrite
    <2> SUFFICES ASSUME IInv PROVE NoLostWrite
      OBVIOUS
    <2>1. \A p \in Programs : p \in Live <=> Complete(p)
      <3>1. \A p \in Programs : p \in Procs /\ p \notin Threads
        BY DEF Programs
      <3>2. \A p \in Programs : pc[p] = "new" => ~Complete(p)
        BY <3>1, TablesCount DEF IInv, ControlInv, PhaseInv, Complete
      <3>3. QED
        BY <3>1, <3>2 DEF Live, Complete
    <2>2. DataInv
      BY DEF IInv
    <2>3. QED
      BY <2>1, <2>2 DEF DataInv, NoLostWrite, SectorOf
  <1>2. Spec => []IInv
    BY Invariance
  <1>3. QED
    BY <1>1, <1>2, PTL

\* Page number, region and index
LEMMA PageOf ==
  ASSUME NEW d \in Index, NEW i \in Index, NEW a \in Int
  PROVE  (a \div PAGE = d * PAGE_N_ENTRIES + i) <=> get_directory_index(a) = d /\ get_table_index(a) = i
  <1> DEFINE n == PAGE_N_ENTRIES
             q == get_directory_index(a)
             r == get_table_index(a)
  <1>1. /\ n \in Nat \ {0} /\ q \in Int /\ r \in 0..(n - 1) /\ a \div PAGE = n * q + r
        /\ d \in Int /\ i \in 0..(n - 1)
    <2>1. q \in Int /\ r \in Index /\ a \div PAGE = PAGE_N_ENTRIES * q + r
      BY Address
    <2> HIDE DEF q, r
    <2>2. QED
      BY <2>1, PagingAssumption DEF Index
  <1> HIDE DEF n, q, r
  <1>2. d * n = n * d
    BY <1>1
  <1>3. n * q + r = n * d + i => q = d /\ r = i
    BY <1>1, DividesOnce
  <1>4. (a \div PAGE = d * n + i) <=> q = d /\ r = i
    BY <1>1, <1>2, <1>3
  <1>5. QED
    BY <1>4 DEF n, q, r

\* A page of the kernel, the screen or a device is in one of their regions.
LEMMA InRegion ==
  ASSUME NEW d \in Index, NEW i \in Index
  PROVE  /\ d * PAGE_N_ENTRIES + i \in KernelPages => d \in KernelRegions
         /\ d * PAGE_N_ENTRIES + i \in Shared => d \in KernelRegions \cup DeviceRegions
  <1> DEFINE v == d * PAGE_N_ENTRIES + i
  <1>1. v \in Int /\ PAGE \in Nat \ {0}
    BY PagingAssumption DEF Index, PAGE
  <1>2. (v * PAGE) \div PAGE = v /\ v * PAGE \in Int
    <2> HIDE DEF v
    <2>1. (PAGE * v + 0) \div PAGE = v
      BY <1>1, Divided
    <2>2. PAGE * v + 0 = v * PAGE
      BY <1>1
    <2>3. v * PAGE \in Int
      BY <1>1
    <2>4. QED
      BY <2>1, <2>2, <2>3
  <1>3. get_directory_index(v * PAGE) = d
    BY <1>2, PageOf
  <1>4. v \in KernelPages => d \in KernelRegions
    <2> HIDE DEF v
    <2>1. QED
      BY <1>3 DEF KernelRegions
  <1>5. ASSUME v \in Shared, v # SCREEN_ADDR PROVE d \in DeviceRegions
    <2>1. PICK k \in DOMAIN Devices : \E a \in Devices[k].address..(Devices[k].address + Devices[k].size - 1) :
            v = a \div PAGE
      BY <1>5 DEF Shared
    <2>2. PICK a \in Devices[k].address..(Devices[k].address + Devices[k].size - 1) : v = a \div PAGE
      BY <2>1
    <2>3. a \in Int
      BY <2>2, PagingAssumption
    <2>4. get_directory_index(a) = d
      BY <2>2, <2>3, PageOf
    <2>5. QED
      BY <2>1, <2>2, <2>4 DEF DeviceRegions
  <1>6. SCREEN_ADDR \in KernelPages
    BY PagingAssumption
  <1>7. QED
    BY <1>4, <1>5, <1>6

\* In the regions of the kernel and of devices, a directory that has what the
\* kernel's has is closed but for the screen and the devices.
LEMMA KernelSpace ==
  ASSUME BootedSound, TablesInv, NEW d \in SoundRegions, NEW i \in Index, NEW de,
         de = Booted.tables[0][d]
  PROVE  LET te == (IF "P" \in de.flags THEN tables[FrameOf(de)] ELSE EmptyTable)[i]
         IN  KernelEntry(d, i, de, te)
  <1>1. d \in Index
    BY DEF SoundRegions
  <1>2. "P" \in de.flags => FrameOf(de) \in KernelFrames /\ tables[FrameOf(de)] = Booted.tables[FrameOf(de)]
    BY <1>1 DEF BootedSound, TablesInv, KernelInv
  <1>3. KernelEntry(d, i, de, (IF "P" \in de.flags THEN Booted.tables[FrameOf(de)] ELSE EmptyTable)[i])
    BY <1>1 DEF BootedSound
  <1>4. CASE "P" \in de.flags
    BY <1>2, <1>3, <1>4
  <1>5. CASE "P" \notin de.flags
    BY <1>3, <1>5
  <1>6. QED
    BY <1>4, <1>5

\* The pages of the two addresses process_create() maps a stack at
StackPages == {(PROCESS_STACK \div PAGE) - j : j \in {0, 1}}

\* An entry at page i of region d that reaches a page of p's own, pinned when it
\* is one of the stack
OwnPage(p, d, i, entry) ==
  LET b == memoryblocks[FrameOf(entry)]
      v == d * PAGE_N_ENTRIES + i
  IN  /\ FrameOf(entry) \in Frames
      /\ b.pcb = p /\ b.vaddr \div PAGE = v
      /\ b.pinned = (v \in StackPages)

\* What is open in the stack table: the two stack pages of the process
LEMMA StackSpace ==
  ASSUME BootedSound, IInv, NEW p \in Programs, Complete(p), NEW i \in Index,
         NEW d, d = get_directory_index(PROCESS_STACK), "P" \in tables[Got(p, 2)][i].flags
  PROVE  OwnPage(p, d, i, tables[Got(p, 2)][i])
  <1> USE DEF IInv, ControlInv
  <1> DEFINE v == d * PAGE_N_ENTRIES + i
  <1>1. request[p] \in Nat /\ request[p] >= 5 /\ d \in Index
    BY TablesCount, Requests DEF Complete
  <1>2. {3, 4} \cap 1..request[p] = {3, 4}
    BY <1>1
  <1>3. NoEntry.flags = {}
    BY KernelFrameZero
  <1>4. i \in {get_table_index(RequestAddr(k)) : k \in {3, 4}}
    <2>1. SUFFICES ASSUME i \notin {get_table_index(RequestAddr(k)) : k \in {3, 4} \cap 1..request[p]}
                   PROVE  FALSE
      BY <1>2
    <2>2. request[p] >= 2
      BY <1>1
    <2>3. tables[Got(p, 2)][i] = NoEntry
      BY <2>1, <2>2 DEF TablesInv, StackInv
    <2>4. QED
      BY <1>3, <2>3
  <1>5. PICK k \in {3, 4} : i = get_table_index(RequestAddr(k))
    BY <1>4
  <1>6. k \in 1..request[p] /\ k \in {1, 3, 4}
    BY <1>1, <1>5
  <1>7. FrameOf(tables[Got(p, 2)][i]) = Got(p, k)
    <2>1. Got(p, 2) = FrameOf(tables[page_directory[p]][get_directory_index(PROCESS_STACK)])
      BY <1>1, GotFacts
    <2>2. k # 1 /\ k \in {3, 4}
      BY <1>5
    <2>3. QED
      BY <1>5, <2>1, <2>2 DEF Got
  <1>8. /\ Got(p, k) \in Frames /\ memoryblocks[Got(p, k)].pcb = p
        /\ memoryblocks[Got(p, k)].vaddr = RequestAddr(k)
    BY <1>6, GotFacts DEF RequestPcb
  <1>9. memoryblocks[Got(p, k)].pinned = TRUE
    <2>1. memoryblocks[Got(p, k)] = [pcb |-> RequestPcb(p, k), vaddr |-> RequestAddr(k), pinned |-> TRUE]
      BY <1>6 DEF TablesInv, GotInv
    <2>2. QED
      BY <2>1
  <1>10. RequestAddr(k) \in Int /\ get_directory_index(RequestAddr(k)) = d
    BY <1>5, StackAddress, Requests
  <1>11. RequestAddr(k) \div PAGE = v
    BY <1>1, <1>5, <1>10, PageOf
  <1> HIDE DEF v
  <1>12. v \in StackPages
    <2>1. PROCESS_STACK \div PAGE \in Int /\ (PROCESS_STACK - PAGE) \div PAGE = (PROCESS_STACK \div PAGE) - 1
      BY StackAddress, Address
    <2>2. RequestAddr(3) = PROCESS_STACK /\ RequestAddr(4) = PROCESS_STACK - PAGE
      BY Requests
    <2>3. v = (PROCESS_STACK \div PAGE) - 0 \/ v = (PROCESS_STACK \div PAGE) - 1
      BY <1>5, <1>11, <2>1, <2>2
    <2>4. QED
      BY <2>3 DEF StackPages
  <1>13. (v \in StackPages) = TRUE
    BY <1>12
  <1>14. QED
    <2>1. /\ FrameOf(tables[Got(p, 2)][i]) \in Frames
          /\ memoryblocks[FrameOf(tables[Got(p, 2)][i])].pcb = p
          /\ memoryblocks[FrameOf(tables[Got(p, 2)][i])].vaddr \div PAGE = v
          /\ memoryblocks[FrameOf(tables[Got(p, 2)][i])].pinned = (v \in StackPages)
      BY <1>7, <1>8, <1>9, <1>11, <1>13
    <2>2. QED
      BY <2>1 DEF v, OwnPage

\* What is open in the table of an image: its pages that are present
LEMMA ImageSpace ==
  ASSUME BootedSound, IInv, NEW p \in Programs, Complete(p), NEW k \in 5..(4 + nrOfTables(p)),
         NEW i \in Index, NEW d, d = get_directory_index(RequestAddr(k)),
         "P" \in tables[Got(p, k)][i].flags
  PROVE  OwnPage(p, d, i, tables[Got(p, k)][i])
  <1> USE DEF IInv, ControlInv
  <1> DEFINE v == d * PAGE_N_ENTRIES + i
             f == FrameOf(tables[Got(p, k)][i])
  <1>1. k \in 5..request[p] /\ tables[Got(p, k)][i] = Cell(p, k, i)
    BY DEF Complete, Cell
  <1>2. /\ d \in Index /\ d \in ImageRegions(p) /\ d = FirstRegion + (k - 5)
        /\ RequestAddr(k) \in Int
    BY Requests
  <1>3. /\ f \in 0..(allocated - 1) /\ ~memoryblocks[f].pinned
        /\ \E a \in Image(p) : /\ memoryblocks[f].pcb = p /\ memoryblocks[f].vaddr = a
                               /\ TableNo(a) = k /\ get_table_index(a) = i
    BY <1>1 DEF PagesInv, ImageInv
  <1> HIDE DEF f
  <1>4. PICK a \in Image(p) : /\ memoryblocks[f].pcb = p /\ memoryblocks[f].vaddr = a
                              /\ TableNo(a) = k /\ get_table_index(a) = i
    BY <1>3
  <1>5. a \in Int /\ get_directory_index(a) = d
    BY <1>2, <1>4, ImageAddress
  <1>6. a \div PAGE = v
    BY <1>2, <1>4, <1>5, PageOf
  <1>7. f \in Frames
    BY <1>3, KernelFrameZero DEF TypeInv, Frames
  <1>8. memoryblocks[f].pinned = FALSE
    <2>1. memoryblocks[f].pinned \in BOOLEAN
      BY <1>7 DEF TypeInv, Blocks
    <2>2. QED
      BY <1>3, <2>1
  <1>9. v \notin StackPages
    <2>1. ASSUME NEW s \in Int, get_directory_index(s) \in StackRegions PROVE s \div PAGE # v
      <3>1. get_directory_index(s) # d
        BY <1>2, <2>1, PagingAssumption
      <3>2. QED
        BY <1>2, <3>1, PageOf
    <2> HIDE DEF v
    <2>2. /\ PROCESS_STACK \in Int /\ PROCESS_STACK - PAGE \in Int
          /\ get_directory_index(PROCESS_STACK) \in StackRegions
          /\ get_directory_index(PROCESS_STACK - PAGE) \in StackRegions
      BY StackAddress, Requests
    <2>3. PROCESS_STACK \div PAGE # v /\ (PROCESS_STACK - PAGE) \div PAGE # v
      BY <2>1, <2>2
    <2>4. PROCESS_STACK \div PAGE \in Int /\ (PROCESS_STACK - PAGE) \div PAGE = (PROCESS_STACK \div PAGE) - 1
      BY StackAddress, Address
    <2>5. ASSUME NEW j \in {0, 1} PROVE v # (PROCESS_STACK \div PAGE) - j
      BY <2>3, <2>4
    <2>6. QED
      BY <2>5 DEF StackPages
  <1>10. (v \in StackPages) = FALSE
    BY <1>9
  <1>11. QED
    <2> HIDE DEF v
    <2>1. /\ memoryblocks[f].pcb = p /\ memoryblocks[f].vaddr \div PAGE = v
          /\ memoryblocks[f].pinned = (v \in StackPages)
      BY <1>4, <1>6, <1>8, <1>10
    <2>2. QED
      BY <1>7, <2>1 DEF f, v, OwnPage

\* Each address space is its own: a process whose tables are complete reaches
\* through them its own stack and image pages, the screen and the devices, and
\* nothing else, whatever frames were evicted and given away.
THEOREM SpacesApart == BootedSound => (Spec => []AddressSpaces)
  <1> SUFFICES ASSUME BootedSound PROVE Spec => []AddressSpaces
    OBVIOUS
  <1>1. ASSUME IInv PROVE AddressSpaces
    <2> USE DEF IInv, ControlInv
    <2> SUFFICES ASSUME NEW p \in Live, NEW d \in SoundRegions, NEW i \in Index
                 PROVE  LET de == tables[page_directory[p]][d]
                            table == IF "P" \in de.flags THEN tables[FrameOf(de)] ELSE EmptyTable
                            v == d * PAGE_N_ENTRIES + i
                            open == {"P", "US"} \subseteq de.flags \cap table[i].flags
                            b == memoryblocks[FrameOf(table[i])]
                        IN  /\ v \in KernelPages => table[i].base = v /\ "P" \in table[i].flags
                            /\ v \in Shared => open /\ table[i].base = v
                            /\ open /\ v \notin Shared =>
                                 /\ FrameOf(table[i]) \in Frames
                                 /\ b.pcb = p /\ b.vaddr \div PAGE = v
                                 /\ b.pinned = (v \in StackPages)
      BY <1>1 DEF AddressSpaces, StackPages
    <2> DEFINE de == tables[page_directory[p]][d]
               table == IF "P" \in de.flags THEN tables[FrameOf(de)] ELSE EmptyTable
               v == d * PAGE_N_ENTRIES + i
               b == memoryblocks[FrameOf(table[i])]
    <2>1. p \in Procs /\ (p \notin Threads => p \in Programs /\ Complete(p)) /\ d \in Index
      BY DEF Live, Programs, Complete, SoundRegions
    <2>2. CASE de = Booted.tables[0][d]
      <3>1. KernelEntry(d, i, de, table[i])
        BY <1>1, <2>2, KernelSpace
      <3>2. QED
        BY <3>1 DEF KernelEntry
    <2>3. CASE p \in Threads
      <3>1. page_directory[p] = 0 /\ tables[0] = Booted.tables[0]
        BY <1>1, <2>1, <2>3, KernelFrameZero DEF PhaseInv, TablesInv, KernelInv
      <3>2. QED
        BY <2>2, <3>1
    <2>4. ASSUME p \in Programs, d \notin KernelRegions, d \notin DeviceRegions
          PROVE  v \notin KernelPages /\ v \notin Shared
      BY <2>1, <2>4, InRegion
    <2>5. ASSUME p \in Programs, Complete(p), d = get_directory_index(PROCESS_STACK)
          PROVE  /\ v \notin KernelPages /\ v \notin Shared
                 /\ "P" \in table[i].flags => OwnPage(p, d, i, table[i])
      <3>1. d \in StackRegions /\ d \notin KernelRegions /\ d \notin DeviceRegions
        BY <2>5, Requests, PagingAssumption
      <3>2. request[p] >= 1 /\ request[p] >= 2 /\ 2 \in TableRequests(request[p])
            /\ RequestAddr(2) = PROCESS_STACK
        BY <2>5, TablesCount, Requests DEF Complete, TableRequests
      <3>3. "P" \in de.flags /\ FrameOf(de) = Got(p, 2)
        BY <1>1, <2>5, <3>2, GotFacts DEF TablesInv, DirectoryInv
      <3>4. table = tables[Got(p, 2)]
        BY <3>3
      <3> HIDE DEF de, table
      <3>5. QED
        <4>1. v \notin KernelPages /\ v \notin Shared
          BY <2>4, <2>5, <3>1
        <4>2. ASSUME "P" \in table[i].flags PROVE OwnPage(p, d, i, table[i])
          BY <1>1, <2>5, <3>4, <4>2, StackSpace
        <4>3. QED
          BY <4>1, <4>2
    <2>6. ASSUME p \in Programs, Complete(p), NEW k \in 5..(4 + nrOfTables(p)),
                 d = get_directory_index(RequestAddr(k))
          PROVE  /\ v \notin KernelPages /\ v \notin Shared
                 /\ "P" \in table[i].flags => OwnPage(p, d, i, table[i])
      <3>1. d \in ImageRegions(p) /\ d \notin KernelRegions /\ d \notin DeviceRegions
        BY <2>6, Requests, PagingAssumption
      <3>2. request[p] >= 1 /\ k \in TableRequests(request[p]) /\ k # 1 /\ k \notin {3, 4}
        BY <2>6, TablesCount DEF Complete, TableRequests
      <3>3. "P" \in de.flags /\ FrameOf(de) = Got(p, k)
        BY <1>1, <2>6, <3>2 DEF TablesInv, DirectoryInv, Got
      <3>4. table = tables[Got(p, k)]
        BY <3>3
      <3> HIDE DEF de, table
      <3>5. QED
        <4>1. v \notin KernelPages /\ v \notin Shared
          BY <2>4, <2>6, <3>1
        <4>2. ASSUME "P" \in table[i].flags PROVE OwnPage(p, d, i, table[i])
          BY <1>1, <2>6, <3>4, <4>2, ImageSpace
        <4>3. QED
          BY <4>1, <4>2
    <2>7. CASE p \in Programs /\ Complete(p)
      <3>1. CASE d \in {get_directory_index(RequestAddr(k)) : k \in TableRequests(request[p])}
        <4>1. PICK k \in TableRequests(request[p]) : d = get_directory_index(RequestAddr(k))
          BY <3>1
        <4>2. k = 2 \/ k \in 5..(4 + nrOfTables(p))
          BY <2>7, TablesCount DEF TableRequests, Complete
        <4>3. RequestAddr(2) = PROCESS_STACK
          BY <2>7, Requests
        <4> HIDE DEF de, table, v, b
        <4>4. /\ v \notin KernelPages /\ v \notin Shared
              /\ "P" \in table[i].flags => OwnPage(p, d, i, table[i])
          BY <2>5, <2>6, <2>7, <4>1, <4>2, <4>3
        <4>5. QED
          BY <4>4 DEF de, table, v, b, OwnPage
      <3>2. CASE d \notin {get_directory_index(RequestAddr(k)) : k \in TableRequests(request[p])}
        <4>1. request[p] >= 1
          BY <2>7, TablesCount DEF Complete
        <4>2. de = Booted.tables[0][d]
          BY <1>1, <2>1, <2>7, <3>2, <4>1 DEF TablesInv, DirectoryInv
        <4>3. QED
          BY <2>2, <4>2
      <3>3. QED
        BY <3>1, <3>2
    <2>8. QED
      BY <2>1, <2>3, <2>7
  <1>2. Spec => []IInv
    BY Invariance
  <1>3. QED
    BY <1>1, <1>2, PTL
=============================================================================
