------------------------------- MODULE Paging -------------------------------
(***************************************************************************)
(* Demand paging of paging/memory.c.  init_memory() and identity_map()     *)
(* build the kernel's page directory, setup_page_table() the directory,    *)
(* tables and stack of a new process; processes run, touch the pages of    *)
(* their images and fault.  All frames come from get_memory(), which       *)
(* evicts a random unpinned frame when there is no free one and writes it  *)
(* back to its image if it is dirty.  Interrupts are on in all of this:    *)
(* only memory_lock keeps the handlers apart, and running processes need   *)
(* no lock to write to their pages.                                        *)
(*                                                                         *)
(* Addresses count sectors: SECTORS_PER_PAGE of them are a page, and a     *)
(* page of virtual memory is entry get_table_index() of the table in entry *)
(* get_directory_index() of the directory.  An entry holds the number of a *)
(* physical page and flags; PE_RW goes with PE_P or PE_US and is left out. *)
(* A frame has contents as page (data) and as table or directory (tables). *)
(* memory_lock is the list of its owner, first, and the processes queued   *)
(* for it: what module AbstractMonitor promises of a lock.                 *)
(*                                                                         *)
(* pc[p]: "new" not yet created, "run", "exited", and inside the handler,  *)
(* "lock" about to need a frame, "clear", "write", "take", "read", "map".  *)
(***************************************************************************)
EXTENDS Integers, Sequences, SequencesExt, FiniteSets

CONSTANTS Loads,                  \* the processes, in the order they are created
          Threads,                \* those that are is_thread
          PAGE_N_ENTRIES, SECTORS_PER_PAGE, N_KERNEL_PTS,
          PAGEABLE_PAGES,         \* frames
          MEM_START, SCREEN_ADDR, \* pages of physical memory
          PROCESS_ENTRY, PROCESS_STACK,
          Devices,                \* what the USB drivers identity_map(): a
                                  \* sequence of records of address and size
          swap_loc, swap_size,    \* where the image of each process is
          data_of,                \* the part of its image it writes to
          Kernel                  \* the pcb `kernel'

PAGE == SECTORS_PER_PAGE          \* PAGE_SIZE

get_directory_index(vaddr) == (vaddr \div PAGE) \div PAGE_N_ENTRIES

get_table_index(vaddr) == (vaddr \div PAGE) % PAGE_N_ENTRIES

Procs == {Loads[k] : k \in DOMAIN Loads}

Programs == Procs \ Threads

Index == 0..(PAGE_N_ENTRIES - 1)

Frames == 0..(PAGEABLE_PAGES - 1)

\* The physical pages the kernel's tables map one-to-one
KernelPages == 0..(N_KERNEL_PTS * PAGE_N_ENTRIES - 1)

Image(p) == PROCESS_ENTRY..(PROCESS_ENTRY + swap_size[p] - 1)

nrOfPages(p) == (swap_size[p] + SECTORS_PER_PAGE - 1) \div SECTORS_PER_PAGE

nrOfTables(p) == (nrOfPages(p) \div PAGE_N_ENTRIES) + 1

\* The regions of 4 megabytes, one for each entry of a directory, in which the
\* kernel, the image of p and the tables made for it, the two stack pages and
\* the devices are
KernelRegions == {get_directory_index(k * PAGE) : k \in KernelPages}

ImageRegions(p) ==
  {get_directory_index(PROCESS_ENTRY + j * PAGE_N_ENTRIES * PAGE) : j \in 0..(nrOfTables(p) - 1)}

StackRegions == {get_directory_index(PROCESS_STACK - j * PAGE) : j \in {0, 1}}

DeviceRegions ==
  UNION {{get_directory_index(a) : a \in Devices[k].address..(Devices[k].address + Devices[k].size - 1)} :
           k \in DOMAIN Devices}

\* Frames lie in the first megabytes, which the kernel maps, and not under the
\* screen; images, stacks and devices are in tables of their own, and no two
\* images share sectors of the drive.
ASSUME PagingAssumption ==
  /\ PAGEABLE_PAGES \in Nat /\ SECTORS_PER_PAGE \in Nat \ {0}
  /\ PAGE_N_ENTRIES \in Nat \ {0, 1} /\ N_KERNEL_PTS \in Nat \ {0}
  /\ MEM_START \in Nat /\ PROCESS_ENTRY \in Nat /\ PROCESS_STACK \in Nat
  /\ Loads \in Seq(Procs) /\ Threads \subseteq Procs /\ Kernel \notin Procs
  /\ \A i \in Frames : MEM_START + i \in KernelPages \ {SCREEN_ADDR}
  /\ SCREEN_ADDR \in KernelPages
  /\ swap_loc \in [Programs -> Nat] /\ swap_size \in [Programs -> Nat]
  /\ \A p \in Programs : data_of[p] \subseteq Image(p)
  /\ \A k \in DOMAIN Devices : Devices[k].address \in Nat /\ Devices[k].size \in Nat
  /\ PROCESS_ENTRY % (PAGE * PAGE_N_ENTRIES) = 0
  /\ \A p, q \in Programs : p # q => swap_loc[p] + swap_size[p] <= swap_loc[q]
                                       \/ swap_loc[q] + swap_size[q] <= swap_loc[p]
  /\ \E r \in Index : StackRegions = {r}
  /\ KernelRegions \cap (StackRegions \cup DeviceRegions) = {}
  /\ StackRegions \cap DeviceRegions = {}
  /\ \A p \in Programs :
       /\ ImageRegions(p) \subseteq Index
       /\ ImageRegions(p) \cap (KernelRegions \cup StackRegions \cup DeviceRegions) = {}

\* The sectors of the drive that hold images
ImageSectors == UNION {swap_loc[p]..(swap_loc[p] + swap_size[p] - 1) : p \in Programs}

\* What a sector holds: 0 is what bzero() leaves, 1 what the image has at first.
Values == {0, 1}

Sectors == 0..(SECTORS_PER_PAGE - 1)

VARIABLES memory_lock, allocated,
          memoryblocks,   \* pcb, vaddr and pinned of each frame
          data, tables,   \* the contents of each frame
          page_directory, \* pcb->page_directory: a frame
          disk,           \* the USB drive
          pc, job, fault_addr,
          request,        \* how many frames setup_page_table() has got
          frame, dirty,   \* locals i and dirty of get_memory()
          written,        \* history: what the process last wrote to a sector
          lost            \* history: sectors whose last write came between
                          \* the reading of the dirty bit and its clearing

vars == <<memory_lock, allocated, memoryblocks, data, tables, page_directory,
          disk, pc, job, fault_addr, request, frame, dirty, written, lost>>

Entry(base, flags) == [base |-> base, flags |-> flags]

NoEntry == Entry(0, {})

\* bzero() of a frame that is used as a table
EmptyTable == [i \in Index |-> NoEntry]

\* The frame an entry leads to
FrameOf(e) == e.base - MEM_START

-----------------------------------------------------------------------------
(* The kernel's directory is in frame 0.  Before scheduling starts nothing  *)
(* else runs, so init_memory() and identity_map() are functions of what     *)
(* they change: m.allocated, m.memoryblocks and m.tables.                   *)

\* get_memory(TRUE, vaddr, kernel) while there are free frames
GrantKernel(m, vaddr) ==
  [m EXCEPT !.allocated = @ + 1,
            !.memoryblocks[m.allocated] = [pcb |-> Kernel, vaddr |-> vaddr, pinned |-> TRUE]]

\* create_table(vaddr, kernel, flags) sets the directory entry...
create_table(m, vaddr, flags) ==
  LET d == get_directory_index(vaddr) IN
  IF "P" \in m.tables[0][d].flags THEN [m EXCEPT !.tables[0][d].flags = flags]
  ELSE [GrantKernel(m, vaddr) EXCEPT !.tables[0][d] = Entry(MEM_START + m.allocated, flags)]

\* ...and returns the address of the table or, for a table that was there, the
\* old entry with its flags, which are 7: what is then written to entry i lies
\* across the entries i + 1 and i + 2 (8 further if the table was used before).
TableSkew(m, vaddr) == IF "P" \in m.tables[0][get_directory_index(vaddr)].flags THEN 1 ELSE 0

\* update_entry(table, index, vaddr, paddr, flags); an entry that is hit by half
\* of another leads nowhere or is no longer present.
update_entry(table, index, skew, e) ==
  IF skew = 0 THEN [table EXCEPT ![index] = e]
  ELSE [i \in Index |-> CASE i = index + skew -> Entry(-1, table[i].flags)
                          [] i = index + skew + 1 -> Entry(-1, {})
                          [] OTHER -> table[i]]

\* The pages n1..n2 of a device are entered into the table of page n1.
MapRange(m, address, n1, n2, skew) ==
  LET t == FrameOf(m.tables[0][get_directory_index(address + n1 * PAGE)])
      Put(table, n) == update_entry(table, get_table_index(address + n * PAGE), skew,
                         Entry((address \div PAGE) + n, {"P", "US"}))
  IN  [m EXCEPT !.tables[t] = FoldLeft(Put, @, [k \in 1..(n2 - n1 + 1) |-> n1 + k - 1])]

identity_map(m, dev) ==
  LET pages == (dev.size + PAGE - 1) \div PAGE
      Fill(c, n) ==
        MapRange(create_table(c, dev.address + n * PAGE, {"P", "US"}), dev.address, n,
                 (IF n + PAGE_N_ENTRIES < pages THEN n + PAGE_N_ENTRIES ELSE pages) - 1,
                 TableSkew(c, dev.address + n * PAGE))
  IN  FoldLeft(Fill, m, [i \in 1..((pages \div PAGE_N_ENTRIES) + 1) |->
                           (i - 1) * PAGE_N_ENTRIES])

\* init_memory(): the kernel's directory and tables, with the screen open to
\* all processes
init_memory ==
  LET m == [allocated |-> 0,
            memoryblocks |-> [i \in Frames |-> [pcb |-> Kernel, vaddr |-> 0, pinned |-> FALSE]],
            tables |-> [i \in Frames |-> EmptyTable]]
      Flags(k) == IF k = SCREEN_ADDR THEN {"P", "US"} ELSE {"P"}
      Fill(c, d) ==
        [create_table(c, d * PAGE_N_ENTRIES * PAGE,
                      IF SCREEN_ADDR \div PAGE_N_ENTRIES = d THEN {"P", "US"} ELSE {"P"})
         EXCEPT !.tables[c.allocated] =
           [i \in Index |-> Entry(d * PAGE_N_ENTRIES + i, Flags(d * PAGE_N_ENTRIES + i))]]
  IN  FoldLeft(Fill, GrantKernel(m, 0), [d \in 1..N_KERNEL_PTS |-> d - 1])

\* What the kernel has set up when it begins to schedule
Booted == FoldLeft(identity_map, init_memory, Devices)

Init ==
  /\ allocated = Booted.allocated
  /\ memoryblocks = Booted.memoryblocks
  /\ tables = Booted.tables
  /\ memory_lock = <<>>
  /\ data = [i \in Frames |-> [s \in Sectors |-> 0]]
  /\ page_directory = [p \in Procs |-> 0]
  /\ disk = [l \in ImageSectors |-> 1]
  /\ written = [p \in Programs |-> [a \in Image(p) |-> 1]]
  /\ lost = {}
  /\ pc = [p \in Procs |-> "new"]
  /\ job = [p \in Procs |-> "setup"]
  /\ fault_addr = [p \in Procs |-> 0]
  /\ request = [p \in Procs |-> 0]
  /\ frame = 0 /\ dirty = FALSE

Goto(p, l) == pc' = [pc EXCEPT ![p] = l]

\* lock_acquire(&memory_lock)
LockAcquire(p) == memory_lock' = Append(memory_lock, p)

\* lock_release(&memory_lock)
LockRelease == memory_lock' = Tail(memory_lock)

\* p has memory_lock and is at l.
Owns(p, l) == memory_lock # <<>> /\ Head(memory_lock) = p /\ pc[p] = l

\* The frame of p's table for vaddr, and the entry in it
TableOf(p, vaddr) == FrameOf(tables[page_directory[p]][get_directory_index(vaddr)])

EntryOf(p, vaddr) == tables[TableOf(p, vaddr)][get_table_index(vaddr)]

IsPresent(p, vaddr) == "P" \in EntryOf(p, vaddr).flags

\* Mutant: the sector that faulted is taken for the first one of its page.
PlaceUnaligned(p, vaddr) ==
  LET offset == vaddr - PROCESS_ENTRY
  IN  [location |-> swap_loc[p] + offset,
       sectors |-> IF SECTORS_PER_PAGE + offset > swap_size[p]
                   THEN swap_size[p] - offset ELSE SECTORS_PER_PAGE]

\* get_entry_and_location(): the sectors of the drive that hold the page
Place(p, vaddr) ==
  LET aligned_offset == ((vaddr - PROCESS_ENTRY) \div SECTORS_PER_PAGE) * SECTORS_PER_PAGE
  IN  [location |-> swap_loc[p] + aligned_offset,
       sectors |-> IF SECTORS_PER_PAGE + aligned_offset > swap_size[p]
                   THEN swap_size[p] - aligned_offset ELSE SECTORS_PER_PAGE]

-----------------------------------------------------------------------------
\* setup_page_table(p) is called for a new process.
Create(p) ==
  /\ pc[p] = "new"
  /\ \A k \in DOMAIN Loads : Loads[k] = p => \A j \in 1..(k - 1) : pc[Loads[j]] # "new"
  /\ LockAcquire(p)
  /\ Goto(p, "lock")
  /\ UNCHANGED <<allocated, memoryblocks, data, tables, page_directory, disk, job,
                 fault_addr, request, frame, dirty, written, lost>>

\* A running process writes to a page that is present (the processor sets the
\* dirty bit), whoever has memory_lock.  Between Choose and Clear it is too
\* late: the page counts as clean.
Write(p, a, x) ==
  LET i == FrameOf(EntryOf(p, a)) IN
  /\ pc[p] = "run"
  /\ IsPresent(p, a)
  /\ data' = [data EXCEPT ![i][a % PAGE] = x]
  /\ tables' = [tables EXCEPT ![TableOf(p, a)][get_table_index(a)].flags = @ \cup {"D"}]
  /\ written' = [written EXCEPT ![p][a] = x]
  /\ lost' = IF frame = i /\ ~dirty /\ \E r \in Procs : pc[r] = "clear"
             THEN lost \cup {<<p, a>>} ELSE lost \ {<<p, a>>}
  /\ UNCHANGED <<memory_lock, allocated, memoryblocks, page_directory, disk, pc, job,
                 fault_addr, request, frame, dirty>>

\* It touches a page that is not present: page_fault_handler() is called.
Fault(p, a) ==
  /\ pc[p] = "run"
  /\ ~IsPresent(p, a)
  /\ LockAcquire(p)
  /\ Goto(p, "lock")
  /\ job' = [job EXCEPT ![p] = "fault"]
  /\ fault_addr' = [fault_addr EXCEPT ![p] = a]
  /\ UNCHANGED <<allocated, memoryblocks, data, tables, page_directory, disk, request,
                 frame, dirty, written, lost>>

\* It touches address 0 or a page it has no right to.
BadAccess(p) ==
  /\ pc[p] = "run"
  /\ LockAcquire(p)
  /\ Goto(p, "lock")
  /\ job' = [job EXCEPT ![p] = "bad"]
  /\ UNCHANGED <<allocated, memoryblocks, data, tables, page_directory, disk,
                 fault_addr, request, frame, dirty, written, lost>>

\* Mutant: the process exits with the lock.
LeaveLocked(p) ==
  /\ Goto(p, "exited")
  /\ UNCHANGED <<memory_lock, allocated, memoryblocks, data, tables, page_directory,
                 disk, job, fault_addr, request, frame, dirty, written, lost>>

\* lock_release(&memory_lock); exit().  What exits during setup_page_table() is
\* the creator, and the process is never scheduled.
ReleaseAndExit(p) ==
  /\ LockRelease
  /\ Goto(p, "exited")
  /\ UNCHANGED <<allocated, memoryblocks, data, tables, page_directory, disk, job,
                 fault_addr, request, frame, dirty, written, lost>>

\* "Null pointer error" and "Access Denied"
Denied(p) ==
  /\ Owns(p, "lock") /\ job[p] = "bad"
  /\ ReleaseAndExit(p)

\* setup_page_table() of a thread
ShareKernel(p) ==
  /\ Owns(p, "lock") /\ job[p] = "setup" /\ p \in Threads
  /\ page_directory' = [page_directory EXCEPT ![p] = 0]
  /\ LockRelease
  /\ Goto(p, "run")
  /\ UNCHANGED <<allocated, memoryblocks, data, tables, disk, job, fault_addr, request,
                 frame, dirty, written, lost>>

-----------------------------------------------------------------------------
\* get_memory(pinned, vaddr, pcb), for the owner of memory_lock
NeedsFrame(p) ==
  Owns(p, "lock") /\ (job[p] = "fault" \/ (job[p] = "setup" /\ p \notin Threads))

Unpinned == {i \in Frames : ~memoryblocks[i].pinned}

GetFree(p) ==
  /\ NeedsFrame(p)
  /\ allocated < PAGEABLE_PAGES
  /\ frame' = allocated
  /\ allocated' = allocated + 1
  /\ Goto(p, "take")
  /\ UNCHANGED <<memory_lock, memoryblocks, data, tables, page_directory, disk, job,
                 fault_addr, request, dirty, written, lost>>

\* "No unpinned memory free"
NoneFree(p) ==
  /\ NeedsFrame(p)
  /\ allocated = PAGEABLE_PAGES
  /\ Unpinned = {}
  /\ ReleaseAndExit(p)

\* Mutant: any frame may be chosen, pinned or not.
ChooseAny(p) ==
  /\ NeedsFrame(p)
  /\ allocated = PAGEABLE_PAGES
  /\ frame' \in Frames
  /\ dirty' = FALSE
  /\ Goto(p, IF memoryblocks[frame'].pinned THEN "take" ELSE "clear")
  /\ UNCHANGED <<memory_lock, allocated, memoryblocks, data, tables, page_directory,
                 disk, job, fault_addr, request, written, lost>>

\* A random unpinned frame is chosen and its dirty bit is read.
Choose(p) ==
  /\ NeedsFrame(p)
  /\ allocated = PAGEABLE_PAGES
  /\ \E i \in Unpinned :
       /\ frame' = i
       /\ dirty' = ("D" \in EntryOf(memoryblocks[i].pcb, memoryblocks[i].vaddr).flags)
  /\ Goto(p, "clear")
  /\ UNCHANGED <<memory_lock, allocated, memoryblocks, data, tables, page_directory,
                 disk, job, fault_addr, request, written, lost>>

\* Mutant: the entry of the evicted page is left present.
ClearNot(p) ==
  /\ Owns(p, "clear")
  /\ Goto(p, IF dirty THEN "write" ELSE "take")
  /\ UNCHANGED <<memory_lock, allocated, memoryblocks, data, tables, page_directory,
                 disk, job, fault_addr, request, frame, dirty, written, lost>>

\* update_entry(entry, index, ..., 0)
Clear(p) ==
  LET b == memoryblocks[frame] IN
  /\ Owns(p, "clear")
  /\ tables' = [tables EXCEPT ![TableOf(b.pcb, b.vaddr)][get_table_index(b.vaddr)] =
                  Entry(MEM_START + frame, {})]
  /\ Goto(p, IF dirty THEN "write" ELSE "take")
  /\ UNCHANGED <<memory_lock, allocated, memoryblocks, data, page_directory, disk, job,
                 fault_addr, request, frame, dirty, written, lost>>

\* scsi_write(location, sectors, ...)
WriteBack(p) ==
  LET b == memoryblocks[frame]
      place == Place(b.pcb, b.vaddr)
  IN
  /\ Owns(p, "write")
  /\ disk' = [l \in DOMAIN disk |->
                IF l \in place.location..(place.location + place.sectors - 1)
                THEN data[frame][l - place.location] ELSE disk[l]]
  /\ dirty' = FALSE  \* not used again
  /\ Goto(p, "take")
  /\ UNCHANGED <<memory_lock, allocated, memoryblocks, data, tables, page_directory,
                 job, fault_addr, request, frame, written, lost>>

\* The frame gets its new owner and is zeroed.
Granted(p, vaddr, pcb, pinned) ==
  /\ memoryblocks' = [memoryblocks EXCEPT ![frame] =
                        [pcb |-> pcb, vaddr |-> vaddr, pinned |-> pinned]]
  /\ data' = [data EXCEPT ![frame] = [s \in Sectors |-> 0]]

-----------------------------------------------------------------------------
(* setup_page_table() asks for one frame after the other: the directory, the *)
(* table of the stack, two stack pages, and a table for every PAGE_N_ENTRIES *)
(* pages of the image.                                                       *)

\* vaddr of the k-th request
RequestAddr(k) ==
  CASE k = 1 -> 0
    [] k \in {2, 3} -> PROCESS_STACK
    [] k = 4 -> PROCESS_STACK - PAGE
    [] OTHER -> PROCESS_ENTRY + (k - 5) * PAGE_N_ENTRIES * PAGE

\* pcb of the k-th request: create_table() asks for `kernel'.
RequestPcb(p, k) == IF k \in {1, 3, 4} THEN p ELSE Kernel

\* The entries of the image's pages in the table of the k-th request
ImageTable(p, k) ==
  [i \in Index |-> IF (k - 5) * PAGE_N_ENTRIES + i < nrOfPages(p)
                   THEN Entry(0, {"US"}) ELSE NoEntry]

\* What is done with the k-th frame: the directory is a copy of the kernel's,
\* tables are entered in it, and stack pages in their table.
Entered(p, k) ==
  IF k = 1 THEN /\ page_directory' = [page_directory EXCEPT ![p] = frame]
                /\ tables' = [tables EXCEPT ![frame] = tables[0]]
  ELSE /\ UNCHANGED page_directory
       /\ IF k \in {3, 4}
          THEN tables' = [tables EXCEPT ![frame] = EmptyTable,
                 ![TableOf(p, PROCESS_STACK)][get_table_index(RequestAddr(k))] =
                    Entry(MEM_START + frame, {"P", "US"})]
          ELSE tables' = [tables EXCEPT
                 ![frame] = IF k = 2 THEN EmptyTable ELSE ImageTable(p, k),
                 ![page_directory[p]][get_directory_index(RequestAddr(k))] =
                    Entry(MEM_START + frame, {"P", "US"})]

SetUp(p) ==
  LET k == request[p] + 1
      last == k = 4 + nrOfTables(p)
  IN
  /\ Owns(p, "take") /\ job[p] = "setup"
  /\ Granted(p, RequestAddr(k), RequestPcb(p, k), TRUE)
  /\ Entered(p, k)
  /\ request' = [request EXCEPT ![p] = k]
  /\ IF last THEN LockRelease /\ Goto(p, "run")
     ELSE Goto(p, "lock") /\ UNCHANGED memory_lock
  /\ UNCHANGED <<allocated, disk, job, fault_addr, frame, dirty, written, lost>>

-----------------------------------------------------------------------------
(* page_fault_handler() goes on when it has its frame. *)

Take(p) ==
  /\ Owns(p, "take") /\ job[p] = "fault"
  /\ Granted(p, fault_addr[p], p, FALSE)
  /\ tables' = [tables EXCEPT ![frame] = EmptyTable]
  /\ Goto(p, "read")
  /\ UNCHANGED <<memory_lock, allocated, page_directory, disk, job, fault_addr, request,
                 frame, dirty, written, lost>>

\* scsi_read(location, sectors, page)
ReadIn(p) ==
  LET place == Place(p, fault_addr[p]) IN
  /\ Owns(p, "read")
  /\ data' = [data EXCEPT ![frame] = [s \in Sectors |->
                IF s < place.sectors THEN disk[place.location + s] ELSE @[s]]]
  /\ Goto(p, "map")
  /\ UNCHANGED <<memory_lock, allocated, memoryblocks, tables, page_directory, disk, job,
                 fault_addr, request, frame, dirty, written, lost>>

\* The page becomes present and the process goes on.
Map(p) ==
  /\ Owns(p, "map")
  /\ tables' = [tables EXCEPT ![TableOf(p, fault_addr[p])][get_table_index(fault_addr[p])] =
                  Entry(MEM_START + frame, {"P", "US"})]
  /\ LockRelease
  /\ Goto(p, "run")
  /\ UNCHANGED <<allocated, memoryblocks, data, page_directory, disk, job, fault_addr,
                 request, frame, dirty, written, lost>>

-----------------------------------------------------------------------------
\* The steps of the owner of memory_lock
Handle(p) ==
  \/ Denied(p) \/ ShareKernel(p) \/ GetFree(p) \/ NoneFree(p) \/ Choose(p)
  \/ Clear(p) \/ WriteBack(p) \/ SetUp(p) \/ Take(p) \/ ReadIn(p) \/ Map(p)

\* A program touches its image and its two stack pages, or what it has no
\* right to.
Next ==
  \/ \E p \in Procs : Create(p) \/ Handle(p)
  \/ \E p \in Programs :
       \/ BadAccess(p)
       \/ \E a \in Image(p) : Fault(p, a)
       \/ \E a \in data_of[p], x \in Values : Write(p, a, x)

Spec == Init /\ [][Next]_vars

\* The scheduler runs the owner of memory_lock on, and the drive answers.
FairSpec == Spec /\ WF_vars(\E p \in Procs : Handle(p))

-----------------------------------------------------------------------------
\* The processes whose address space is complete
Live == {p \in Procs : pc[p] # "new" /\ (p \in Threads \/ request[p] = 4 + nrOfTables(p))}

\* The regions of 4 megabytes for which identity_map() was called at most once
\* and not with a range that crosses their end
SoundRegions ==
  LET Touched(k) == {get_directory_index(Devices[k].address),
                     get_directory_index(Devices[k].address + Devices[k].size - 1)}
  IN  {d \in Index : \A j, k \in DOMAIN Devices :
         d \in Touched(j) \cap Touched(k) => j = k /\ Touched(k) = {d}}

\* The pages of the screen and of the devices
Shared ==
  {SCREEN_ADDR} \cup
    UNION {{a \div PAGE : a \in Devices[k].address..(Devices[k].address + Devices[k].size - 1)} :
             k \in DOMAIN Devices}

\* What lies in a table, and what get_memory() knows of a frame
Entries == [base : Int, flags : SUBSET {"P", "US", "D"}]

Blocks == [pcb : Procs \cup {Kernel}, vaddr : Int, pinned : BOOLEAN]

\* The frames the kernel has for its own
KernelFrames == 0..(Booted.allocated - 1)

\* Page i of region d, through directory entry de and table entry te, is closed
\* to processes unless it is a page of the screen or of a device.
KernelEntry(d, i, de, te) ==
  LET v == d * PAGE_N_ENTRIES + i
      open == {"P", "US"} \subseteq de.flags \cap te.flags
  IN  /\ v \in KernelPages => te.base = v /\ "P" \in te.flags
      /\ v \in Shared => open /\ te.base = v
      /\ open => v \in Shared

\* What init_memory() and identity_map() leave
BootedSound ==
  /\ Booted.allocated \in 1..PAGEABLE_PAGES
  /\ Booted.memoryblocks \in [Frames -> Blocks]
  /\ \A i \in Frames : Booted.memoryblocks[i].pinned <=> i < Booted.allocated
  /\ Booted.tables \in [Frames -> [Index -> Entries]]
  /\ \A d \in Index :
       LET de == Booted.tables[0][d]
           table == IF "P" \in de.flags THEN Booted.tables[FrameOf(de)] ELSE EmptyTable
       IN  /\ "P" \in de.flags => FrameOf(de) \in KernelFrames
           /\ d \in SoundRegions => \A i \in Index : KernelEntry(d, i, de, table[i])

\* Each address space is its own: where the page tables let a process through,
\* it reaches a stack or image page that memoryblocks gives to it under that
\* address, the screen, or a device at its own address; the kernel's memory,
\* and with it every directory and table, is mapped one-to-one and closed to it;
\* and screen and devices can be reached by all.  The addresses in which
\* identity_map() has met a table that was already there are left out.
AddressSpaces ==
  \A p \in Live, d \in SoundRegions :
    LET de == tables[page_directory[p]][d]
        table == IF "P" \in de.flags THEN tables[FrameOf(de)] ELSE EmptyTable
    IN  \A i \in Index :
          LET v == d * PAGE_N_ENTRIES + i
              open == {"P", "US"} \subseteq de.flags \cap table[i].flags
              b == memoryblocks[FrameOf(table[i])]
          IN  /\ v \in KernelPages => table[i].base = v /\ "P" \in table[i].flags
              /\ v \in Shared => open /\ table[i].base = v
              /\ open /\ v \notin Shared =>
                   /\ FrameOf(table[i]) \in Frames
                   /\ b.pcb = p /\ b.vaddr \div PAGE = v
                   /\ b.pinned = (v \in {(PROCESS_STACK \div PAGE) - j : j \in {0, 1}})

\* The frame of an evicted page still holds what has to be written back.
BeingWritten(p, a) ==
  \E r \in Procs : pc[r] = "write" /\ memoryblocks[frame].pcb = p
                     /\ memoryblocks[frame].vaddr \div PAGE = a \div PAGE

\* "When a data page is swapped out, it is stored in the location it was loaded
\* from": what a process last wrote to a sector of its image is in the frame of
\* the page while that is present, and in its own place on the drive when it is
\* not.  Only a write that comes after get_memory() has read the dirty bit of a
\* clean page and before it has cleared the entry is dropped.
NoLostWrite ==
  \A p \in Programs : \A a \in Image(p) :
    <<p, a>> \notin lost =>
      written[p][a] = IF p \in Live /\ IsPresent(p, a) THEN data[FrameOf(EntryOf(p, a))][a % PAGE]
                      ELSE IF BeingWritten(p, a) THEN data[frame][a % PAGE]
                      ELSE disk[swap_loc[p] + a - PROCESS_ENTRY]

\* Page directories, page tables and stacks are pinned: no later request takes
\* their frames away.
PinnedStay ==
  [][\A i \in Frames : memoryblocks[i].pinned => memoryblocks'[i] = memoryblocks[i]]_vars

\* A process that faults runs again or is ended, and does not hang on
\* memory_lock whatever way the others leave the handler.
FaultServed == \A p \in Procs : pc[p] = "lock" ~> pc[p] \in {"run", "exited"}
=============================================================================
