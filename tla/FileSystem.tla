----------------------------- MODULE FileSystem -----------------------------
(***************************************************************************)
(* The file system of filesystem/fs.c on the blocks of filesystem/block.c. *)
(* A system call is one step: fs.c has no lock, and its callers are taken  *)
(* to run one after the other.  The power may fail between any two block   *)
(* writes of a call.                                                       *)
(*                                                                         *)
(* fs holds what is in memory (both bitmaps, the inode table, the file     *)
(* position of each inode) and what is on the drive; a call is a function  *)
(* from fs to fs, composed of the functions of fs.c, with its result in    *)
(* fs.ret: an error, or the id of the inode it has made, and in fs.log     *)
(* what the drive holds after each of its block writes.  A block           *)
(* has BLOCK_SIZE cells and a cell is a directory entry or a unit of file  *)
(* data, which is all the same to db_read() and db_write().                *)
(*                                                                         *)
(* fs.met collects the cases in which fs.c goes wrong that a call has met: *)
(*   "shrink"    resize_inode() frees blocks but leaves them in direct[]   *)
(*   "halffull"  it fails after the first of several blocks                *)
(*   "stray"     load_inode() reads behind direct[] and rejects an inode   *)
(*   "stale"     an inode is freed that is open or a working directory     *)
(*   "self"      fs_unlink() is given "." or ".."                          *)
(*   "dirwrite"  a directory is written like a file                        *)
(*   "notdir"    a path leads through a file that is read as a directory   *)
(* Only the cases in Faults may happen in a run.                           *)
(***************************************************************************)
EXTENDS Integers, Sequences, SequencesExt, FiniteSets, FiniteSetsExt

CONSTANTS MAX_INODES, DATA_BLOCKS, BLOCK_SIZE, INODE_NDIRECT,
          Procs,    \* the processes that call the file system
          MAX_OPEN_FILES,
          Names,    \* file names other than "." and ".."
          Longer,   \* pairs of names, the first one beginning with the second
          Sizes,    \* of what is written
          Offsets,  \* arguments of fs_lseek()
          MaxLinks, \* bound on nlinks: fs_rmdir() never counts ".." down
          MaxCalls, \* bound on the number of calls
          Faults

ASSUME FileSystemAssumption ==
  /\ MAX_INODES \in Nat \ {0} /\ DATA_BLOCKS \in Nat \ {0}
  /\ BLOCK_SIZE \in Nat \ {0, 1} /\ INODE_NDIRECT \in Nat \ {0}
  /\ Sizes \subseteq Nat /\ Offsets \subseteq Nat /\ MaxLinks \in Nat /\ MaxCalls \in Nat
  /\ Longer \subseteq Names \X Names

max_filesize == INODE_NDIRECT * BLOCK_SIZE

Inodes == 0..(MAX_INODES - 1)

Index == 0..(INODE_NDIRECT - 1)

Fds == 0..(MAX_OPEN_FILES - 1)

root_inode == 0

FSE_OK == 0

FSE_ERROR == -1  \* any of the error codes

VARIABLES fs,      \* the file system, in memory and on the drive
          cwd,     \* pcb->cwd
          filedes, \* pcb->filedes: mode and idx
          failure, \* what a power failure in the middle of a call has left on
                   \* the drive, and what the whole call would have
          calls    \* how many calls there have been

vars == <<fs, cwd, filedes, failure, calls>>

NoFailure == [drive |-> <<>>, whole |-> <<>>]

NoFile == [mode |-> "unused", idx |-> -1]

Cell(inode, name) == [inode |-> inode, name |-> name]

EmptyInode(type) == [type |-> type, size |-> 0, nlinks |-> 0,
                     direct |-> [x \in Index |-> -1]]

-----------------------------------------------------------------------------
(* Saving to the drive and loading from it. *)

\* block_write() and block_modify(): the drive becomes d in one write.
block_modify(s, d) == [s EXCEPT !.disk = d, !.log = Append(@, d)]

\* Mutant: the two blocks are cleared before they are written.
save_bitmapsCleared(s) ==
  LET c == block_modify(s, [s.disk EXCEPT !.inode_bmap = {}, !.dblk_bmap = {}])
  IN  block_modify(c, [c.disk EXCEPT !.inode_bmap = s.inode_bmap, !.dblk_bmap = s.dblk_bmap])

save_bitmaps(s) ==
  LET i == block_modify(s, [s.disk EXCEPT !.inode_bmap = s.inode_bmap])
  IN  block_modify(i, [i.disk EXCEPT !.dblk_bmap = s.dblk_bmap])

load_bitmaps(s) == [s EXCEPT !.inode_bmap = s.disk.inode_bmap,
                             !.dblk_bmap = s.disk.dblk_bmap]

save_inode(s, id) == block_modify(s, [s.disk EXCEPT !.inodes[id] = s.inodes[id]])

Fails(s) == [s EXCEPT !.ret = FSE_ERROR]

Meets(s, fault, cond) == IF cond THEN [s EXCEPT !.met = @ \cup {fault}] ELSE s

\* Go on with the result s of a function, or return its error.
Then(s, Step(_)) == IF s.ret < 0 THEN s ELSE Step(s)

-----------------------------------------------------------------------------
(* Inodes and their data blocks. *)

\* The k-th call of get_free_entry() from now on returns the k-th zero bit.
FreeEntry(bmap, size, k) ==
  LET free == SetToSortSeq(0..(size - 1) \ bmap, <)
  IN  IF k <= Len(free) THEN free[k] ELSE -1

\* The blocks of an inode in the order of direct[], after resize_inode() has
\* looked for a free entry where x < blocks and direct[x] is -1.
Grown(s, direct, blocks) ==
  LET new == {x \in Index : x < blocks /\ direct[x] = -1}
  IN  [x \in Index |->
         IF x \in new
         THEN FreeEntry(s.dblk_bmap, DATA_BLOCKS, Cardinality({y \in new : y <= x}))
         ELSE direct[x]]

Listed(direct) == {direct[x] : x \in Index} \ {-1}

\* Mutant: the bitmap is not saved, and the next load_bitmaps() undoes it.
ResizedUnsaved(s, id, new_size, cut) ==
  save_inode([s EXCEPT !.dblk_bmap = @ \ cut, !.inodes[id].size = new_size,
                       !.ret = FSE_OK], id)

\* The end of resize_inode(), when all blocks have been found
Resized(s, id, new_size, cut) ==
  save_inode(save_bitmaps([s EXCEPT !.dblk_bmap = @ \ cut,
                                    !.inodes[id].size = new_size,
                                    !.ret = FSE_OK]), id)

\* What resize_inode() does when its search for blocks has led to direct.
Allotted(l, id, new_size, direct) ==
  LET old == l.inodes[id].direct
      blocks == (new_size \div BLOCK_SIZE) + 1
      full == \E x \in Index : x < blocks /\ direct[x] = -1
      cut == {direct[x] : x \in {y \in Index : y >= blocks}} \ {-1}
      got == [l EXCEPT !.inodes[id].direct = direct,
                       !.dblk_bmap = @ \cup ({direct[x] : x \in {y \in Index : old[y] = -1}} \ {-1})]
  IN  IF full THEN Meets(Fails(got), "halffull", direct # old)
      ELSE Meets(Resized(got, id, new_size, cut), "shrink", cut # {})

\* resize_inode(id, new_size).  The blocks from which the inode is cut remain
\* in direct[].
resize_inode(s, id, new_size) ==
  LET l == load_bitmaps(s)
  IN  IF new_size > max_filesize THEN Fails(s)
      ELSE Allotted(l, id, new_size,
                    Grown(l, s.inodes[id].direct, (new_size \div BLOCK_SIZE) + 1))

create_inode(s) ==
  LET i == FreeEntry(s.inode_bmap, MAX_INODES, 1)
      t == save_bitmaps([s EXCEPT !.inode_bmap = @ \cup {i}])
  IN  IF i = -1 THEN Fails(s)
      ELSE [t EXCEPT !.inodes[i] = EmptyInode("file"), !.pos[i] = 0,
                     !.open_count[i] = 0, !.ret = i]

\* Mutant: the data blocks stay marked.
free_inodeOnly(s, id) == save_bitmaps([s EXCEPT !.inode_bmap = @ \ {id}])

free_inode(s, id) ==
  save_bitmaps([s EXCEPT !.dblk_bmap = @ \ Listed(s.inodes[id].direct),
                         !.inode_bmap = @ \ {id}])

\* Mutant: the last but one link counts as the last.
reduce_linksEarly(s, id) ==
  LET t == [s EXCEPT !.inodes[id].nlinks = @ - 1]
  IN  IF t.inodes[id].nlinks <= 1 \/ t.inodes[id].type = "dir"
      THEN free_inode(t, id) ELSE save_inode(t, id)

\* Mutant: the inode is not saved.
reduce_linksUnsaved(s, id) ==
  LET t == [s EXCEPT !.inodes[id].nlinks = @ - 1]
  IN  IF t.inodes[id].nlinks <= 0 \/ t.inodes[id].type = "dir"
      THEN free_inode(t, id) ELSE t

reduce_links(s, id) ==
  LET t == [s EXCEPT !.inodes[id].nlinks = @ - 1]
  IN  IF t.inodes[id].nlinks <= 0 \/ t.inodes[id].type = "dir"
      THEN free_inode(t, id) ELSE save_inode(t, id)

\* One cell of a block, as block_read_part() delivers it
block_read_part(s, b, offset) == s.disk.blocks[b][offset]

\* db_read(id, buffer, size, start_pos): what it puts into the buffer
db_read(s, id, size, start_pos) ==
  LET i == s.inodes[id]
      finish_pos == Min({size + start_pos, i.size})
  IN  [k \in 1..Max({0, finish_pos - start_pos}) |->
         LET p == start_pos + k - 1
         IN  block_read_part(s, i.direct[p \div BLOCK_SIZE], p % BLOCK_SIZE)]

\* The cells of a block when the part of the buffer that belongs to block x of
\* the file has been put into them
Filled(cells, x, buffer, start_pos, finish_pos) ==
  [o \in DOMAIN cells |->
     LET p == x * BLOCK_SIZE + o
     IN  IF p \in start_pos..(finish_pos - 1) THEN buffer[p - start_pos + 1] ELSE cells[o]]

\* db_write(id, buffer, Len(buffer), start_pos), one block after the other; the
\* size becomes finish_pos whatever it was before.
db_write(s, id, buffer, start_pos) ==
  LET finish_pos == Min({Len(buffer) + start_pos, max_filesize})
      start_block == start_pos \div BLOCK_SIZE
      Put(t, b, x) == block_modify(t, [t.disk EXCEPT !.blocks[b] =
                                         Filled(@, x, buffer, start_pos, finish_pos)])
      Blocks(t) == FoldLeft(LAMBDA u, x : Put(u, u.inodes[id].direct[x], x), t,
                            [k \in 1..(((finish_pos - 1) \div BLOCK_SIZE) + 1 - start_block) |->
                               start_block + k - 1])
  IN  Then(resize_inode(s, id, finish_pos), Blocks)

-----------------------------------------------------------------------------
(* Directories. *)

Entries(s, dir) == db_read(s, dir, s.inodes[dir].size, 0)

create_directory_entry(s, dir, inode, name) ==
  Then(resize_inode(s, dir, s.inodes[dir].size + 1), LAMBDA r :
    Then(db_write(r, dir, <<Cell(inode, name)>>, r.inodes[dir].size - 1), LAMBDA w :
      save_inode([w EXCEPT !.inodes[inode].nlinks = @ + 1], inode)))

\* A directory is emptied first, without its "." and ".."; then the entry is
\* removed, the link count reduced and the directory written anew.
RECURSIVE remove_directory_entry(_, _, _)
remove_directory_entry(s, dir, id) ==
  LET inner == SelectSeq(Entries(s, id), LAMBDA e : e.inode \notin {dir, id})
      Rewritten(t, buffer) ==
        db_write(resize_inode(reduce_links(t, id), dir, Len(buffer) - 1), dir,
                 RemoveAt(buffer, SelectInSeq(buffer, LAMBDA e : e.inode = id)), 0)
      Removed(t) == Rewritten(t, Entries(t, dir))
  IN  Removed(IF s.inodes[id].type # "dir" THEN s
              ELSE FoldLeft(LAMBDA r, e : remove_directory_entry(r, id, e.inode), s, inner))

\* create_directory(parent); -1 is the parent of the root directory.  Both
\* entries are made, and one that fails undoes the other.
create_directory(s, parent) ==
  LET Both(t, dir, failed) == IF failed \/ t.ret < 0 THEN Fails(free_inode(t, dir))
                              ELSE [save_inode(t, dir) EXCEPT !.ret = dir]
      Self(t, dir) == Both(create_directory_entry(t, dir, IF parent = -1 THEN dir ELSE parent, ".."),
                           dir, t.ret < 0)
  IN  Then(create_inode(s), LAMBDA c :
        Self(create_directory_entry([c EXCEPT !.inodes[c.ret].type = "dir"], c.ret, c.ret, "."),
             c.ret))

create_file(s, dir, filename) ==
  LET Entered(t, file) == IF t.ret < 0 THEN Fails(free_inode(t, file))
                          ELSE [save_bitmaps(save_inode(t, file)) EXCEPT !.ret = file]
  IN  Then(create_inode(s), LAMBDA c :
        Entered(create_directory_entry(c, dir, c.ret, filename), c.ret))

\* strncmp(entry->name, name, strlen(name)) == 0
Matches(e, name) == \/ e.name = name
                    \/ e.name = ".." /\ name = "."
                    \/ <<e.name, name>> \in Longer

\* name2inode_f(): the first entry that matches
name2inode_f(s, dir, name) ==
  LET e == Entries(s, dir)
      i == SelectInSeq(e, LAMBDA c : Matches(c, name))
  IN  IF i = 0 THEN -1 ELSE e[i].inode

\* name2inode_r(), a path being the sequence of its names
name2inode(s, dir, path) ==
  FoldLeft(LAMBDA d, name : IF d = -1 THEN -1 ELSE name2inode_f(s, d, name), dir, path)

\* Before its last name the path has come to a file.
LeadsThroughFile(s, dir, path) ==
  \E k \in 1..(Len(path) - 1) :
    LET id == name2inode(s, dir, SubSeq(path, 1, k))
    IN  id # -1 /\ s.inodes[id].type # "dir"

-----------------------------------------------------------------------------
(* The system calls. *)

\* fs_mkfs() on a drive that was never written
fs_mkfs ==
  LET blank == [inode_bmap |-> {}, dblk_bmap |-> {},
                inodes |-> [i \in Inodes |-> EmptyInode("file")],
                pos |-> [i \in Inodes |-> 0],
                open_count |-> [i \in Inodes |-> 0],
                disk |-> [inode_bmap |-> {}, dblk_bmap |-> {},
                          inodes |-> [i \in Inodes |-> EmptyInode("file")],
                          blocks |-> [b \in 0..(DATA_BLOCKS - 1) |->
                                        [o \in 0..(BLOCK_SIZE - 1) |-> Cell(-1, "")]]],
                ret |-> FSE_OK, met |-> {}, log |-> <<>>]
  IN  [create_directory(blank, -1) EXCEPT !.ret = FSE_OK, !.log = <<>>]

Init ==
  /\ fs = fs_mkfs
  /\ cwd = [p \in Procs |-> root_inode]
  /\ filedes = [p \in Procs |-> [fd \in Fds |-> NoFile]]
  /\ failure = NoFailure
  /\ calls = 0

\* The inodes that are open or a working directory
Held == {cwd[p] : p \in Procs}
          \cup ({filedes[p][fd].idx : p \in Procs, fd \in Fds} \ {-1})

\* A call ends in state s with these file descriptors, or the power fails after
\* one of its block writes.
Ends(s, files) ==
  LET freed == Held \cap (fs.inode_bmap \ s.inode_bmap) IN
  /\ Meets(s, "stale", freed # {}).met \subseteq Faults
  /\ \A i \in Inodes : s.inodes[i].nlinks <= MaxLinks
  /\ \/ /\ fs' = [s EXCEPT !.ret = FSE_OK, !.met = {}, !.log = <<>>]
        /\ filedes' = files
        /\ UNCHANGED failure
     \/ /\ \E k \in 1..(Len(s.log) - 1) : failure' = [drive |-> s.log[k], whole |-> s.disk]
        /\ UNCHANGED <<fs, filedes>>

\* p may use the path.
Walks(p, path) == LeadsThroughFile(fs, cwd[p], path) => "notdir" \in Faults

\* fs_open(filename, mode): mode says how the file is used and whether
\* MODE_CREAT is set; "/" opens the working directory.  The table of file
\* descriptors is not full.
fs_open(p, filename, mode, creat) ==
  LET free == {fd \in Fds : filedes[p][fd].mode = "unused"}
      Result(found) == IF found >= 0 THEN [fs EXCEPT !.ret = found]
                       ELSE IF creat THEN create_file(fs, cwd[p], filename) ELSE Fails(fs)
      Opened(s) == \/ s.ret < 0 /\ Ends(s, filedes)
                   \/ s.ret >= 0 /\ Ends([s EXCEPT !.pos[s.ret] = 0, !.open_count[s.ret] = @ + 1],
                                         [filedes EXCEPT ![p][Min(free)] =
                                            [mode |-> mode, idx |-> s.ret]])
  IN  /\ free # {}
      /\ Opened(Result(IF filename = "/" THEN cwd[p]
                       ELSE name2inode_f(fs, cwd[p], filename)))
      /\ UNCHANGED cwd

fs_close(p, fd) ==
  LET id == filedes[p][fd].idx IN
  /\ filedes[p][fd].mode # "unused"
  /\ Ends([fs EXCEPT !.pos[id] = 0, !.open_count[id] = @ - 1],
          [filedes EXCEPT ![p][fd] = NoFile])
  /\ UNCHANGED cwd

\* fs_lseek(fd, offset, whence).  resize_inode() gets offset and not pos, and
\* FSE_OK counts as its failure.
lseek(s, f, offset, whence) ==
  LET i == s.inodes[f.idx]
      pos == offset + CASE whence = "SEEK_SET" -> 0
                        [] whence = "SEEK_CUR" -> s.pos[f.idx]
                        [] whence = "SEEK_END" -> i.size
      Enlarged(r) == IF r.ret = FSE_OK THEN Fails(r) ELSE [r EXCEPT !.pos[f.idx] = pos]
  IN  IF pos <= i.size THEN [s EXCEPT !.pos[f.idx] = pos]
      ELSE IF f.mode = "rdonly" \/ pos > max_filesize THEN Fails(s)
      ELSE Enlarged(Meets(resize_inode(s, f.idx, offset), "dirwrite", i.type = "dir"))

fs_lseek(p, fd, offset, whence) ==
  /\ filedes[p][fd].mode # "unused"
  /\ Ends(lseek(fs, filedes[p][fd], offset, whence), filedes)
  /\ UNCHANGED cwd

fs_read(p, fd, size) ==
  LET f == filedes[p][fd] IN
  /\ f.mode \in {"rdonly", "rdwr"}
  /\ Ends(lseek(fs, f, Len(db_read(fs, f.idx, size, fs.pos[f.idx])), "SEEK_CUR"),
          filedes)
  /\ UNCHANGED cwd

\* The process writes `size' units of its own data.
fs_write(p, fd, size) ==
  LET f == filedes[p][fd]
      pos == fs.pos[f.idx]
      written == Max({0, Min({size, max_filesize - pos})})
  IN  /\ f.mode \in {"wronly", "rdwr"}
      /\ Ends(Then(Meets(db_write(fs, f.idx, [k \in 1..size |-> Cell(-1, p)], pos),
                         "dirwrite", fs.inodes[f.idx].type = "dir"),
                   LAMBDA w : lseek(w, f, written, "SEEK_CUR")), filedes)
      /\ UNCHANGED cwd

fs_mkdir(p, dirname) ==
  LET Entered(t, dir) == IF t.ret < 0 THEN free_inode(t, dir) ELSE t
  IN  /\ Ends(Then(create_directory(fs, cwd[p]), LAMBDA d :
                Entered(create_directory_entry(d, cwd[p], d.ret, dirname), d.ret)), filedes)
      /\ UNCHANGED cwd

fs_chdir(p, path) ==
  LET id == name2inode(fs, cwd[p], path) IN
  /\ id >= 0 /\ Walks(p, path) /\ fs.inodes[id].type = "dir"
  /\ cwd' = [cwd EXCEPT ![p] = id]
  /\ UNCHANGED <<fs, filedes, failure>>

fs_rmdir(p, path) ==
  LET parent_dir == name2inode(fs, cwd[p], Front(path))
      remove_dir == name2inode(fs, cwd[p], path)
  IN  /\ Last(path) \notin {".", ".."}
      /\ remove_dir >= 0 /\ parent_dir >= 0 /\ Walks(p, path)
      /\ fs.inodes[parent_dir].type = "dir" /\ fs.inodes[remove_dir].type = "dir"
      /\ Ends(remove_directory_entry(fs, parent_dir, remove_dir), filedes)
      /\ UNCHANGED cwd

fs_link(p, linkname, path) ==
  LET id == name2inode(fs, cwd[p], path) IN
  /\ id >= 0 /\ Walks(p, path) /\ fs.inodes[id].type # "dir"
  /\ Ends(create_directory_entry(fs, cwd[p], id, linkname), filedes)
  /\ UNCHANGED cwd

fs_unlink(p, linkname) ==
  LET id == name2inode_f(fs, cwd[p], linkname) IN
  /\ id >= 0
  /\ Ends(Meets(remove_directory_entry(fs, cwd[p], id), "self", linkname \in {".", ".."}),
          filedes)
  /\ UNCHANGED cwd

-----------------------------------------------------------------------------
(* Switching the machine off between two calls and on again. *)

\* load_inode() finds the inode corrupt.
Corrupt(s, id) ==
  LET i == s.inodes[id] IN
  \/ i.size > max_filesize
  \/ i.size > 0 /\ i.direct[0] \notin s.dblk_bmap

\* With more than one block it goes on to compare direct[BLOCK_SIZE], which is
\* not part of the inode.
StrayRead(s) == {id \in s.inode_bmap : s.inodes[id].size > BLOCK_SIZE}

\* fs_init() on a drive with a file system: memory is loaded from it, and the
\* inodes that are corrupt are freed.
fs_init(stray) ==
  LET l == load_bitmaps([fs EXCEPT
             !.inodes = [i \in Inodes |-> IF i \in fs.disk.inode_bmap
                           THEN fs.disk.inodes[i] ELSE EmptyInode("file")],
             !.pos = [i \in Inodes |-> 0], !.open_count = [i \in Inodes |-> 0]])
  IN  FoldLeft(LAMBDA s, i : IF i \in s.inode_bmap /\ (Corrupt(s, i) \/ i \in stray)
                             THEN free_inode(s, i) ELSE s,
               Meets(l, "stray", stray # {}), SetToSortSeq(Inodes, <))

Reboot ==
  /\ \E stray \in SUBSET StrayRead([fs EXCEPT !.inode_bmap = fs.disk.inode_bmap,
                                              !.inodes = fs.disk.inodes]) :
       LET s == fs_init(stray) IN
       /\ s.met \subseteq Faults
       /\ fs' = [s EXCEPT !.met = {}, !.log = <<>>]
  /\ cwd' = [p \in Procs |-> root_inode]
  /\ filedes' = [p \in Procs |-> [fd \in Fds |-> NoFile]]
  /\ UNCHANGED failure

-----------------------------------------------------------------------------
Dots == {".", ".."}

Paths == {<<a>> : a \in Names \cup Dots}
           \cup {<<a, b>> : a \in Names \cup Dots, b \in Names}

Call(p) ==
  \/ \E n \in Names \cup {"/"} :
       \/ \E mode \in {"rdonly", "wronly", "rdwr"} : fs_open(p, n, mode, FALSE)
       \/ \E mode \in {"wronly", "rdwr"} : fs_open(p, n, mode, TRUE)
  \/ \E n \in Names : fs_mkdir(p, n)
  \/ \E path \in Paths : fs_chdir(p, path) \/ fs_rmdir(p, path)
  \/ \E n \in Names, path \in Paths : fs_link(p, n, path)
  \/ \E n \in Names \cup Dots : fs_unlink(p, n)
  \/ \E fd \in Fds :
       \/ fs_close(p, fd)
       \/ \E n \in Sizes : fs_read(p, fd, n) \/ fs_write(p, fd, n)
       \/ \E o \in Offsets, whence \in {"SEEK_SET", "SEEK_CUR", "SEEK_END"} :
            fs_lseek(p, fd, o, whence)

Next ==
  /\ calls < MaxCalls /\ failure = NoFailure
  /\ calls' = calls + 1
  /\ Reboot \/ \E p \in Procs : Call(p)

Spec == Init /\ [][Next]_vars

-----------------------------------------------------------------------------
Used == fs.inode_bmap

BlocksOf(i) == Listed(fs.inodes[i].direct)

\* No data block belongs to two inodes or to one inode twice, and the bitmap
\* marks exactly the blocks that belong to one: nothing that is in use can be
\* given away and nothing that is free is lost.
BlocksExact ==
  /\ fs.dblk_bmap = UNION {BlocksOf(i) : i \in Used}
  /\ \A i, j \in Used, x, y \in Index :
       fs.inodes[i].direct[x] = fs.inodes[j].direct[y] /\ fs.inodes[i].direct[x] # -1
         => i = j /\ x = y

\* "size does not match datablocks" is how load_inode() knows a corrupted
\* inode: every block that holds some of the file is there and marked as used.
SizeMatchesBlocks ==
  \A i \in Used, x \in Index :
    x * BLOCK_SIZE < fs.inodes[i].size => fs.inodes[i].direct[x] \in fs.dblk_bmap

Dirs == {i \in Used : fs.inodes[i].type = "dir"}

EntrySet(d) == {<<d, k>> : k \in 1..Len(Entries(fs, d))}

\* All entries of all directories but the two each directory begins with
Links == UNION {{e \in EntrySet(d) : e[2] > 2} : d \in Dirs}

Target(e) == Entries(fs, e[1])[e[2]].inode

\* The directories are a tree: each begins with "." and "..", the latter names
\* the directory that has the entry for it, the root has none and every other
\* directory one; no entry names a free inode, and a file is freed exactly when
\* its last entry goes: nlinks counts them.
TreeExact ==
  /\ root_inode \in Dirs
  /\ \A d \in Dirs : /\ Len(Entries(fs, d)) >= 2
                     /\ Entries(fs, d)[1] = Cell(d, ".")
                     /\ Entries(fs, d)[2].name = ".."
  /\ \A e \in Links : Target(e) \in Used
  /\ \A i \in Used :
       LET n == {e \in Links : Target(e) = i} IN
       CASE i = root_inode -> n = {}
         [] i \in Dirs \ {root_inode} ->
              /\ Cardinality(n) = 1
              /\ \A e \in n : Entries(fs, i)[2].inode = e[1]
         [] OTHER -> n # {} /\ fs.inodes[i].nlinks = Cardinality(n)

\* What is on the drive is what is in memory whenever no call is under way:
\* no call leaves a bitmap or an inode that is in use unsaved.
Saved ==
  /\ fs.disk.inode_bmap = fs.inode_bmap /\ fs.disk.dblk_bmap = fs.dblk_bmap
  /\ \A i \in Used : fs.disk.inodes[i] = fs.inodes[i]

Contents(i) == Entries(fs, i)

\* The contents of a file change only while a file descriptor that may write to
\* it is open: creating, linking, removing and growing other files, and
\* switching the machine off, leave it as it is.
OthersUntouched ==
  [][\A i \in Used \ Dirs :
       i \in Used' /\ Contents(i)' # Contents(i) =>
         \E p \in Procs, fd \in Fds :
           filedes[p][fd].idx = i /\ filedes[p][fd].mode \in {"wronly", "rdwr"}]_vars

\* Inode i is in use on both drives, with the same blocks and the same data.
SameFile(d, e, i) ==
  /\ i \in e.inode_bmap /\ e.inodes[i] = d.inodes[i]
  /\ \A b \in Listed(d.inodes[i].direct) : b \in e.dblk_bmap /\ e.blocks[b] = d.blocks[b]

\* A power failure between two block writes of a call (save_bitmaps(),
\* save_inode() and db_write() do several) may spoil what the call works on,
\* and no more: every file and directory that the whole call would have left as
\* it was is on the drive as it was.
PowerFailureSpares ==
  failure # NoFailure =>
    \A i \in fs.disk.inode_bmap :
      SameFile(fs.disk, failure.whole, i) => SameFile(fs.disk, failure.drive, i)
=============================================================================
