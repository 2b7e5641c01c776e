-------------------------------- MODULE DzFS --------------------------------
(***************************************************************************)
(* dzFS (fs/dzfs.c) and the mounting of it by fs_init (fs/fs.c): a disk of *)
(* blocks, written one block at a time, with no log.                       *)
(*                                                                         *)
(* An operation is computed as the sequence of disks it goes through, one  *)
(* more for every write_block.  It runs with interrupts off, so nothing    *)
(* comes between its writes but a loss of power: then the disk stays as    *)
(* one of that sequence, and fs_init mounts it again.                      *)
(*                                                                         *)
(* The disk is small enough for one bitmap block (DZFS_BITSET_COVERED_     *)
(* BLOCKS is 32768; total_blocks() in fs.c is 17).                         *)
(***************************************************************************)
EXTENDS Integers, Sequences, FiniteSets, SequencesExt

CONSTANTS
  BLOCKS,                 \* blocks of the disk
  COVERED,                \* DZFS_BITSET_COVERED_BLOCKS
  BLOCK_SIZE,             \* DZFS_BLOCK_SIZE, in bytes
  DIRECT_BLOCKS,          \* pointers in a file dnode
  INDIRECT_BLOCK_COUNT,   \* pointers in an indirect block
  MAX_DIR_CONTENTS,
  Names,                  \* names of files and folders
  InitName,               \* "init", the program fs_init puts on the disk
  ProgLen,                \* userspace_prog_init_len
  MaxLen,                 \* bound: bytes written by one call
  MaxOps                  \* bound: operations and boots

ASSUME DzFSAssumption ==
  /\ BLOCKS \in Nat /\ BLOCKS > 4 /\ COVERED \in Nat /\ COVERED >= BLOCKS
  /\ {BLOCK_SIZE, DIRECT_BLOCKS, INDIRECT_BLOCK_COUNT, MAX_DIR_CONTENTS} \subseteq Nat \ {0}
  /\ InitName \in Names
  /\ {ProgLen, MaxLen, MaxOps} \subseteq Nat

VARIABLES
  disk,      \* disk[b]: what block b holds
  mounted,
  torn,      \* which operation a loss of power has torn apart, see Commit
  wrote,     \* wrote[d]: what file d should hold, see Written
  ops        \* operations so far

vars == <<disk, mounted, torn, wrote, ops>>

BOOT == 0
SUPERBLOCK_DNODE == 1
BITMAP == 2
root_dnode == 3
Block == 0 .. BLOCKS - 1
FirstData == root_dnode + 1
DZFS_MAX_FILESIZE == BLOCK_SIZE * (INDIRECT_BLOCK_COUNT + DIRECT_BLOCKS)

Raw(bytes) == [kind |-> "raw", bytes |-> bytes]
Zeroes == [k \in 0 .. BLOCK_SIZE - 1 |-> 0]
Junk == -1     \* a byte of a block that never held file data

(* A block read as file data: a dnode or a bitmap reads as junk.           *)
BytesOf(c) == IF c.kind = "raw" THEN c.bytes ELSE [k \in DOMAIN Zeroes |-> Junk]

NoPointers(n) == [k \in 0 .. n - 1 |-> 0]

FileBlock(name) ==
  [kind |-> "file", name |-> name, size |-> 0, indirect_block |-> 0,
   direct_blocks |-> NoPointers(DIRECT_BLOCKS)]

(* content_dnodes up to the zero that ends it.                             *)
FolderBlock(name, parent) ==
  [kind |-> "folder", name |-> name, parent |-> parent, content |-> << >>]

IndirectBlock(pointers) == [kind |-> "indirect", pointers |-> pointers]

Bitmap(free) == [kind |-> "bitmap", free |-> free]

-----------------------------------------------------------------------------
(* Disks an operation goes through.                                        *)

Put(h, b, c) == Append(h, [Last(h) EXCEPT ![b] = c])

Free(h) == Last(h)[BITMAP].free

(* block_alloc: the first free block, or 0.                                *)
FirstFreeBlock(h) ==
  IF Free(h) = {} THEN 0
  ELSE CHOOSE b \in Free(h) : \A c \in Free(h) : b <= c

(* Slip: the bitmap is not written back.                                   *)
MarkNothing(h, b) == h

(* block_alloc: the block is marked before anything points at it.          *)
MarkUsed(h, b) == Put(h, BITMAP, Bitmap(Free(h) \ {b}))

block_free(h, b) == Put(h, BITMAP, Bitmap(Free(h) \cup {b}))

-----------------------------------------------------------------------------
(* dzfs_new, for one bitmap block: the superblock first, then the bitmap   *)
(* (twice: the second time without the blocks past the end of the disk),   *)
(* then the root folder.                                                   *)
dzfs_new(h) ==
  LET h1 == Put(h, SUPERBLOCK_DNODE, [kind |-> "superblock"])
      h2 == Put(h1, BITMAP, Bitmap(FirstData .. COVERED - 1))
      h3 == Put(h2, BITMAP, Bitmap(FirstData .. BLOCKS - 1))
  IN  Put(h3, root_dnode, FolderBlock("/", root_dnode))

(* The search of dzfs_open_relative for one name, and folder_lookup_name.  *)
Lookup(d, folder, name) ==
  LET hits == {k \in DOMAIN d[folder].content : d[d[folder].content[k]].name = name}
  IN  IF hits = {} THEN 0 ELSE d[folder].content[CHOOSE k \in hits : \A j \in hits : k <= j]

(* dzfs_open_relative with DZFS_O_CREATE at the last part of the path,     *)
(* which is not there yet: allocate, link into the parent, write the       *)
(* dnode.  The dnode is 0 if it fails.                                     *)
Create(h, folder, name, dir) ==
  LET d == Last(h)
      dnode == FirstFreeBlock(h)
      h1 == MarkUsed(h, dnode)
      h2 == Put(h1, folder, [d[folder] EXCEPT !.content = Append(@, dnode)])
      h3 == Put(h2, dnode, IF dir THEN FolderBlock(name, folder) ELSE FileBlock(name))
  IN  IF Len(d[folder].content) = MAX_DIR_CONTENTS \/ dnode = 0
      THEN [h |-> h, dnode |-> 0]
      ELSE [h |-> h3, dnode |-> dnode]

-----------------------------------------------------------------------------
(* dzfs_write.                                                             *)

(* The byte a call with pattern v writes at position k of its buffer.      *)
Datum(v, k) == 10 * v + k

(* The pointer to the content block of index n, as the call has it in      *)
(* memory.                                                                 *)
Pointer(s, n) ==
  IF n >= DIRECT_BLOCKS THEN s.indirect[n - DIRECT_BLOCKS] ELSE s.file.direct_blocks[n]

(* The indirect block is allocated when the first pointer of it is needed. *)
WithIndirect(s, n) ==
  IF n < DIRECT_BLOCKS \/ s.file.indirect_block # 0 THEN s
  ELSE LET b == FirstFreeBlock(s.h)
       IN  IF b = 0 THEN [s EXCEPT !.ok = FALSE]
           ELSE [s EXCEPT !.file.indirect_block = b, !.h = MarkUsed(s.h, b)]

(* get_or_allocate_block                                                   *)
WithContent(s, n) ==
  IF ~s.ok \/ Pointer(s, n) # 0 THEN s
  ELSE LET b == FirstFreeBlock(s.h)
           marked == [s EXCEPT !.h = MarkUsed(s.h, b)]
       IN  IF b = 0 THEN [s EXCEPT !.ok = FALSE]
           ELSE IF n >= DIRECT_BLOCKS
           THEN [marked EXCEPT !.indirect[n - DIRECT_BLOCKS] = b]
           ELSE [marked EXCEPT !.file.direct_blocks[n] = b]

(* Slip: a block that is written in part is never read before.             *)
BufferKept(s, b) == s.buf

(* What data_block holds before the new bytes go in: the block is read     *)
(* unless the offset is 0.                                                 *)
BufferFor(s, b) == IF s.offset > 0 THEN BytesOf(Last(s.h)[b]) ELSE s.buf

WriteStep(s, v) ==
  LET n == s.offset \div BLOCK_SIZE
      raw == s.offset % BLOCK_SIZE
      t == WithContent(WithIndirect(s, n), n)
      b == Pointer(t, n)
      chunk == IF BLOCK_SIZE - raw < s.left THEN BLOCK_SIZE - raw ELSE s.left
      buf == [k \in DOMAIN Zeroes |->
                IF raw <= k /\ k < raw + chunk THEN Datum(v, s.done + k - raw)
                ELSE BufferFor(t, b)[k]]
  IN  IF ~t.ok THEN t
      ELSE [t EXCEPT !.h = Put(t.h, b, Raw(buf)), !.buf = buf,
                     !.offset = @ + chunk, !.left = @ - chunk, !.done = @ + chunk]

(* The loop of dzfs_write; every turn but the last fills a block.          *)
WriteLoop(start, v) ==
  LET loop[n \in 0 .. DIRECT_BLOCKS + INDIRECT_BLOCK_COUNT] ==
        IF n = 0 THEN start
        ELSE LET s == loop[n - 1]
             IN  IF s.left = 0 \/ ~s.ok THEN s ELSE WriteStep(s, v)
  IN  loop[DIRECT_BLOCKS + INDIRECT_BLOCK_COUNT]

dzfs_write(h, dnode, v, size, offset) ==
  LET d == Last(h)
      file == d[dnode]
      indirect == IF file.indirect_block = 0 THEN NoPointers(INDIRECT_BLOCK_COUNT)
                  ELSE d[file.indirect_block].pointers
      s == WriteLoop([h |-> h, file |-> file, indirect |-> indirect, buf |-> Zeroes,
                      offset |-> offset, left |-> size, done |-> 0, ok |-> TRUE], v)
      h1 == IF s.file.indirect_block = 0 THEN s.h
            ELSE Put(s.h, s.file.indirect_block, IndirectBlock(s.indirect))
      h2 == Put(h1, dnode, [s.file EXCEPT !.size = @ + size])
  IN  IF file.kind # "file" \/ size + offset > DZFS_MAX_FILESIZE \/ offset > file.size
      THEN [h |-> h, ok |-> FALSE]
      ELSE [h |-> IF s.ok THEN h2 ELSE s.h, ok |-> s.ok]

(* dzfs_read: a pointer that is 0 reads the block of the boot loader.      *)
dzfs_read(d, dnode, size, offset) ==
  LET file == d[dnode]
      block(o) == LET n == o \div BLOCK_SIZE
                  IN  IF n < DIRECT_BLOCKS THEN file.direct_blocks[n]
                      ELSE IF file.indirect_block = 0 THEN 0
                      ELSE d[file.indirect_block].pointers[n - DIRECT_BLOCKS]
      len == IF offset >= file.size THEN 0
             ELSE IF file.size - offset < size THEN file.size - offset ELSE size
  IN  [k \in 1 .. len |-> BytesOf(d[block(offset + k - 1)])[(offset + k - 1) % BLOCK_SIZE]]

-----------------------------------------------------------------------------
(* dzfs_delete                                                             *)

(* The pointers up to the first that is 0: the loops that free stop there. *)
Leading(pointers) ==
  LET n == Cardinality({k \in DOMAIN pointers : \A j \in 0 .. k : pointers[j] # 0})
  IN  [k \in 1 .. n |-> pointers[k - 1]]

(* The content blocks of a file, those of the indirect block first.        *)
ContentBlocks(d, file) ==
  (IF file.indirect_block = 0 THEN << >> ELSE Leading(d[file.indirect_block].pointers))
    \o Leading(file.direct_blocks)

(* folder_remove_content: the last entry fills the gap.                    *)
WithoutEntry(content, dnode) ==
  LET k == CHOOSE k \in DOMAIN content :
             content[k] = dnode /\ \A j \in 1 .. k - 1 : content[j] # dnode
  IN  Front([content EXCEPT ![k] = Last(content)])

Deletable(d, dnode) ==
  /\ dnode # root_dnode
  /\ d[dnode].kind = "folder" => d[dnode].content = << >>

dzfs_delete(h, dnode, parent) ==
  LET d == Last(h)
      h1 == IF d[dnode].kind = "folder" THEN h
            ELSE FoldLeft(block_free, h, ContentBlocks(d, d[dnode]))
      h2 == Put(h1, parent, [d[parent] EXCEPT !.content = WithoutEntry(@, dnode)])
  IN  block_free(h2, dnode)

(* dzfs_move to another folder or to another name.  An entry of that name  *)
(* in the new folder is deleted first.                                     *)
dzfs_move(h, dnode, old_parent, new_parent, name) ==
  LET victim == Lookup(Last(h), new_parent, name)
      h1 == IF victim = 0 THEN h ELSE dzfs_delete(h, victim, new_parent)
      h2 == Put(h1, new_parent,
                [Last(h1)[new_parent] EXCEPT !.content = Append(@, dnode)])
      h3 == Put(h2, old_parent,
                [Last(h2)[old_parent] EXCEPT !.content = WithoutEntry(@, dnode)])
  IN  IF victim # 0 /\ ~Deletable(Last(h), victim) THEN h
      ELSE IF Len(Last(h1)[new_parent].content) = MAX_DIR_CONTENTS THEN h1
      ELSE Put(h3, dnode, [Last(h)[dnode] EXCEPT !.name = name])

-----------------------------------------------------------------------------
(* The tree on a disk.                                                     *)

Tree(d) ==
  LET reach[n \in 0 .. BLOCKS] ==
        IF n = 0 THEN {root_dnode}
        ELSE LET s == reach[n - 1]
             IN  s \cup UNION {Range(d[b].content) : b \in {f \in s : d[f].kind = "folder"}}
  IN  reach[BLOCKS]

Folders(d) == {b \in Tree(d) : d[b].kind = "folder"}

Files(d) == {b \in Tree(d) : d[b].kind = "file"}

(* The folders at and below b.                                             *)
Below(d, b) ==
  LET reach[n \in 0 .. BLOCKS] ==
        IF n = 0 THEN {b}
        ELSE LET s == reach[n - 1]
             IN  s \cup UNION {Range(d[f].content) : f \in {g \in s : d[g].kind = "folder"}}
  IN  reach[BLOCKS]

-----------------------------------------------------------------------------
(* Steps.                                                                  *)

(* The operation completes, or power fails before its last write.  A loss  *)
(* of power tears the operation if it comes when the disks numbered Window *)
(* are on the disk.                                                        *)
Commit(h, what, Window) ==
  /\ ops < MaxOps
  /\ ops' = ops + 1
  /\ \E k \in DOMAIN h :
       /\ disk' = h[k]
       /\ mounted' = (k = Len(h))
       /\ torn' = IF k < Len(h) /\ k \in Window THEN what ELSE torn

(* The reference for a file: the bytes it should hold, and whether they    *)
(* came by appending only, by overwriting too, or are lost because a call  *)
(* that overwrites failed or was cut short.                                *)
Fresh == [bytes |-> << >>, how |-> "append"]

Overlay(bytes, v, size, offset) ==
  LET end == IF offset + size > Len(bytes) THEN offset + size ELSE Len(bytes)
  IN  [k \in 1 .. end |-> IF offset < k /\ k <= offset + size
                          THEN Datum(v, k - 1 - offset) ELSE bytes[k]]

Written(ref, v, size, offset, done) ==
  LET appends == offset = Len(ref.bytes)
  IN  IF done /\ offset <= Len(ref.bytes)
      THEN [bytes |-> Overlay(ref.bytes, v, size, offset),
            how |-> IF appends THEN ref.how
                    ELSE IF ref.how = "append" THEN "overwrite" ELSE ref.how]
      ELSE IF appends THEN ref ELSE [ref EXCEPT !.how = "lost"]

Ready == mounted /\ torn = "none"

(* fs_mkdir, and fs_open with DZFS_O_CREATE, of a new name.                *)
CreateEntry(folder, name, dir) ==
  /\ Ready
  /\ folder \in Folders(disk)
  /\ Lookup(disk, folder, name) = 0
  /\ LET c == Create(<<disk>>, folder, name, dir)
     IN  /\ Commit(c.h, "create", {3})
         /\ wrote' = IF c.dnode = 0 THEN wrote ELSE [wrote EXCEPT ![c.dnode] = Fresh]

(* fs_write                                                                *)
WriteFile(dnode, v, size, offset) ==
  /\ Ready
  /\ dnode \in Files(disk)
  /\ offset <= disk[dnode].size + 1
  /\ LET w == dzfs_write(<<disk>>, dnode, v, size, offset)
     IN  /\ Commit(w.h, "write", {})
         /\ wrote' = [wrote EXCEPT ![dnode] = Written(@, v, size, offset, w.ok /\ mounted')]

(* fs_delete                                                               *)
DeleteEntry(folder, dnode) ==
  /\ Ready
  /\ folder \in Folders(disk)
  /\ dnode \in Range(disk[folder].content)
  /\ Deletable(disk, dnode)
  /\ LET h == dzfs_delete(<<disk>>, dnode, folder)
     IN  Commit(h, "delete", 2 .. Len(h) - 2)
  /\ UNCHANGED wrote

(* dzfs_move has no caller yet (fs_rename panics); it does not look where  *)
(* in the tree the folders are, so this caller keeps a folder from being   *)
(* moved below itself.                                                     *)
MoveEntry(dnode, old_parent, new_parent, name) ==
  /\ Ready
  /\ old_parent \in Folders(disk) /\ new_parent \in Folders(disk)
  /\ dnode \in Range(disk[old_parent].content)
  /\ new_parent \notin Below(disk, dnode)
  /\ old_parent # new_parent \/ name # disk[dnode].name
  /\ LET h == dzfs_move(<<disk>>, dnode, old_parent, new_parent, name)
     IN  Commit(h, "move", 2 .. Len(h))
  /\ UNCHANGED wrote

(* Power fails between operations, or the machine is switched off.         *)
PowerOff ==
  /\ mounted
  /\ mounted' = FALSE
  /\ UNCHANGED <<disk, torn, wrote, ops>>

(* fs_init: make a file system unless there is a superblock, then write    *)
(* the /init program to it again.                                          *)
fs_init(v) ==
  /\ ~mounted
  /\ torn = "none"
  /\ LET fresh == disk[SUPERBLOCK_DNODE].kind # "superblock"
         h1 == IF fresh THEN dzfs_new(<<disk>>) ELSE <<disk>>
         found == Lookup(Last(h1), root_dnode, InitName)
         c == IF found # 0 THEN [h |-> h1, dnode |-> found]
              ELSE Create(h1, root_dnode, InitName, FALSE)
         w == dzfs_write(c.h, c.dnode, v, ProgLen, 0)
     IN  /\ Commit(w.h, IF fresh THEN "format" ELSE "create",
                   (IF fresh THEN 2 .. Len(h1) - 1 ELSE {})
                     \cup (IF found # 0 \/ c.dnode = 0 THEN {} ELSE {Len(c.h) - 1}))
         /\ wrote' = IF c.dnode = 0 THEN wrote
                     ELSE [wrote EXCEPT ![c.dnode] =
                             Written(IF found = 0 THEN Fresh ELSE @, v, ProgLen, 0,
                                     w.ok /\ mounted')]

(* A file system that was torn is mounted all the same.                    *)
MountTorn ==
  /\ ~mounted
  /\ torn # "none"
  /\ disk[SUPERBLOCK_DNODE].kind = "superblock"
  /\ mounted' = TRUE
  /\ UNCHANGED <<disk, torn, wrote, ops>>

-----------------------------------------------------------------------------
Init ==
  /\ disk = [b \in Block |-> Raw(Zeroes)]
  /\ mounted = FALSE
  /\ torn = "none"
  /\ wrote = [b \in Block |-> Fresh]
  /\ ops = 0

Next ==
  \/ \E folder \in Block, name \in Names, dir \in BOOLEAN : CreateEntry(folder, name, dir)
  \/ \E dnode \in Block, v \in {1, 2}, size \in 1 .. MaxLen, offset \in 0 .. DZFS_MAX_FILESIZE :
       WriteFile(dnode, v, size, offset)
  \/ \E folder, dnode \in Block : DeleteEntry(folder, dnode)
  \/ \E dnode, old, new \in Block, name \in Names : MoveEntry(dnode, old, new, name)
  \/ PowerOff
  \/ \E v \in {1, 2} : fs_init(v)
  \/ MountTorn

Spec == Init /\ [][Next]_vars

-----------------------------------------------------------------------------
(* The blocks hold what their place says, and the bitmap names blocks of   *)
(* the disk only (dzfs.h:40-128).                                          *)
TypeOK ==
  /\ \A b \in Block :
       disk[b].kind \in {"raw", "superblock", "bitmap", "file", "folder", "indirect"}
  /\ mounted \in BOOLEAN
  /\ torn \in {"none", "format", "create", "delete", "move"}
  /\ ops \in 0 .. MaxOps
  /\ mounted /\ torn = "none" =>
       /\ disk[BITMAP].kind = "bitmap" /\ disk[BITMAP].free \subseteq FirstData .. BLOCKS - 1
       /\ disk[root_dnode].kind = "folder"

(* Every pointer on the disk that is not null, with the place it is in.    *)
Pointers(d) ==
  UNION ({{<<f, "entry", k, d[f].content[k]>> : k \in DOMAIN d[f].content} : f \in Folders(d)}
    \cup {{<<f, "direct", k, d[f].direct_blocks[k]>> :
             k \in {j \in DOMAIN d[f].direct_blocks : d[f].direct_blocks[j] # 0}} : f \in Files(d)}
    \cup {{<<f, "indirect", 0, d[f].indirect_block>>} :
             f \in {g \in Files(d) : d[g].indirect_block # 0}}
    \cup {{<<f, "through", k, d[d[f].indirect_block].pointers[k]>> :
             k \in {j \in 0 .. INDIRECT_BLOCK_COUNT - 1 : d[d[f].indirect_block].pointers[j] # 0}} :
             f \in {g \in Files(d) : d[g].indirect_block # 0}})

(* The structure of the disk: a block has one owner, it is marked as used  *)
(* in the bitmap, and what a folder lists are dnodes.                      *)
Consistent(d) ==
  /\ \A x, y \in Pointers(d) : x[4] = y[4] => x = y
  /\ \A x \in Pointers(d) : x[4] \in FirstData .. BLOCKS - 1 /\ x[4] \notin d[BITMAP].free
  /\ \A b \in Tree(d) : d[b].kind \in {"file", "folder"}

(* Whatever is created, written, deleted and moved, and wherever power     *)
(* fails during a write or an allocation, the structure holds: block_alloc *)
(* marks before anything points (dzfs.c:101), dzfs_write links last (573). *)
(* Power may break it only between the two writes of a creation (468-469), *)
(* while a deletion frees blocks of a file still linked (667-698), in a    *)
(* move and in dzfs_new.                                                   *)
StructureKept == torn = "none" /\ disk[SUPERBLOCK_DNODE].kind = "superblock" => Consistent(disk)

(* A file that was only ever appended to reads back as it was written,     *)
(* through the direct and the indirect blocks, after other calls that      *)
(* failed for want of space, lost power or recycled blocks.                *)
ReadBack ==
  torn = "none" =>
    \A f \in Files(disk) :
      wrote[f].how = "append" =>
        dzfs_read(disk, f, DZFS_MAX_FILESIZE, 0) = wrote[f].bytes

(* No folder lists two entries of one name: lookups (424-436) and deletes  *)
(* by path mean one file.                                                  *)
NamesUnique ==
  torn = "none" =>
    \A f \in Folders(disk) :
      \A j, k \in DOMAIN disk[f].content :
        disk[disk[f].content[j]].name = disk[disk[f].content[k]].name => j = k

(* After every call and at every boot, outside the four windows, the disk  *)
(* is one file system: typed, its pointers and its bitmap consistent, its  *)
(* names unique (the order of the writes in dzfs.c).                       *)
DiskConsistent == TypeOK /\ StructureKept /\ NamesUnique
=============================================================================
