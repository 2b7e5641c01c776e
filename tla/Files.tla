------------------------------- MODULE Files -------------------------------
(***************************************************************************)
(* The file descriptors of the processes (fs/file.c, fs/syscall.c), the    *)
(* table of inodes in memory that they and the working directories share   *)
(* (fs/fs.c), and what proc_exec and proc_exit do to them.                 *)
(*                                                                         *)
(* The disk below is as much of dzFS (module DzFS) as the inodes depend    *)
(* on: which path leads to which dnode, its kind and its size.  Paths are  *)
(* absolute and of one part.  A write that dzFS refuses changes nothing    *)
(* here.                                                                   *)
(*                                                                         *)
(* System calls run with interrupts off: each is one step of the process   *)
(* that has the CPU, and any live process may be the one.  Calls that      *)
(* return an error and change nothing are left out.                        *)
(***************************************************************************)
EXTENDS Integers, FiniteSets

CONSTANTS
  Proc,            \* processes
  Boot,            \* the ones userspace_init starts
  NONE,            \* no inode, no dnode
  Path,            \* names in the root folder
  InitPath,        \* "/init"
  Dnode,           \* dnodes of the entries of the root folder
  ROOT,            \* dnode of the root folder
  MAX_INODES,
  MAX_OPEN_FILES,
  OFFSET_MOD,      \* 2^32: width of an offset, scaled down
  MaxSize,         \* bound: file size
  MaxLen,          \* bound: bytes of one read or write
  MaxCalls         \* bound: system calls

ASSUME FilesAssumption ==
  /\ Boot \subseteq Proc /\ Boot # {} /\ IsFiniteSet(Proc)
  /\ InitPath \in Path /\ IsFiniteSet(Path)
  /\ ROOT \notin Dnode /\ NONE \notin Dnode \cup {ROOT} /\ Dnode # {}
  /\ MAX_INODES \in Nat \ {0} /\ NONE \notin 1 .. MAX_INODES
  /\ MAX_OPEN_FILES \in Nat /\ MAX_OPEN_FILES > 3
  /\ {OFFSET_MOD, MaxSize, MaxLen, MaxCalls} \subseteq Nat /\ MaxSize < OFFSET_MOD
  /\ MaxSize > 0 /\ Cardinality(Path) < OFFSET_MOD

VARIABLES
  entry,      \* entry[q]: the dnode of path q, or NONE
  node,       \* node[d]: the dnode block d, also after it was freed
  inodes,     \* fs_inode_list.inodes
  alive,      \* the processes there are
  fds,        \* fds[p]: open_files
  cwd,        \* cwd[p]: working_directory
  leaked,     \* leaked[i]: references to inode i of processes that ended
  unlinked,   \* inodes in use whose file was deleted
  calls

disk == <<entry, node>>
vars == <<disk, inodes, alive, fds, cwd, leaked, unlinked, calls>>

Inode == 1 .. MAX_INODES

(* sys_close and sys_lseek also let MAX_OPEN_FILES pass.  What they find   *)
(* behind the array is the low word of initial_data_segment, which is a    *)
(* multiple of the page size (exec.c:331): as a type it is FD_EMPTY or     *)
(* none of the enum, and both calls return -1 and change nothing.          *)
Fd == 0 .. MAX_OPEN_FILES - 1

Std == 0 .. 2     \* DEFAULT_STDIN, DEFAULT_STDOUT, DEFAULT_STDERR

EmptyInode == [type |-> "EMPTY", dnode |-> NONE, size |-> 0, reference_count |-> 0]

EmptyFd == [type |-> "EMPTY", inode |-> NONE, offset |-> 0, readble |-> FALSE, writable |-> FALSE]

DeviceFd == [EmptyFd EXCEPT !.type = "DEVICE"]

(* The descriptors a process is born with (exec.c:308-328).                *)
StdFds == [fd \in Fd |-> IF fd \in Std THEN DeviceFd ELSE EmptyFd]

Linked == {entry[q] : q \in Path} \ {NONE}

-----------------------------------------------------------------------------
(* The calls to dzFS.                                                      *)

(* dzfs_stat: the size of a file, the number of entries of a folder (only  *)
(* the root folder has entries here).                                      *)
Kind(d, nodes) == IF d = ROOT THEN "DIRECTORY" ELSE nodes[d].kind

Stat(d, entries, nodes) ==
  IF d = ROOT THEN Cardinality({q \in Path : entries[q] # NONE}) ELSE nodes[d].size

(* dzfs_open_absolute of "/", of a path that is there, and of a new one;   *)
(* DZFS_O_DIR only says what to create.                                    *)
OpenRoot(d) == d = ROOT /\ UNCHANGED disk

OpenPath(path, d) == d = entry[path] /\ d # NONE /\ UNCHANGED disk

CreatePath(path, kind, d) ==
  /\ entry[path] = NONE
  /\ d \in Dnode \ Linked
  /\ entry' = [entry EXCEPT ![path] = d]
  /\ node' = [node EXCEPT ![d] = [kind |-> kind, size |-> 0]]

-----------------------------------------------------------------------------
(* fs.c: the inodes.                                                       *)

Cached(d) == {i \in Inode : inodes[i].type # "EMPTY" /\ inodes[i].dnode = d}

FreeInodes == {i \in Inode : inodes[i].type = "EMPTY"}

(* Slip: an inode of this dnode that is there already is not found.        *)
ChooseFresh(d) ==
  IF FreeInodes # {} THEN CHOOSE i \in FreeInodes : \A j \in FreeInodes : j <= i ELSE NONE

(* The inode fs_open settles on: the first of this dnode, else the last    *)
(* free one, else none.                                                    *)
ChooseInode(d) ==
  IF Cached(d) # {} THEN CHOOSE i \in Cached(d) : \A j \in Cached(d) : i <= j
  ELSE IF FreeInodes # {} THEN CHOOSE i \in FreeInodes : \A j \in FreeInodes : j <= i
  ELSE NONE

(* The inodes after fs_open of dnode d.  A free inode is filled with what  *)
(* is on the disk after the call, one in use is not looked at again.       *)
fs_open(d, entries, nodes) ==
  LET i == ChooseInode(d)
  IN  IF i = NONE THEN inodes
      ELSE IF inodes[i].type # "EMPTY"
      THEN [inodes EXCEPT ![i].reference_count = @ + 1]
      ELSE [inodes EXCEPT ![i] = [type |-> Kind(d, nodes), dnode |-> d,
                                  size |-> Stat(d, entries, nodes), reference_count |-> 1]]

fs_dup(i) == [inodes EXCEPT ![i].reference_count = @ + 1]

(* Slip: the inode is emptied while somebody still refers to it.           *)
ReleaseEarly(ino, n) ==
  IF n > 0 /\ ino.reference_count <= n + 1 THEN EmptyInode
  ELSE [ino EXCEPT !.reference_count = @ - n]

(* n times fs_close.                                                       *)
Release(ino, n) ==
  IF n > 0 /\ ino.reference_count = n THEN EmptyInode
  ELSE [ino EXCEPT !.reference_count = @ - n]

fs_close(table, i) == [table EXCEPT ![i] = Release(@, 1)]

(* An inode that was emptied has no deleted file any more.                 *)
StillUnlinked == unlinked' = {i \in unlinked : inodes'[i].type # "EMPTY"}

-----------------------------------------------------------------------------
(* The system calls.                                                       *)

Call(p) == p \in alive /\ calls < MaxCalls /\ calls' = calls + 1

(* proc_allocate_fd                                                        *)
FirstEmpty(p, fd) == fds[p][fd].type = "EMPTY" /\ \A e \in 0 .. fd - 1 : fds[p][e].type # "EMPTY"

(* file_open after dzFS has found or made dnode d.  Without a free inode   *)
(* the call fails; a file that was made stays.                             *)
OpenedAs(p, fd, d, wronly, rdwr) ==
  /\ inodes' = fs_open(d, entry', node')
  /\ fds' = IF ChooseInode(d) = NONE THEN fds
            ELSE [fds EXCEPT ![p][fd] =
                    [type |-> "INODE", inode |-> ChooseInode(d), offset |-> 0,
                     readble |-> ~wronly, writable |-> wronly \/ rdwr]]

SysOpen(p, path, create, kind, wronly, rdwr) ==
  /\ Call(p)
  /\ \E fd \in Fd, d \in Dnode :
       /\ FirstEmpty(p, fd)
       /\ OpenPath(path, d) \/ (create /\ CreatePath(path, kind, d))
       /\ OpenedAs(p, fd, d, wronly, rdwr)
  /\ UNCHANGED <<alive, cwd, leaked, unlinked>>

SysOpenRoot(p) ==
  /\ Call(p)
  /\ \E fd \in Fd :
       /\ FirstEmpty(p, fd)
       /\ OpenRoot(ROOT)
       /\ OpenedAs(p, fd, ROOT, FALSE, FALSE)
  /\ UNCHANGED <<alive, cwd, leaked, unlinked>>

(* sys_open with O_DEVICE: a descriptor that sys_close never gives back.   *)
SysOpenDevice(p) ==
  /\ Call(p)
  /\ \E fd \in Fd : FirstEmpty(p, fd) /\ fds' = [fds EXCEPT ![p][fd] = DeviceFd]
  /\ UNCHANGED <<disk, inodes, alive, cwd, leaked, unlinked>>

SysClose(p, fd) ==
  /\ Call(p)
  /\ fds[p][fd].type = "INODE"
  /\ inodes' = fs_close(inodes, fds[p][fd].inode)
  /\ fds' = [fds EXCEPT ![p][fd] = EmptyFd]
  /\ StillUnlinked
  /\ UNCHANGED <<disk, alive, cwd, leaked>>

Greater(a, b) == IF a > b THEN a ELSE b

(* Slip: the inode learns of the length of the write, not of its place.    *)
SizeAfterLength(ino, offset, len) == ino.size + len + 1

(* The size fs_write keeps in the inode.                                   *)
SizeAfterWrite(ino, offset, len) == Greater(ino.size, offset + len)

(* sys_write to a file, when dzfs_write accepts it: it adds the length to  *)
(* the size of the dnode wherever the bytes go.                            *)
SysWrite(p, fd, len) ==
  /\ Call(p)
  /\ fds[p][fd].type = "INODE" /\ fds[p][fd].writable
  /\ LET i == fds[p][fd].inode
         d == inodes[i].dnode
         offset == fds[p][fd].offset
     IN  /\ d # ROOT /\ node[d].kind = "FILE"
         /\ offset <= node[d].size
         /\ node[d].size + len <= MaxSize
         /\ node' = [node EXCEPT ![d].size = @ + len]
         /\ inodes' = [inodes EXCEPT ![i].size = SizeAfterWrite(inodes[i], offset, len)]
         /\ fds' = [fds EXCEPT ![p][fd].offset = offset + len]
  /\ UNCHANGED <<entry, alive, cwd, leaked, unlinked>>

(* sys_read of a file: the disk says where it ends.                        *)
SysRead(p, fd, len) ==
  /\ Call(p)
  /\ fds[p][fd].type = "INODE" /\ fds[p][fd].readble
  /\ LET d == inodes[fds[p][fd].inode].dnode
         offset == fds[p][fd].offset
     IN  /\ d # ROOT /\ node[d].kind = "FILE"
         /\ offset < node[d].size
         /\ fds' = [fds EXCEPT ![p][fd].offset =
                      offset + (IF node[d].size - offset < len THEN node[d].size - offset ELSE len)]
  /\ UNCHANGED <<disk, inodes, alive, cwd, leaked, unlinked>>

(* sys_readdir: n entries fit in the buffer.                               *)
SysReadDir(p, fd, n) ==
  /\ Call(p)
  /\ fds[p][fd].type = "INODE"
  /\ LET i == fds[p][fd].inode
     IN  /\ inodes[i].type = "DIRECTORY"
         /\ Kind(inodes[i].dnode, node) = "DIRECTORY"
         /\ fds[p][fd].offset + n <= Stat(inodes[i].dnode, entry, node)
  /\ fds' = [fds EXCEPT ![p][fd].offset = @ + n]
  /\ UNCHANGED <<disk, inodes, alive, cwd, leaked, unlinked>>

(* file_seek: the sums wrap around, what is past the end is the end.       *)
Seek(offset, size, to, whence) ==
  LET n == CASE whence = "SET" -> to % OFFSET_MOD
             [] whence = "CUR" -> (offset + to) % OFFSET_MOD
             [] whence = "END" -> (size - to) % OFFSET_MOD
  IN  IF n > size THEN size ELSE n

SysSeek(p, fd, to, whence) ==
  /\ Call(p)
  /\ fds[p][fd].type = "INODE"
  /\ fds' = [fds EXCEPT ![p][fd].offset =
               Seek(@, inodes[fds[p][fd].inode].size, to, whence)]
  /\ UNCHANGED <<disk, inodes, alive, cwd, leaked, unlinked>>

SysMkdir(p, path) ==
  /\ Call(p)
  /\ \E d \in Dnode : CreatePath(path, "DIRECTORY", d)
  /\ UNCHANGED <<inodes, alive, fds, cwd, leaked, unlinked>>

(* sys_unlink: fs_delete does not look at the inodes.                      *)
SysUnlink(p, path) ==
  /\ Call(p)
  /\ entry[path] # NONE
  /\ entry' = [entry EXCEPT ![path] = NONE]
  /\ unlinked' = unlinked \cup Cached(entry[path])
  /\ UNCHANGED <<node, inodes, alive, fds, cwd, leaked>>

(* sys_chdir, to "/" or to an entry of it.                                 *)
SysChdir(p, d) ==
  /\ Call(p)
  /\ d = ROOT \/ d \in Linked
  /\ ChooseInode(d) # NONE
  /\ inodes' = fs_close(fs_open(d, entry, node), cwd[p])
  /\ cwd' = [cwd EXCEPT ![p] = ChooseInode(d)]
  /\ StillUnlinked
  /\ UNCHANGED <<disk, alive, fds, leaked>>

(* proc_exec: the inode of the program is opened, read and closed again;   *)
(* the child shares the working directory of its parent.                   *)
SysExec(p, child, path) ==
  /\ Call(p)
  /\ child \in Proc \ alive
  /\ entry[path] # NONE
  /\ node[entry[path]].kind = "FILE"
  /\ ChooseInode(entry[path]) # NONE
  /\ inodes' = fs_dup(cwd[p])
  /\ fds' = [fds EXCEPT ![child] = StdFds]
  /\ cwd' = [cwd EXCEPT ![child] = cwd[p]]
  /\ alive' = alive \cup {child}
  /\ UNCHANGED <<disk, leaked, unlinked>>

(* Slip: the open files stay open.                                         *)
FilesKept(p) == inodes

OpenOn(p, i) == {fd \in Fd : fds[p][fd].type = "INODE" /\ fds[p][fd].inode = i}

(* proc_exit closes the open files ...                                     *)
FilesClosed(p) == [i \in Inode |-> Release(inodes[i], Cardinality(OpenOn(p, i)))]

(* ... and not the working directory.                                      *)
SysExit(p) ==
  /\ Call(p)
  /\ inodes' = FilesClosed(p)
  /\ leaked' = [leaked EXCEPT ![cwd[p]] = @ + 1]
  /\ fds' = [fds EXCEPT ![p] = StdFds]
  /\ cwd' = [cwd EXCEPT ![p] = NONE]
  /\ alive' = alive \ {p}
  /\ StillUnlinked
  /\ UNCHANGED disk

(* Nobody is left: the machine is switched off.  Or the bound is reached.  *)
Off == (alive = {} \/ calls = MaxCalls) /\ UNCHANGED vars

-----------------------------------------------------------------------------
(* userspace_init has run: /init is on the disk, and the root folder is    *)
(* the working directory of its processes.                                 *)
Init ==
  /\ \E d \in Dnode :
       /\ entry = [q \in Path |-> IF q = InitPath THEN d ELSE NONE]
       /\ node = [e \in Dnode |-> [kind |-> "FILE", size |-> IF e = d THEN 1 ELSE 0]]
  /\ inodes = [i \in Inode |->
                 IF i # MAX_INODES THEN EmptyInode
                 ELSE [type |-> "DIRECTORY", dnode |-> ROOT, size |-> 1,
                       reference_count |-> Cardinality(Boot)]]
  /\ alive = Boot
  /\ fds = [p \in Proc |-> StdFds]
  /\ cwd = [p \in Proc |-> IF p \in Boot THEN MAX_INODES ELSE NONE]
  /\ leaked = [i \in Inode |-> 0]
  /\ unlinked = {}
  /\ calls = 0

Next ==
  \/ \E p \in Proc, path \in Path, create \in BOOLEAN, kind \in {"FILE", "DIRECTORY"},
        mode \in {<<FALSE, FALSE>>, <<TRUE, FALSE>>, <<FALSE, TRUE>>} :
       SysOpen(p, path, create, kind, mode[1], mode[2])
  \/ \E p \in Proc : SysOpenRoot(p)
  \/ \E p \in Proc : SysOpenDevice(p)
  \/ \E p \in Proc, fd \in Fd : SysClose(p, fd)
  \/ \E p \in Proc, fd \in Fd, len \in 1 .. MaxLen : SysWrite(p, fd, len)
  \/ \E p \in Proc, fd \in Fd, len \in 1 .. MaxLen : SysRead(p, fd, len)
  \/ \E p \in Proc, fd \in Fd, n \in 1 .. Cardinality(Path) : SysReadDir(p, fd, n)
  \/ \E p \in Proc, fd \in Fd, to \in -1 .. 1, whence \in {"SET", "CUR", "END"} :
       SysSeek(p, fd, to, whence)
  \/ \E p \in Proc, path \in Path : SysMkdir(p, path)
  \/ \E p \in Proc, path \in Path : SysUnlink(p, path)
  \/ \E p \in Proc, d \in Dnode \cup {ROOT} : SysChdir(p, d)
  \/ \E p, child \in Proc, path \in Path : SysExec(p, child, path)
  \/ \E p \in Proc : SysExit(p)
  \/ Off

Spec == Init /\ [][Next]_vars

-----------------------------------------------------------------------------
(* The tables are well-typed (struct fs_inode, struct process_file).       *)
TypeOK ==
  /\ entry \in [Path -> Dnode \cup {NONE}]
  /\ node \in [Dnode -> [kind : {"FILE", "DIRECTORY"}, size : 0 .. MaxSize]]
  /\ inodes \in [Inode -> [type : {"EMPTY", "FILE", "DIRECTORY"},
                           dnode : Dnode \cup {ROOT, NONE}, size : Nat,
                           reference_count : Nat]]
  /\ alive \subseteq Proc
  /\ fds \in [Proc -> [Fd -> [type : {"EMPTY", "INODE", "DEVICE"}, inode : Inode \cup {NONE},
                              offset : 0 .. OFFSET_MOD - 1,
                              readble : BOOLEAN, writable : BOOLEAN]]]
  /\ cwd \in [Proc -> Inode \cup {NONE}]
  /\ leaked \in [Inode -> Nat]
  /\ unlinked \subseteq Inode
  /\ calls \in 0 .. MaxCalls

(* Process p refers to inode i: with descriptor n, or with its working     *)
(* directory, which counts as one descriptor more.                         *)
Refers(p, n, i) ==
  IF n = MAX_OPEN_FILES THEN cwd[p] = i
  ELSE fds[p][n].type = "INODE" /\ fds[p][n].inode = i

Users(i) == {u \in alive \X (0 .. MAX_OPEN_FILES) : Refers(u[1], u[2], i)}

(* The count of an inode is the number of descriptors and working          *)
(* directories on it, those that processes took to the grave included, and *)
(* an inode is empty exactly when that number is 0: no descriptor and no   *)
(* working directory is left on an emptied inode, and no inode but for the *)
(* lost ones stays taken (fs_close, fs.c:174-183).                         *)
UsersCounted ==
  /\ TypeOK
  /\ \A i \in Inode :
       /\ inodes[i].reference_count = Cardinality(Users(i)) + leaked[i]
       /\ inodes[i].type = "EMPTY" <=> inodes[i].reference_count = 0

(* One file has one inode, so that all who have it open see one size       *)
(* (the search of fs_open, fs.c:108-135).                                  *)
OneInodePerFile ==
  \A i, j \in Inode :
    inodes[i].type # "EMPTY" /\ inodes[i].dnode = inodes[j].dnode => i = j

(* An open file stays itself: as long as a descriptor is kept and its file *)
(* is not deleted, the inode behind it leads to the dnode it led to, and   *)
(* the path that led there still does, whatever other processes open,      *)
(* close, create, delete or end meanwhile.  Deletion is excepted because   *)
(* fs_delete deletes an open file, where fs.c:232 says that it fails: the  *)
(* inode is left behind, and the next file that gets the dnode has it.     *)
OpenFileKept ==
  [][\A i \in Inode \ unlinked', p \in alive \cap alive', fd \in Fd :
       /\ fds[p][fd].type = "INODE" /\ fds[p][fd].inode = i
       /\ fds'[p][fd].type = "INODE" /\ fds'[p][fd].inode = i
       => /\ inodes'[i].dnode = inodes[i].dnode /\ inodes'[i].type = inodes[i].type
          /\ \/ inodes[i].dnode = ROOT
             \/ \E q \in Path : entry[q] = inodes[i].dnode /\ entry'[q] = entry[q]]_vars

(* The offset of an open file lies within the file, whoever else writes    *)
(* it, and however far lseek is asked to go: dzfs_write refuses a write    *)
(* past the end (dzfs.c:522).  Files deleted while open are excepted.      *)
OffsetInFile ==
  \A p \in alive, fd \in Fd :
    LET i == fds[p][fd].inode
    IN  fds[p][fd].type = "INODE" /\ i \notin unlinked /\ inodes[i].type = "FILE" =>
          /\ fds[p][fd].offset <= node[inodes[i].dnode].size
          /\ inodes[i].size <= node[inodes[i].dnode].size
=============================================================================
