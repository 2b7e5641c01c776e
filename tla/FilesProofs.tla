---------------------------- MODULE FilesProofs ----------------------------
(***************************************************************************)
(* Proofs about Files, for any number of processes, descriptors, inodes    *)
(* and names, and any number of calls.                                     *)
(*                                                                         *)
(* CountInv keeps the books: every inode counts who refers to it.  FileInv *)
(* adds what the inodes know of the disk: a dnode has one inode, an inode  *)
(* whose file was not deleted leads to a dnode that is linked, and neither *)
(* its size nor an offset is past the end.                                 *)
(***************************************************************************)
EXTENDS Files, FiniteSetTheorems, WellFoundedInduction, TLAPS

FdRec ==
  [type : {"EMPTY", "INODE", "DEVICE"}, inode : Inode \cup {NONE},
   offset : 0 .. OFFSET_MOD - 1, readble : BOOLEAN, writable : BOOLEAN]

InodeRec ==
  [type : {"EMPTY", "FILE", "DIRECTORY"}, dnode : Dnode \cup {ROOT, NONE}, size : Nat,
   reference_count : Nat]

(* The disk of TypeOK.                                                     *)
DiskTypes ==
  /\ entry \in [Path -> Dnode \cup {NONE}]
  /\ node \in [Dnode -> [kind : {"FILE", "DIRECTORY"}, size : 0 .. MaxSize]]

(* A process that lives refers to inodes only.                             *)
RefsOK ==
  \A p \in alive :
    /\ cwd[p] \in Inode
    /\ \A fd \in Fd : fds[p][fd].type = "INODE" => fds[p][fd].inode \in Inode

Counted ==
  \A i \in Inode : inodes[i].reference_count = Cardinality(Users(i)) + leaked[i]

(* An empty inode is blank, one in use is counted and leads to a dnode.    *)
Filled(ino) ==
  /\ ino.type = "EMPTY" => ino = EmptyInode
  /\ ino.type # "EMPTY" => /\ ino.reference_count > 0 /\ ino.dnode # NONE
                           /\ ino.type = "FILE" => ino.dnode \in Dnode

CountInv ==
  /\ TypeOK
  /\ RefsOK
  /\ Counted
  /\ \A i \in Inode : Filled(inodes[i])

(* A descriptor stands within its file, unless that was deleted.           *)
Within(p, fd) ==
  LET i == fds[p][fd].inode
  IN  inodes[i].type = "FILE" /\ i \notin unlinked =>
        fds[p][fd].offset <= node[inodes[i].dnode].size

FileInv ==
  /\ OneInodePerFile
  /\ \A i \in Inode : inodes[i].type # "EMPTY" /\ i \notin unlinked =>
                        inodes[i].dnode \in Linked \cup {ROOT}
  /\ \A i \in Inode : inodes[i].type = "FILE" /\ i \notin unlinked =>
                        inodes[i].size <= node[inodes[i].dnode].size
  /\ \A p \in alive, fd \in Fd : fds[p][fd].type = "INODE" => Within(p, fd)

-----------------------------------------------------------------------------
(* Counting.                                                               *)

(* There are finitely many who could refer to an inode.                    *)
LEMMA UsersFinite ==
  ASSUME alive \subseteq Proc, NEW i
  PROVE  IsFiniteSet(Users(i)) /\ Cardinality(Users(i)) \in Nat
<1>1. MAX_OPEN_FILES \in Nat /\ IsFiniteSet(Proc)
  BY FilesAssumption
<1>2. IsFiniteSet(0 .. MAX_OPEN_FILES)
  BY <1>1, FS_Interval
<1>3. IsFiniteSet(Proc \X (0 .. MAX_OPEN_FILES))
  BY <1>1, <1>2, FS_Product
<1>4. Users(i) \subseteq Proc \X (0 .. MAX_OPEN_FILES)
  BY DEF Users
<1>5. IsFiniteSet(Users(i))
  BY <1>3, <1>4, FS_Subset
<1> QED BY <1>5, FS_CardinalityType

(* When one reference of one process changes, the others stay counted.     *)
LEMMA Rewire ==
  ASSUME alive \subseteq Proc, NEW p \in alive, NEW n \in 0 .. MAX_OPEN_FILES, NEW i,
         alive' = alive,
         \A r \in alive, m \in 0 .. MAX_OPEN_FILES :
           r # p \/ m # n => (Refers(r, m, i)' <=> Refers(r, m, i))
  PROVE  Cardinality(Users(i)') = Cardinality(Users(i)) + (IF Refers(p, n, i)' THEN 1 ELSE 0)
                                    - (IF Refers(p, n, i) THEN 1 ELSE 0)
<1> DEFINE u == <<p, n>>
           S == Users(i)
           T == Users(i)'
           All == alive \X (0 .. MAX_OPEN_FILES)
<1>1. IsFiniteSet(S) /\ Cardinality(S) \in Nat
  BY UsersFinite
<1>2. /\ u \in All /\ S \subseteq All /\ T \subseteq All
      /\ u \in S <=> Refers(p, n, i)
      /\ u \in T <=> Refers(p, n, i)'
  BY DEF Users
<1>3. \A x \in All : x # u => (x \in T <=> x \in S)
  <2> TAKE x \in All
  <2>1. /\ x[1] \in alive /\ x[2] \in 0 .. MAX_OPEN_FILES
        /\ x # u => x[1] # p \/ x[2] # n
    OBVIOUS
  <2> QED BY <2>1 DEF Users
<1> HIDE DEF u, S, T, All
<1>4. CASE u \in T
  <2>1. T = S \cup {u}
    BY <1>2, <1>3, <1>4
  <2>2. Cardinality(T) = IF u \in S THEN Cardinality(S) ELSE Cardinality(S) + 1
    BY <1>1, <2>1, FS_AddElement
  <2>3. Cardinality(T) = Cardinality(S) + 1 - (IF u \in S THEN 1 ELSE 0)
    BY <1>1, <2>2
  <2> QED BY <1>2, <1>4, <2>3 DEF S, T
<1>5. CASE u \notin T
  <2>1. T = S \ {u}
    BY <1>2, <1>3, <1>5
  <2>2. Cardinality(T) = IF u \in S THEN Cardinality(S) - 1 ELSE Cardinality(S)
    BY <1>1, <2>1, FS_RemoveElement
  <2>3. Cardinality(T) = Cardinality(S) + 0 - (IF u \in S THEN 1 ELSE 0)
    BY <1>1, <2>2
  <2> QED BY <1>2, <1>5, <2>3 DEF S, T
<1> QED BY <1>4, <1>5

(* An inode that somebody refers to is counted, and not empty.             *)
LEMMA InUse ==
  ASSUME CountInv, NEW i \in Inode, NEW p \in alive, NEW n \in 0 .. MAX_OPEN_FILES,
         Refers(p, n, i)
  PROVE  inodes[i].type # "EMPTY" /\ inodes[i].reference_count > 0
<1>1. <<p, n>> \in Users(i)
  BY DEF Users
<1>2. alive \subseteq Proc /\ leaked[i] \in Nat
  BY DEF CountInv, TypeOK
<1>3. Cardinality(Users(i)) \in Nat /\ Cardinality(Users(i)) # 0
  BY <1>1, <1>2, UsersFinite, FS_EmptySet
<1>4. inodes[i].reference_count > 0
  BY <1>2, <1>3 DEF CountInv, Counted
<1> QED BY <1>4 DEF CountInv, Filled, EmptyInode

(* A set of natural numbers that is not empty has a least member.          *)
LEMMA LeastExists ==
  ASSUME NEW T \in SUBSET Nat, T # {}
  PROVE  \E m \in T : \A x \in T : m <= x
<1> DEFINE R == OpToRel(<, Nat)
<1>1. PICK m \in T : \A x \in T : ~(<<x, m>> \in R)
  <2>1. IsWellFoundedOn(R, Nat)
    BY NatLessThanWellFounded
  <2> HIDE DEF R
  <2> QED BY <2>1, WFMin
<1>2. \A x \in T : ~(x < m)
  BY <1>1 DEF OpToRel
<1> QED BY <1>2

(* A set of inode numbers has a last one, and a first one.                 *)
LEMMA LastExists ==
  ASSUME NEW S \in SUBSET Inode, S # {}
  PROVE  (\E i \in S : \A j \in S : j <= i) /\ (\E i \in S : \A j \in S : i <= j)
<1>1. MAX_INODES \in Nat
  BY FilesAssumption
<1> DEFINE Back == {MAX_INODES - j : j \in S}
<1>2. Back \in SUBSET Nat /\ Back # {} /\ S \in SUBSET Nat
  <2>1. \A j \in S : j \in Nat /\ MAX_INODES - j \in Nat
    BY <1>1 DEF Inode
  <2>2. PICK k : k \in S
    OBVIOUS
  <2>3. MAX_INODES - k \in Back
    BY <2>2
  <2> QED BY <2>1, <2>3
<1>3. PICK m \in Back : \A x \in Back : m <= x
  <2> HIDE DEF Back
  <2> QED BY <1>2, LeastExists
<1>4. PICK i \in S : m = MAX_INODES - i
  OBVIOUS
<1>5. \A j \in S : m <= MAX_INODES - j
  BY <1>3
<1>6. \A j \in S : j <= i
  BY <1>1, <1>4, <1>5 DEF Inode
<1> QED BY <1>2, <1>6, LeastExists

(* fs_open settles on an inode of the dnode, else on an empty one, else    *)
(* there is none.                                                          *)
LEMMA ChooseOK ==
  ASSUME NEW d
  PROVE  /\ ChooseInode(d) \in Inode \cup {NONE}
         /\ Cached(d) # {} => ChooseInode(d) \in Cached(d)
         /\ Cached(d) = {} /\ ChooseInode(d) # NONE => ChooseInode(d) \in FreeInodes
<1>1. Cached(d) \in SUBSET Inode /\ FreeInodes \in SUBSET Inode
  BY DEF Cached, FreeInodes
<1>2. CASE Cached(d) # {}
  <2>1. ChooseInode(d) \in Cached(d)
    BY <1>1, <1>2, LastExists DEF ChooseInode
  <2> QED BY <1>1, <1>2, <2>1
<1>3. CASE Cached(d) = {} /\ FreeInodes # {}
  <2>1. ChooseInode(d) \in FreeInodes
    BY <1>1, <1>3, LastExists DEF ChooseInode
  <2> QED BY <1>1, <1>3, <2>1
<1>4. CASE Cached(d) = {} /\ FreeInodes = {}
  BY <1>4 DEF ChooseInode
<1> QED BY <1>2, <1>3, <1>4

(* What fs_open does to the inodes.                                        *)
LEMMA OpenEffect ==
  ASSUME CountInv, NEW d \in Dnode \cup {ROOT}, NEW es \in [Path -> Dnode \cup {NONE}],
         NEW ns \in [Dnode -> [kind : {"FILE", "DIRECTORY"}, size : 0 .. MaxSize]],
         NEW i, i = ChooseInode(d), i # NONE,
         NEW table, table = fs_open(d, es, ns)
  PROVE  /\ i \in Inode /\ table \in [Inode -> InodeRec]
         /\ \A j \in Inode : j # i => table[j] = inodes[j]
         /\ table[i].reference_count = inodes[i].reference_count + 1
         /\ table[i].type # "EMPTY" /\ table[i].dnode = d
         /\ table[i].type = "FILE" => d \in Dnode
         /\ IF inodes[i].type # "EMPTY"
            THEN table[i].type = inodes[i].type /\ inodes[i].dnode = d
                   /\ table[i].size = inodes[i].size
            ELSE /\ \A j \in Inode : inodes[j].type # "EMPTY" => inodes[j].dnode # d
                 /\ inodes[i].reference_count = 0
                 /\ table[i].type = Kind(d, ns) /\ table[i].size = Stat(d, es, ns)
<1>1. inodes \in [Inode -> InodeRec] /\ \A j \in Inode : Filled(inodes[j])
  BY DEF CountInv, TypeOK, InodeRec
<1>2. /\ i \in Inode
      /\ Cached(d) # {} => i \in Cached(d)
      /\ Cached(d) = {} => i \in FreeInodes
  BY ChooseOK
<1>3. CASE inodes[i].type # "EMPTY"
  <2>1. inodes[i].dnode = d
    BY <1>2, <1>3 DEF Cached, FreeInodes
  <2>2. table = [inodes EXCEPT ![i].reference_count = @ + 1]
    BY <1>3 DEF fs_open
  <2>3. inodes[i].reference_count \in Nat /\ (inodes[i].type = "FILE" => d \in Dnode)
    BY <1>1, <1>2, <1>3, <2>1 DEF InodeRec, Filled
  <2> QED BY <1>1, <1>2, <1>3, <2>1, <2>2, <2>3 DEF InodeRec
<1>4. CASE inodes[i].type = "EMPTY"
  <2>1. Cached(d) = {}
    BY <1>2, <1>4 DEF Cached
  <2>2. table = [inodes EXCEPT ![i] = [type |-> Kind(d, ns), dnode |-> d,
                                       size |-> Stat(d, es, ns), reference_count |-> 1]]
    BY <1>4 DEF fs_open
  <2>3. inodes[i].reference_count = 0
    BY <1>1, <1>2, <1>4 DEF Filled, EmptyInode
  <2>4. /\ Kind(d, ns) \in {"FILE", "DIRECTORY"} /\ (Kind(d, ns) = "FILE" => d \in Dnode)
        /\ Stat(d, es, ns) \in Nat
    <3>1. CASE d = ROOT
      <4>1. {q \in Path : es[q] # NONE} \in SUBSET Path
        OBVIOUS
      <4>2. Cardinality({q \in Path : es[q] # NONE}) \in Nat
        BY <4>1, FilesAssumption, FS_Subset, FS_CardinalityType
      <4> QED BY <3>1, <4>2 DEF Kind, Stat
    <3>2. CASE d # ROOT
      BY <3>2 DEF Kind, Stat
    <3> QED BY <3>1, <3>2
  <2>5. \A j \in Inode : inodes[j].type # "EMPTY" => inodes[j].dnode # d
    BY <2>1 DEF Cached
  <2> QED BY <1>1, <1>2, <1>4, <2>2, <2>3, <2>4, <2>5 DEF InodeRec
<1> QED BY <1>3, <1>4

(* fs_close gives one reference up, and empties the inode with the last.   *)
LEMMA ReleaseOne ==
  ASSUME NEW ino \in InodeRec, Filled(ino), ino.type # "EMPTY"
  PROVE  /\ Release(ino, 1) \in InodeRec /\ Filled(Release(ino, 1))
         /\ Release(ino, 1).reference_count = ino.reference_count - 1
         /\ Release(ino, 1).type # "EMPTY" =>
              /\ Release(ino, 1).type = ino.type /\ Release(ino, 1).dnode = ino.dnode
              /\ Release(ino, 1).size = ino.size
BY FilesAssumption DEF Release, InodeRec, Filled, EmptyInode

-----------------------------------------------------------------------------
(* The books are kept.                                                     *)

(* A step in which descriptor fd of p becomes new.                         *)
LEMMA FdChange ==
  ASSUME CountInv, NEW p \in alive, NEW fd \in Fd, NEW new \in FdRec,
         fds' = [fds EXCEPT ![p][fd] = new]
  PROVE  /\ fds' \in [Proc -> [Fd -> FdRec]] /\ fds'[p][fd] = new
         /\ \A r \in Proc, e \in Fd : r # p \/ e # fd => fds'[r][e] = fds[r][e]
<1>1. fds \in [Proc -> [Fd -> FdRec]] /\ alive \subseteq Proc
  BY DEF CountInv, TypeOK, FdRec
<1>2. fds' \in [Proc -> [Fd -> FdRec]] /\ fds'[p][fd] = new
  <2>1. [fds[p] EXCEPT ![fd] = new] \in [Fd -> FdRec]
    BY <1>1
  <2> QED BY <1>1, <2>1
<1>3. \A r \in Proc, e \in Fd : r # p \/ e # fd => fds'[r][e] = fds[r][e]
  BY <1>1
<1> QED BY <1>2, <1>3

(* ... and who refers to inode i then.                                     *)
LEMMA FdCount ==
  ASSUME CountInv, NEW p \in alive, NEW fd \in Fd, NEW new \in FdRec, NEW i \in Inode,
         fds' = [fds EXCEPT ![p][fd] = new], UNCHANGED <<alive, cwd>>
  PROVE  Cardinality(Users(i)') =
           Cardinality(Users(i))
             + (IF new.type = "INODE" /\ new.inode = i THEN 1 ELSE 0)
             - (IF fds[p][fd].type = "INODE" /\ fds[p][fd].inode = i THEN 1 ELSE 0)
<1>1. /\ fds'[p][fd] = new /\ alive \subseteq Proc
      /\ \A r \in Proc, e \in Fd : r # p \/ e # fd => fds'[r][e] = fds[r][e]
  BY FdChange DEF CountInv, TypeOK
<1>2. MAX_OPEN_FILES \in Nat /\ Fd \subseteq 0 .. MAX_OPEN_FILES /\ MAX_OPEN_FILES \notin Fd
      /\ \A m \in 0 .. MAX_OPEN_FILES : m = MAX_OPEN_FILES \/ m \in Fd
  BY FilesAssumption DEF Fd
<1>3. \A r \in alive, m \in 0 .. MAX_OPEN_FILES :
        r # p \/ m # fd => (Refers(r, m, i)' <=> Refers(r, m, i))
  BY <1>1, <1>2 DEF Refers
<1>4. /\ Refers(p, fd, i)' <=> (new.type = "INODE" /\ new.inode = i)
      /\ Refers(p, fd, i) <=> (fds[p][fd].type = "INODE" /\ fds[p][fd].inode = i)
  BY <1>1, <1>2 DEF Refers
<1>5. fd \in 0 .. MAX_OPEN_FILES
  BY <1>2
<1> QED BY <1>1, <1>3, <1>4, <1>5, Rewire

(* The references stay right when the new descriptor leads to an inode.    *)
LEMMA FdKeepsRefs ==
  ASSUME CountInv, NEW p \in alive, NEW fd \in Fd, NEW new \in FdRec,
         fds' = [fds EXCEPT ![p][fd] = new], UNCHANGED <<alive, cwd>>,
         new.type = "INODE" => new.inode \in Inode
  PROVE  RefsOK'
<1>1. alive \subseteq Proc /\ RefsOK
  BY DEF CountInv, TypeOK
<1>2. \A r \in alive, e \in Fd : fds'[r][e] = IF r = p /\ e = fd THEN new ELSE fds[r][e]
  BY <1>1, FdChange, ZenonT(40)
<1> QED BY <1>1, <1>2 DEF RefsOK

(* An offset changes, and perhaps a size: SysWrite, SysRead, SysReadDir,   *)
(* SysSeek.                                                                *)
LEMMA OffsetKeeps ==
  ASSUME CountInv, DiskTypes', NEW p \in alive, NEW fd \in Fd, NEW new \in FdRec,
         new.type = fds[p][fd].type, new.inode = fds[p][fd].inode,
         fds' = [fds EXCEPT ![p][fd] = new],
         inodes' \in [Inode -> InodeRec],
         \A i \in Inode : /\ inodes'[i].type = inodes[i].type
                          /\ inodes'[i].dnode = inodes[i].dnode
                          /\ inodes'[i].reference_count = inodes[i].reference_count
                          /\ inodes[i].type = "EMPTY" => inodes'[i] = inodes[i],
         UNCHANGED <<alive, cwd, leaked, unlinked>>, calls' \in 0 .. MaxCalls
  PROVE  CountInv'
<1>1. alive \subseteq Proc
  BY DEF CountInv, TypeOK
<1>2. RefsOK'
  BY FdKeepsRefs DEF CountInv, RefsOK
<1>3. \A i \in Inode : Cardinality(Users(i)') = Cardinality(Users(i))
  <2> TAKE i \in Inode
  <2>1. Cardinality(Users(i)) \in Nat
    BY <1>1, UsersFinite
  <2>2. Cardinality(Users(i)') =
          Cardinality(Users(i))
            + (IF new.type = "INODE" /\ new.inode = i THEN 1 ELSE 0)
            - (IF fds[p][fd].type = "INODE" /\ fds[p][fd].inode = i THEN 1 ELSE 0)
    BY FdCount
  <2> QED BY <2>1, <2>2
<1>4. Counted'
  BY <1>3 DEF CountInv, Counted
<1>5. fds' \in [Proc -> [Fd -> FdRec]]
  BY FdChange
<1>6. TypeOK'
  BY <1>5 DEF CountInv, TypeOK, FdRec, InodeRec, DiskTypes
<1>7. \A i \in Inode : Filled(inodes'[i])
  BY DEF CountInv, Filled
<1> QED BY <1>2, <1>4, <1>6, <1>7 DEF CountInv

(* file_open: the descriptor and the count of its inode.                   *)
LEMMA OpenedAsKeeps ==
  ASSUME CountInv, DiskTypes', NEW p \in alive, NEW fd \in Fd, NEW d \in Dnode \cup {ROOT},
         NEW wronly \in BOOLEAN, NEW rdwr \in BOOLEAN,
         fds[p][fd].type = "EMPTY", OpenedAs(p, fd, d, wronly, rdwr),
         UNCHANGED <<alive, cwd, leaked, unlinked>>, calls' \in 0 .. MaxCalls
  PROVE  CountInv'
<1>1. alive \subseteq Proc /\ inodes \in [Inode -> InodeRec] /\ leaked \in [Inode -> Nat]
  BY DEF CountInv, TypeOK, InodeRec
<1>2. CASE ChooseInode(d) = NONE
  <2>1. inodes' = inodes /\ fds' = fds
    BY <1>2 DEF OpenedAs, fs_open
  <2>2. \A i \in Inode : Users(i)' = Users(i)
    BY <2>1 DEF Users, Refers
  <2>3. Counted'
    BY <2>1, <2>2 DEF CountInv, Counted
  <2>4. TypeOK'
    BY <2>1 DEF CountInv, TypeOK, DiskTypes
  <2> QED BY <2>1, <2>3, <2>4 DEF CountInv, RefsOK
<1>3. CASE ChooseInode(d) # NONE
  <2>1. PICK es, ns, k, new :
          /\ es = entry' /\ ns = node' /\ k = ChooseInode(d)
          /\ new = [type |-> "INODE", inode |-> k, offset |-> 0,
                    readble |-> ~wronly, writable |-> wronly \/ rdwr]
    OBVIOUS
  <2>2. inodes' = fs_open(d, es, ns) /\ fds' = [fds EXCEPT ![p][fd] = new]
    BY <1>3, <2>1 DEF OpenedAs
  <2>3. /\ k \in Inode /\ inodes' \in [Inode -> InodeRec]
        /\ \A j \in Inode : j # k => inodes'[j] = inodes[j]
        /\ inodes'[k].reference_count = inodes[k].reference_count + 1
        /\ inodes'[k].type # "EMPTY" /\ inodes'[k].dnode = d
        /\ inodes'[k].type = "FILE" => d \in Dnode
    BY <1>3, <2>1, <2>2, OpenEffect DEF DiskTypes
  <2>4. new \in FdRec /\ new.type = "INODE" /\ new.inode = k
    <3>1. 0 \in 0 .. OFFSET_MOD - 1
      BY FilesAssumption
    <3> QED BY <2>1, <2>3, <3>1 DEF FdRec
  <2>5. RefsOK'
    BY <2>2, <2>3, <2>4, FdKeepsRefs
  <2>6. \A i \in Inode : Cardinality(Users(i)') = Cardinality(Users(i)) + (IF i = k THEN 1 ELSE 0)
    <3> TAKE i \in Inode
    <3>1. Cardinality(Users(i)) \in Nat
      BY <1>1, UsersFinite
    <3>2. Cardinality(Users(i)') =
            Cardinality(Users(i))
              + (IF new.type = "INODE" /\ new.inode = i THEN 1 ELSE 0)
              - (IF fds[p][fd].type = "INODE" /\ fds[p][fd].inode = i THEN 1 ELSE 0)
      BY <2>2, <2>4, FdCount
    <3> QED BY <2>4, <3>1, <3>2
  <2>7. Counted'
    <3>1. \A i \in Inode : /\ Cardinality(Users(i)) \in Nat
                           /\ inodes[i].reference_count = Cardinality(Users(i)) + leaked[i]
                           /\ leaked[i] \in Nat
      BY <1>1, UsersFinite DEF CountInv, Counted
    <3> QED BY <2>3, <2>6, <3>1 DEF Counted
  <2>8. \A i \in Inode : Filled(inodes'[i])
    <3>1. \A i \in Inode : Filled(inodes[i])
      BY DEF CountInv
    <3>2. Filled(inodes'[k])
      <4>1. inodes[k].reference_count \in Nat
        BY <1>1, <2>3 DEF InodeRec
      <4> QED BY <2>3, <4>1, FilesAssumption DEF Filled
    <3> QED BY <2>3, <3>1, <3>2
  <2>9. TypeOK'
    <3>1. fds' \in [Proc -> [Fd -> FdRec]]
      BY <2>2, <2>4, FdChange
    <3> QED BY <2>3, <3>1 DEF CountInv, TypeOK, DiskTypes, FdRec, InodeRec
  <2> QED BY <2>5, <2>7, <2>8, <2>9 DEF CountInv
<1> QED BY <1>2, <1>3

(* dzFS leaves a well-typed disk behind, whatever is opened or made.       *)
LEMMA CreateTypes ==
  ASSUME DiskTypes, NEW path \in Path, NEW kind \in {"FILE", "DIRECTORY"}, NEW d \in Dnode,
         OpenPath(path, d) \/ CreatePath(path, kind, d)
  PROVE  DiskTypes'
<1>1. CASE OpenPath(path, d)
  BY <1>1 DEF OpenPath, DiskTypes, disk
<1>2. CASE CreatePath(path, kind, d)
  <2>1. 0 \in 0 .. MaxSize
    BY FilesAssumption
  <2> QED BY <1>2, <2>1 DEF CreatePath, DiskTypes
<1> QED BY <1>1, <1>2

(* sys_close: the descriptor and its reference.                            *)
LEMMA CloseKeeps ==
  ASSUME CountInv, NEW p \in Proc, NEW fd \in Fd, SysClose(p, fd)
  PROVE  CountInv'
<1>1. alive \subseteq Proc /\ inodes \in [Inode -> InodeRec] /\ leaked \in [Inode -> Nat]
  BY DEF CountInv, TypeOK, InodeRec
<1>2. p \in alive /\ fds[p][fd].type = "INODE" /\ calls' \in 0 .. MaxCalls
  BY FilesAssumption DEF SysClose, Call, CountInv, TypeOK
<1>3. PICK k \in Inode : k = fds[p][fd].inode
  BY <1>2 DEF CountInv, RefsOK
<1>4. fd \in 0 .. MAX_OPEN_FILES /\ fd # MAX_OPEN_FILES
  BY FilesAssumption DEF Fd
<1>5. inodes[k].type # "EMPTY"
  BY <1>2, <1>3, <1>4, InUse DEF Refers
<1>6. /\ inodes[k] \in InodeRec /\ Filled(inodes[k])
      /\ inodes' = [inodes EXCEPT ![k] = Release(inodes[k], 1)]
      /\ fds' = [fds EXCEPT ![p][fd] = EmptyFd] /\ UNCHANGED <<disk, alive, cwd, leaked>>
  BY <1>1, <1>3 DEF CountInv, SysClose, fs_close
<1>7. /\ inodes' \in [Inode -> InodeRec]
      /\ \A j \in Inode : j # k => inodes'[j] = inodes[j]
      /\ inodes'[k].reference_count = inodes[k].reference_count - 1
      /\ Filled(inodes'[k])
  BY <1>1, <1>5, <1>6, ReleaseOne
<1>8. EmptyFd \in FdRec /\ EmptyFd.type = "EMPTY"
  BY FilesAssumption DEF EmptyFd, FdRec
<1>9. RefsOK'
  BY <1>2, <1>6, <1>8, FdKeepsRefs
<1>10. \A i \in Inode : Cardinality(Users(i)') = Cardinality(Users(i)) - (IF i = k THEN 1 ELSE 0)
  <2> TAKE i \in Inode
  <2>1. Cardinality(Users(i)) \in Nat
    BY <1>1, UsersFinite
  <2>2. Cardinality(Users(i)') =
          Cardinality(Users(i))
            + (IF EmptyFd.type = "INODE" /\ EmptyFd.inode = i THEN 1 ELSE 0)
            - (IF fds[p][fd].type = "INODE" /\ fds[p][fd].inode = i THEN 1 ELSE 0)
    BY <1>2, <1>6, <1>8, FdCount
  <2> QED BY <1>2, <1>3, <1>8, <2>1, <2>2
<1>11. Counted'
  <2>1. \A i \in Inode : /\ Cardinality(Users(i)) \in Nat /\ leaked[i] \in Nat
                         /\ inodes[i].reference_count = Cardinality(Users(i)) + leaked[i]
    BY <1>1, UsersFinite DEF CountInv, Counted
  <2> QED BY <1>6, <1>7, <1>10, <2>1 DEF Counted
<1>12. TypeOK'
  <2>1. fds' \in [Proc -> [Fd -> FdRec]]
    BY <1>2, <1>6, <1>8, FdChange
  <2>2. unlinked' \subseteq Inode
    BY DEF SysClose, StillUnlinked, CountInv, TypeOK
  <2> QED BY <1>2, <1>6, <1>7, <2>1, <2>2 DEF CountInv, TypeOK, FdRec, InodeRec, disk
<1>13. \A i \in Inode : Filled(inodes'[i])
  BY <1>7 DEF CountInv
<1> QED BY <1>9, <1>11, <1>12, <1>13 DEF CountInv

(* sys_chdir: the working directory moves from one inode to another, or to *)
(* the same.                                                               *)
LEMMA ChdirKeeps ==
  ASSUME CountInv, NEW p \in Proc, NEW d \in Dnode \cup {ROOT}, SysChdir(p, d)
  PROVE  CountInv'
<1>1. /\ alive \subseteq Proc /\ inodes \in [Inode -> InodeRec] /\ leaked \in [Inode -> Nat]
      /\ cwd \in [Proc -> Inode \cup {NONE}] /\ DiskTypes
  BY DEF CountInv, TypeOK, InodeRec, DiskTypes
<1>2. p \in alive /\ calls' \in 0 .. MaxCalls
  BY FilesAssumption DEF SysChdir, Call, CountInv, TypeOK
<1>3. PICK k, c, opened : /\ k = ChooseInode(d) /\ c = cwd[p]
                          /\ opened = fs_open(d, entry, node)
  OBVIOUS
<1>4. /\ k # NONE /\ inodes' = [opened EXCEPT ![c] = Release(opened[c], 1)]
      /\ cwd' = [cwd EXCEPT ![p] = k] /\ UNCHANGED <<disk, alive, fds, leaked>>
      /\ unlinked' \subseteq Inode
  BY <1>3 DEF SysChdir, fs_close, StillUnlinked, CountInv, TypeOK
<1>5. /\ k \in Inode /\ opened \in [Inode -> InodeRec]
      /\ \A j \in Inode : j # k => opened[j] = inodes[j]
      /\ opened[k].reference_count = inodes[k].reference_count + 1
      /\ opened[k].type # "EMPTY" /\ opened[k].dnode = d
      /\ opened[k].type = "FILE" => d \in Dnode
  BY <1>1, <1>3, <1>4, OpenEffect DEF DiskTypes
<1>6. c \in Inode
  BY <1>2, <1>3 DEF CountInv, RefsOK
<1>7. /\ \A j \in Inode : Filled(opened[j])
      /\ opened[c].type # "EMPTY"
  <2>1. \A j \in Inode : Filled(inodes[j])
    BY DEF CountInv
  <2>2. Filled(opened[k])
    <3>1. inodes[k].reference_count \in Nat
      BY <1>1, <1>5 DEF InodeRec
    <3> QED BY <1>5, <3>1, FilesAssumption DEF Filled
  <2>3. inodes[c].type # "EMPTY"
    <3>1. MAX_OPEN_FILES \in 0 .. MAX_OPEN_FILES
      BY FilesAssumption
    <3> QED BY <1>2, <1>3, <1>6, <3>1, InUse DEF Refers
  <2> QED BY <1>5, <1>6, <2>1, <2>2, <2>3
<1>8. /\ Release(opened[c], 1) \in InodeRec /\ Filled(Release(opened[c], 1))
      /\ Release(opened[c], 1).reference_count = opened[c].reference_count - 1
  BY <1>5, <1>6, <1>7, ReleaseOne
<1>9. /\ inodes' \in [Inode -> InodeRec]
      /\ \A j \in Inode : Filled(inodes'[j])
      /\ \A j \in Inode : inodes'[j].reference_count =
           inodes[j].reference_count + (IF j = k THEN 1 ELSE 0) - (IF j = c THEN 1 ELSE 0)
  <2>1. inodes' \in [Inode -> InodeRec]
    BY <1>4, <1>5, <1>8
  <2>2. \A j \in Inode : inodes'[j] = IF j = c THEN Release(opened[c], 1) ELSE opened[j]
    BY <1>4, <1>5
  <2>3. \A j \in Inode : inodes[j].reference_count \in Nat
    BY <1>1 DEF InodeRec
  <2> QED BY <1>5, <1>6, <1>7, <1>8, <2>1, <2>2, <2>3
<1>10. /\ cwd' \in [Proc -> Inode \cup {NONE}] /\ cwd'[p] = k
       /\ \A r \in Proc : r # p => cwd'[r] = cwd[r]
  BY <1>1, <1>4, <1>5
<1>11. RefsOK'
  <2>1. \A r \in alive : cwd'[r] = IF r = p THEN k ELSE cwd[r]
    BY <1>1, <1>10
  <2> QED BY <1>4, <1>5, <2>1 DEF CountInv, RefsOK
<1>12. \A i \in Inode : Cardinality(Users(i)') =
         Cardinality(Users(i)) + (IF i = k THEN 1 ELSE 0) - (IF i = c THEN 1 ELSE 0)
  <2> TAKE i \in Inode
  <2>1. MAX_OPEN_FILES \in 0 .. MAX_OPEN_FILES
    BY FilesAssumption
  <2>2. \A r \in alive, m \in 0 .. MAX_OPEN_FILES :
          r # p \/ m # MAX_OPEN_FILES => (Refers(r, m, i)' <=> Refers(r, m, i))
    BY <1>1, <1>4, <1>10 DEF Refers
  <2>3. /\ Refers(p, MAX_OPEN_FILES, i)' <=> i = k
        /\ Refers(p, MAX_OPEN_FILES, i) <=> i = c
    BY <1>3, <1>10 DEF Refers
  <2>4. Cardinality(Users(i)') =
          Cardinality(Users(i)) + (IF Refers(p, MAX_OPEN_FILES, i)' THEN 1 ELSE 0)
                                - (IF Refers(p, MAX_OPEN_FILES, i) THEN 1 ELSE 0)
    BY <1>1, <1>2, <1>4, <2>1, <2>2, Rewire
  <2> QED BY <2>3, <2>4
<1>13. Counted'
  <2>1. \A i \in Inode : /\ Cardinality(Users(i)) \in Nat /\ leaked[i] \in Nat
                         /\ inodes[i].reference_count = Cardinality(Users(i)) + leaked[i]
    BY <1>1, UsersFinite DEF CountInv, Counted
  <2> QED BY <1>4, <1>9, <1>12, <2>1 DEF Counted
<1>14. TypeOK'
  BY <1>2, <1>4, <1>9, <1>10 DEF CountInv, TypeOK, InodeRec, disk
<1> QED BY <1>9, <1>11, <1>13, <1>14 DEF CountInv

(* The descriptors a process is born with lead to no inode.                *)
LEMMA StdFdsOK ==
  StdFds \in [Fd -> FdRec] /\ \A fd \in Fd : StdFds[fd].type # "INODE"
<1>1. 0 \in 0 .. OFFSET_MOD - 1
  BY FilesAssumption
<1>2. EmptyFd \in FdRec /\ EmptyFd.type = "EMPTY"
  BY <1>1 DEF EmptyFd, FdRec
<1>3. DeviceFd \in FdRec /\ DeviceFd.type = "DEVICE"
  BY <1>2 DEF DeviceFd, EmptyFd, FdRec
<1> QED BY <1>2, <1>3 DEF StdFds

(* proc_exec: the child refers to the working directory of its parent.     *)
LEMMA ExecKeeps ==
  ASSUME CountInv, NEW p \in Proc, NEW child \in Proc, NEW path \in Path,
         SysExec(p, child, path)
  PROVE  CountInv'
<1>1. /\ alive \subseteq Proc /\ inodes \in [Inode -> InodeRec] /\ leaked \in [Inode -> Nat]
      /\ cwd \in [Proc -> Inode \cup {NONE}] /\ fds \in [Proc -> [Fd -> FdRec]]
  BY DEF CountInv, TypeOK, InodeRec, FdRec
<1>2. p \in alive /\ calls' \in 0 .. MaxCalls /\ child \notin alive
  BY FilesAssumption DEF SysExec, Call, CountInv, TypeOK
<1>3. PICK c \in Inode : c = cwd[p]
  BY <1>2 DEF CountInv, RefsOK
<1>4. /\ inodes' = [inodes EXCEPT ![c].reference_count = @ + 1]
      /\ fds' = [fds EXCEPT ![child] = StdFds] /\ cwd' = [cwd EXCEPT ![child] = c]
      /\ alive' = alive \cup {child} /\ UNCHANGED <<disk, leaked, unlinked>>
  BY <1>3 DEF SysExec, fs_dup
<1>5. StdFds \in [Fd -> FdRec] /\ \A fd \in Fd : StdFds[fd].type # "INODE"
  BY StdFdsOK
<1>6. inodes[c].type # "EMPTY"
  <2>1. MAX_OPEN_FILES \in 0 .. MAX_OPEN_FILES
    BY FilesAssumption
  <2> QED BY <1>2, <1>3, <2>1, InUse DEF Refers
<1>7. /\ inodes' \in [Inode -> InodeRec] /\ \A i \in Inode : Filled(inodes'[i])
      /\ \A i \in Inode : inodes'[i].reference_count =
           inodes[i].reference_count + (IF i = c THEN 1 ELSE 0)
  <2>1. \A i \in Inode : inodes[i].reference_count \in Nat /\ Filled(inodes[i])
    BY <1>1 DEF InodeRec, CountInv
  <2>2. /\ \A i \in Inode : i # c => inodes'[i] = inodes[i]
        /\ inodes'[c] = [inodes[c] EXCEPT !.reference_count = inodes[c].reference_count + 1]
    BY <1>1, <1>4
  <2>3. inodes[c] \in InodeRec
    BY <1>1
  <2>4. /\ inodes'[c] \in InodeRec /\ Filled(inodes'[c])
        /\ inodes'[c].reference_count = inodes[c].reference_count + 1
    BY <1>6, <2>1, <2>2, <2>3 DEF InodeRec, Filled
  <2>5. inodes' \in [Inode -> InodeRec]
    BY <1>1, <1>4, <2>2, <2>4
  <2>6. \A i \in Inode : inodes'[i].reference_count =
          inodes[i].reference_count + (IF i = c THEN 1 ELSE 0)
    <3> TAKE i \in Inode
    <3>1. CASE i = c
      BY <2>4, <3>1
    <3>2. CASE i # c
      BY <2>1, <2>2, <3>2
    <3> QED BY <3>1, <3>2
  <2>7. \A i \in Inode : Filled(inodes'[i])
    BY <2>1, <2>2, <2>4
  <2> QED BY <2>5, <2>6, <2>7
<1>8. /\ fds' \in [Proc -> [Fd -> FdRec]] /\ fds'[child] = StdFds
      /\ cwd' \in [Proc -> Inode \cup {NONE}] /\ cwd'[child] = c
      /\ \A r \in Proc : r # child => fds'[r] = fds[r] /\ cwd'[r] = cwd[r]
  BY <1>1, <1>4, <1>5
<1>9. RefsOK'
  <2>1. \A r \in alive : r # child /\ r \in Proc
    BY <1>1, <1>2
  <2> QED BY <1>4, <1>5, <1>8, <2>1 DEF CountInv, RefsOK
<1>10. \A i \in Inode : Cardinality(Users(i)') = Cardinality(Users(i)) + (IF i = c THEN 1 ELSE 0)
  <2> TAKE i \in Inode
  <2>1. MAX_OPEN_FILES \in Nat /\ \A m \in 0 .. MAX_OPEN_FILES : m = MAX_OPEN_FILES \/ m \in Fd
    BY FilesAssumption DEF Fd
  <2>2. IsFiniteSet(Users(i)) /\ Cardinality(Users(i)) \in Nat
    BY <1>1, UsersFinite
  <2>3. \A r \in alive, m \in 0 .. MAX_OPEN_FILES : Refers(r, m, i)' <=> Refers(r, m, i)
    BY <1>1, <1>2, <1>8 DEF Refers
  <2>4. \A m \in 0 .. MAX_OPEN_FILES :
          Refers(child, m, i)' <=> (m = MAX_OPEN_FILES /\ i = c)
    BY <1>5, <1>8, <2>1 DEF Refers
  <2> DEFINE u == <<child, MAX_OPEN_FILES>>
  <2>5. u \notin Users(i)
    BY <1>2 DEF Users
  <2>6. Users(i)' = IF i = c THEN Users(i) \cup {u} ELSE Users(i)
    <3>1. \A x \in Users(i)' : x \in Users(i) \/ (i = c /\ x = u)
      <4> TAKE x \in Users(i)'
      <4>1. /\ x = <<x[1], x[2]>> /\ x[1] \in alive \cup {child} /\ x[2] \in 0 .. MAX_OPEN_FILES
            /\ Refers(x[1], x[2], i)'
        BY <1>4 DEF Users
      <4>2. CASE x[1] \in alive
        BY <2>3, <4>1, <4>2 DEF Users
      <4>3. CASE x[1] = child
        BY <2>4, <4>1, <4>3
      <4> QED BY <4>1, <4>2, <4>3
    <3>2. \A x \in Users(i) : x \in Users(i)'
      BY <1>4, <2>3 DEF Users
    <3>3. i = c => u \in Users(i)'
      <4>1. MAX_OPEN_FILES \in 0 .. MAX_OPEN_FILES
        BY <2>1
      <4> QED BY <1>4, <2>4, <4>1 DEF Users
    <3> HIDE DEF u
    <3> QED BY <3>1, <3>2, <3>3
  <2> HIDE DEF u
  <2>7. Cardinality(Users(i) \cup {u}) = Cardinality(Users(i)) + 1
    BY <2>2, <2>5, FS_AddElement
  <2>8. CASE i = c
    BY <2>2, <2>6, <2>7, <2>8
  <2>9. CASE i # c
    BY <2>2, <2>6, <2>9
  <2> QED BY <2>8, <2>9
<1>11. Counted'
  <2>1. \A i \in Inode : /\ Cardinality(Users(i)) \in Nat /\ leaked[i] \in Nat
                         /\ inodes[i].reference_count = Cardinality(Users(i)) + leaked[i]
    BY <1>1, UsersFinite DEF CountInv, Counted
  <2> QED BY <1>4, <1>7, <1>10, <2>1 DEF Counted
<1>12. TypeOK'
  BY <1>1, <1>2, <1>4, <1>7, <1>8 DEF CountInv, TypeOK, InodeRec, FdRec, disk
<1> QED BY <1>7, <1>9, <1>11, <1>12 DEF CountInv

(* Closing the files of p, as often as it has them open.                   *)
LEMMA ReleaseMany ==
  ASSUME NEW ino \in InodeRec, Filled(ino), NEW n \in Nat, n <= ino.reference_count
  PROVE  /\ Release(ino, n) \in InodeRec /\ Filled(Release(ino, n))
         /\ Release(ino, n).reference_count = ino.reference_count - n
         /\ Release(ino, n).type # "EMPTY" =>
              /\ Release(ino, n).type = ino.type /\ Release(ino, n).dnode = ino.dnode
              /\ Release(ino, n).size = ino.size
<1>1. CASE n > 0 /\ ino.reference_count = n
  BY <1>1 DEF Release, InodeRec, Filled, EmptyInode
<1>2. CASE n > 0 /\ ino.reference_count # n
  BY <1>2 DEF Release, InodeRec, Filled, EmptyInode
<1>3. CASE n = 0
  <2>1. ino.reference_count \in Nat
    BY DEF InodeRec
  <2>2. Release(ino, n) = [ino EXCEPT !.reference_count = ino.reference_count - 0]
    BY <1>3 DEF Release
  <2>3. Release(ino, n) = ino
    BY <2>1, <2>2 DEF InodeRec
  <2> QED BY <1>3, <2>1, <2>3
<1> QED BY <1>1, <1>2, <1>3

(* The references that end with p are its descriptors and its working      *)
(* directory.                                                              *)
LEMMA ExitCount ==
  ASSUME CountInv, NEW p \in alive, NEW i \in Inode, alive' = alive \ {p},
         \A r \in alive : r # p => fds'[r] = fds[r] /\ cwd'[r] = cwd[r]
  PROVE  /\ Cardinality(OpenOn(p, i)) \in Nat /\ Cardinality(Users(i)') \in Nat
         /\ Cardinality(Users(i)) = Cardinality(Users(i)') + Cardinality(OpenOn(p, i))
                                      + (IF cwd[p] = i THEN 1 ELSE 0)
<1>1. alive \subseteq Proc /\ MAX_OPEN_FILES \in Nat
  BY FilesAssumption DEF CountInv, TypeOK
<1>2. /\ Fd \subseteq 0 .. MAX_OPEN_FILES /\ MAX_OPEN_FILES \notin Fd
      /\ MAX_OPEN_FILES \in 0 .. MAX_OPEN_FILES
      /\ \A m \in 0 .. MAX_OPEN_FILES : m = MAX_OPEN_FILES \/ m \in Fd
  BY <1>1 DEF Fd
<1>3. \A r \in alive, m \in 0 .. MAX_OPEN_FILES : r # p => (Refers(r, m, i)' <=> Refers(r, m, i))
  BY DEF Refers
<1> DEFINE S == Users(i)
           T == Users(i)'
           O == OpenOn(p, i)
           A == {<<p, fd>> : fd \in O}
           u == <<p, MAX_OPEN_FILES>>
<1>4. IsFiniteSet(S)
  BY <1>1, UsersFinite
<1>5. IsFiniteSet(O) /\ Cardinality(O) \in Nat
  <2>1. IsFiniteSet(0 .. MAX_OPEN_FILES)
    BY <1>1, FS_Interval
  <2>2. O \subseteq 0 .. MAX_OPEN_FILES
    BY <1>2 DEF OpenOn
  <2> QED BY <2>1, <2>2, FS_Subset, FS_CardinalityType
<1>6. IsFiniteSet(A) /\ Cardinality(A) = Cardinality(O)
  <2> DEFINE f == [fd \in O |-> <<p, fd>>]
  <2>1. f \in Bijection(O, A)
    <3>1. f \in [O -> A]
      OBVIOUS
    <3>2. \A a, b \in O : f[a] = f[b] => a = b
      OBVIOUS
    <3>3. \A t \in A : \E a \in O : f[a] = t
      OBVIOUS
    <3> QED BY <3>1, <3>2, <3>3 DEF Bijection, Injection, Surjection, IsInjective
  <2>2. ExistsBijection(O, A)
    BY <2>1 DEF ExistsBijection
  <2> QED BY <1>5, <2>2, FS_Bijection
<1>7. \A x : x \in T <=> x \in S /\ x[1] # p
  <2>1. \A x : x \in T => x \in S /\ x[1] # p
    BY <1>3 DEF Users
  <2>2. \A x : x \in S /\ x[1] # p => x \in T
    BY <1>3 DEF Users
  <2> QED BY <2>1, <2>2
<1>8. \A x \in S : x[1] = p => x \in A \/ (x = u /\ cwd[p] = i)
  <2> TAKE x \in S
  <2>1. x = <<x[1], x[2]>> /\ x[2] \in 0 .. MAX_OPEN_FILES /\ Refers(x[1], x[2], i)
    BY DEF Users
  <2>2. ASSUME x[1] = p, x[2] = MAX_OPEN_FILES PROVE x = u /\ cwd[p] = i
    BY <2>1, <2>2 DEF Refers
  <2>3. ASSUME x[1] = p, x[2] \in Fd PROVE x \in A
    <3>1. x[2] \in O
      BY <1>2, <2>1, <2>3 DEF Refers, OpenOn
    <3> QED BY <2>1, <2>3, <3>1
  <2> QED BY <1>2, <2>1, <2>2, <2>3
<1>9. A \subseteq S /\ u \notin A /\ (u \in S <=> cwd[p] = i)
  <2>1. \A fd \in O : <<p, fd>> \in S
    BY <1>2 DEF Users, Refers, OpenOn
  <2>2. \A fd \in O : fd # MAX_OPEN_FILES
    BY <1>2 DEF OpenOn
  <2>3. u \in S <=> cwd[p] = i
    BY <1>2 DEF Users, Refers
  <2> QED BY <2>1, <2>2, <2>3
<1>10. T \cap A = {} /\ u \notin T
  BY <1>7
<1>11. S = (T \cup A) \cup (IF cwd[p] = i THEN {u} ELSE {})
  <2> HIDE DEF S, T, A, u
  <2> QED BY <1>7, <1>8, <1>9
<1>12. T \subseteq S
  BY <1>7
<1> HIDE DEF S, T, A, u, O
<1>13. IsFiniteSet(T) /\ Cardinality(T) \in Nat
  BY <1>4, <1>12, FS_Subset, FS_CardinalityType
<1>14. IsFiniteSet(T \cup A) /\ Cardinality(T \cup A) = Cardinality(T) + Cardinality(A)
  <2>1. Cardinality(T \cap A) = 0
    BY <1>10, FS_EmptySet
  <2>2. /\ IsFiniteSet(T \cup A)
        /\ Cardinality(T \cup A) = Cardinality(T) + Cardinality(A) - Cardinality(T \cap A)
    BY <1>6, <1>13, FS_Union
  <2> QED BY <1>5, <1>6, <1>13, <2>1, <2>2
<1>15. Cardinality(S) = Cardinality(T) + Cardinality(O) + (IF cwd[p] = i THEN 1 ELSE 0)
  <2>1. CASE cwd[p] = i
    <3>1. u \notin T \cup A
      BY <1>9, <1>10
    <3>2. Cardinality((T \cup A) \cup {u}) = Cardinality(T \cup A) + 1
      BY <1>14, <3>1, FS_AddElement
    <3> QED BY <1>6, <1>11, <1>14, <2>1, <3>2
  <2>2. CASE cwd[p] # i
    <3>1. S = T \cup A
      BY <1>11, <2>2
    <3> QED BY <1>5, <1>6, <1>13, <1>14, <2>2, <3>1
  <2> QED BY <2>1, <2>2
<1> QED BY <1>5, <1>13, <1>15 DEF S, T, O

(* proc_exit: the open files are closed, the working directory is not.     *)
LEMMA ExitKeeps ==
  ASSUME CountInv, NEW p \in Proc, SysExit(p)
  PROVE  CountInv'
<1>1. /\ alive \subseteq Proc /\ inodes \in [Inode -> InodeRec] /\ leaked \in [Inode -> Nat]
      /\ cwd \in [Proc -> Inode \cup {NONE}] /\ fds \in [Proc -> [Fd -> FdRec]]
  BY DEF CountInv, TypeOK, InodeRec, FdRec
<1>2. p \in alive /\ calls' \in 0 .. MaxCalls
  BY FilesAssumption DEF SysExit, Call, CountInv, TypeOK
<1>3. /\ inodes' = [i \in Inode |-> Release(inodes[i], Cardinality(OpenOn(p, i)))]
      /\ leaked' = [leaked EXCEPT ![cwd[p]] = @ + 1]
      /\ fds' = [fds EXCEPT ![p] = StdFds] /\ cwd' = [cwd EXCEPT ![p] = NONE]
      /\ alive' = alive \ {p} /\ UNCHANGED disk
  BY DEF SysExit, FilesClosed
<1>4. cwd[p] \in Inode
  BY <1>2 DEF CountInv, RefsOK
<1>5. /\ fds' \in [Proc -> [Fd -> FdRec]] /\ cwd' \in [Proc -> Inode \cup {NONE}]
      /\ \A r \in Proc : r # p => fds'[r] = fds[r] /\ cwd'[r] = cwd[r]
  BY <1>1, <1>3, StdFdsOK
<1>6. /\ leaked' \in [Inode -> Nat]
      /\ \A i \in Inode : leaked'[i] = leaked[i] + (IF cwd[p] = i THEN 1 ELSE 0)
  BY <1>1, <1>3, <1>4
<1>7. ASSUME NEW i \in Inode
      PROVE  /\ inodes'[i] \in InodeRec /\ Filled(inodes'[i])
             /\ inodes'[i].reference_count = Cardinality(Users(i)') + leaked'[i]
  <2>1. PICK n : n = Cardinality(OpenOn(p, i))
    OBVIOUS
  <2>2. /\ n \in Nat /\ Cardinality(Users(i)') \in Nat
        /\ Cardinality(Users(i)) = Cardinality(Users(i)') + n + (IF cwd[p] = i THEN 1 ELSE 0)
    <3>1. \A r \in alive : r # p => fds'[r] = fds[r] /\ cwd'[r] = cwd[r]
      BY <1>1, <1>5
    <3> QED BY <1>2, <1>3, <2>1, <3>1, ExitCount
  <2>3. /\ inodes[i] \in InodeRec /\ Filled(inodes[i]) /\ leaked[i] \in Nat
        /\ inodes[i].reference_count = Cardinality(Users(i)) + leaked[i]
    BY <1>1 DEF CountInv, Counted
  <2>4. n <= inodes[i].reference_count
    BY <2>2, <2>3
  <2>5. /\ Release(inodes[i], n) \in InodeRec /\ Filled(Release(inodes[i], n))
        /\ Release(inodes[i], n).reference_count = inodes[i].reference_count - n
    BY <2>2, <2>3, <2>4, ReleaseMany
  <2>6. inodes'[i] = Release(inodes[i], n)
    BY <1>3, <2>1
  <2>7. inodes[i].reference_count - n = Cardinality(Users(i)') + leaked'[i]
    BY <1>6, <2>2, <2>3
  <2> QED BY <2>5, <2>6, <2>7
<1>8. inodes' \in [Inode -> InodeRec]
  BY <1>3, <1>7
<1>9. RefsOK'
  <2>1. \A r \in alive : r # p => r \in Proc
    BY <1>1
  <2> QED BY <1>3, <1>5, <2>1 DEF CountInv, RefsOK
<1>10. unlinked' \subseteq Inode
  BY DEF SysExit, StillUnlinked, CountInv, TypeOK
<1>11. TypeOK'
  BY <1>1, <1>2, <1>3, <1>5, <1>6, <1>8, <1>10 DEF CountInv, TypeOK, InodeRec, FdRec, disk
<1>12. Counted'
  BY <1>7 DEF Counted
<1> QED BY <1>7, <1>9, <1>11, <1>12 DEF CountInv

(* A call is made by a process that lives, and is counted.                 *)
LEMMA CallTypes ==
  ASSUME CountInv, NEW p \in Proc, Call(p)
  PROVE  p \in alive /\ calls' \in 0 .. MaxCalls
BY FilesAssumption DEF Call, CountInv, TypeOK

(* Behind a descriptor is an inode in use, of a dnode.                     *)
LEMMA BehindFd ==
  ASSUME CountInv, NEW p \in alive, NEW fd \in Fd, fds[p][fd].type = "INODE"
  PROVE  LET i == fds[p][fd].inode
         IN  /\ i \in Inode /\ inodes[i].type # "EMPTY"
             /\ inodes[i].dnode \in Dnode \cup {ROOT}
             /\ inodes[i].size \in Nat
<1>1. PICK i \in Inode : i = fds[p][fd].inode
  BY DEF CountInv, RefsOK
<1>2. fd \in 0 .. MAX_OPEN_FILES /\ fd # MAX_OPEN_FILES
  BY FilesAssumption DEF Fd
<1>3. inodes[i].type # "EMPTY"
  BY <1>1, <1>2, InUse DEF Refers
<1>4. inodes[i].dnode \in Dnode \cup {ROOT} /\ inodes[i].size \in Nat
  BY <1>3 DEF CountInv, TypeOK, Filled
<1> QED BY <1>1, <1>3, <1>4

(* An offset is a natural number.                                          *)
LEMMA OffsetIsNat ==
  ASSUME CountInv, NEW p \in alive, NEW fd \in Fd
  PROVE  fds[p][fd].offset \in Nat
BY FilesAssumption DEF CountInv, TypeOK

(* lseek stays inside the file, and inside the width of an offset.         *)
LEMMA SeekInside ==
  ASSUME NEW offset \in Nat, NEW size \in Nat, NEW to \in Int,
         NEW whence \in {"SET", "CUR", "END"}
  PROVE  Seek(offset, size, to, whence) \in 0 .. OFFSET_MOD - 1
         /\ Seek(offset, size, to, whence) <= size
<1>1. OFFSET_MOD \in Nat /\ OFFSET_MOD > 0
  BY FilesAssumption
<1>2. \A x \in Int : x % OFFSET_MOD \in 0 .. OFFSET_MOD - 1
  BY <1>1
<1> DEFINE n == CASE whence = "SET" -> to % OFFSET_MOD
                  [] whence = "CUR" -> (offset + to) % OFFSET_MOD
                  [] whence = "END" -> (size - to) % OFFSET_MOD
<1>3. offset + to \in Int /\ size - to \in Int
  OBVIOUS
<1>4. n \in 0 .. OFFSET_MOD - 1
  <2>1. /\ to % OFFSET_MOD \in 0 .. OFFSET_MOD - 1
        /\ (offset + to) % OFFSET_MOD \in 0 .. OFFSET_MOD - 1
        /\ (size - to) % OFFSET_MOD \in 0 .. OFFSET_MOD - 1
    BY <1>2, <1>3
  <2>2. CASE whence = "SET"
    BY <2>1, <2>2
  <2>3. CASE whence = "CUR"
    BY <2>1, <2>3
  <2>4. CASE whence = "END"
    BY <2>1, <2>4
  <2> QED BY <2>2, <2>3, <2>4
<1>5. Seek(offset, size, to, whence) = IF n > size THEN size ELSE n
  BY DEF Seek
<1> HIDE DEF n
<1> QED BY <1>1, <1>4, <1>5

(* The number of entries of a folder is within the width of an offset.     *)
LEMMA StatWidth ==
  ASSUME DiskTypes, NEW d \in Dnode \cup {ROOT}
  PROVE  Stat(d, entry, node) \in 0 .. OFFSET_MOD - 1
<1>1. CASE d = ROOT
  <2>1. {q \in Path : entry[q] # NONE} \in SUBSET Path
    OBVIOUS
  <2>2. /\ Cardinality({q \in Path : entry[q] # NONE}) \in Nat
        /\ Cardinality({q \in Path : entry[q] # NONE}) <= Cardinality(Path)
        /\ Cardinality(Path) \in Nat
    BY <2>1, FilesAssumption, FS_Subset, FS_CardinalityType
  <2> QED BY <1>1, <2>2, FilesAssumption DEF Stat
<1>2. CASE d # ROOT
  <2>1. node[d].size \in 0 .. MaxSize /\ MaxSize < OFFSET_MOD /\ MaxSize \in Nat /\ OFFSET_MOD \in Nat
    BY <1>2, FilesAssumption DEF DiskTypes
  <2> QED BY <1>2, <2>1 DEF Stat
<1> QED BY <1>1, <1>2

(* A step in which only the offset of descriptor fd of p changes.          *)
OffsetSet(p, fd, x) == fds' = [fds EXCEPT ![p][fd].offset = x]

(* It gives the descriptor a new record, of the same inode.                *)
LEMMA OffsetMoves ==
  ASSUME CountInv, NEW p \in alive, NEW fd \in Fd, NEW x \in 0 .. OFFSET_MOD - 1,
         OffsetSet(p, fd, x)
  PROVE  \E new \in FdRec :
           /\ new.type = fds[p][fd].type /\ new.inode = fds[p][fd].inode /\ new.offset = x
           /\ fds' = [fds EXCEPT ![p][fd] = new]
<1>1. fds[p][fd] \in FdRec
  BY DEF CountInv, TypeOK, FdRec
<1>2. PICK new : new = [fds[p][fd] EXCEPT !.offset = x]
  OBVIOUS
<1>3. /\ new \in FdRec /\ new.type = fds[p][fd].type /\ new.inode = fds[p][fd].inode
      /\ new.offset = x
  BY <1>1, <1>2 DEF FdRec
<1>4. fds' = [fds EXCEPT ![p][fd] = new]
  BY <1>2 DEF OffsetSet
<1> QED BY <1>3, <1>4

(* sys_open with O_DEVICE.                                                 *)
LEMMA SysOpenDeviceKeeps ==
  ASSUME CountInv, NEW p \in Proc, SysOpenDevice(p)
  PROVE  CountInv'
<1>1. PICK fd \in Fd : FirstEmpty(p, fd) /\ fds' = [fds EXCEPT ![p][fd] = DeviceFd]
  BY DEF SysOpenDevice
<1>2. /\ p \in alive /\ calls' \in 0 .. MaxCalls
      /\ UNCHANGED <<disk, inodes, alive, cwd, leaked, unlinked>>
  BY CallTypes DEF SysOpenDevice
<1>3. DeviceFd \in FdRec /\ DeviceFd.type = "DEVICE"
  <2>1. 0 \in 0 .. OFFSET_MOD - 1
    BY FilesAssumption
  <2> QED BY <2>1 DEF DeviceFd, EmptyFd, FdRec
<1>4. RefsOK'
  BY <1>1, <1>2, <1>3, FdKeepsRefs
<1>5. \A i \in Inode : Cardinality(Users(i)') = Cardinality(Users(i))
  <2> TAKE i \in Inode
  <2>1. Cardinality(Users(i)) \in Nat
    BY UsersFinite DEF CountInv, TypeOK
  <2>2. Cardinality(Users(i)') =
          Cardinality(Users(i))
            + (IF DeviceFd.type = "INODE" /\ DeviceFd.inode = i THEN 1 ELSE 0)
            - (IF fds[p][fd].type = "INODE" /\ fds[p][fd].inode = i THEN 1 ELSE 0)
    BY <1>1, <1>2, <1>3, FdCount
  <2>3. fds[p][fd].type = "EMPTY"
    BY <1>1 DEF FirstEmpty
  <2> QED BY <1>3, <2>1, <2>2, <2>3
<1>6. Counted'
  BY <1>2, <1>5 DEF CountInv, Counted
<1>7. fds' \in [Proc -> [Fd -> FdRec]]
  BY <1>1, <1>2, <1>3, FdChange
<1>8. TypeOK'
  BY <1>2, <1>7 DEF CountInv, TypeOK, FdRec, disk
<1> QED BY <1>2, <1>4, <1>6, <1>8 DEF CountInv

(* sys_read, sys_readdir and lseek only move an offset.                    *)
LEMMA MoveKeeps ==
  ASSUME CountInv, NEW p \in alive, NEW fd \in Fd, NEW x \in 0 .. OFFSET_MOD - 1,
         OffsetSet(p, fd, x), calls' \in 0 .. MaxCalls,
         UNCHANGED <<disk, inodes, alive, cwd, leaked, unlinked>>
  PROVE  CountInv'
<1>1. PICK new \in FdRec :
        /\ new.type = fds[p][fd].type /\ new.inode = fds[p][fd].inode
        /\ fds' = [fds EXCEPT ![p][fd] = new]
  BY OffsetMoves
<1>2. DiskTypes' /\ inodes' \in [Inode -> InodeRec]
  BY DEF CountInv, TypeOK, DiskTypes, InodeRec, disk
<1> QED BY <1>1, <1>2, OffsetKeeps

(* The offset a call sets is within the file, unless that was deleted.     *)
MovesInside(p, fd) ==
  \E x \in 0 .. OFFSET_MOD - 1 :
    /\ OffsetSet(p, fd, x)
    /\ LET i == fds[p][fd].inode
       IN  inodes[i].type = "FILE" /\ i \notin unlinked => x <= node[inodes[i].dnode].size

(* sys_read stops at the end of the file.                                  *)
LEMMA ReadInside ==
  ASSUME CountInv, NEW p \in Proc, NEW fd \in Fd, NEW len \in 1 .. MaxLen, SysRead(p, fd, len)
  PROVE  MovesInside(p, fd)
<1>1. p \in alive /\ fds[p][fd].type = "INODE"
  BY CallTypes DEF SysRead
<1>2. PICK i \in Inode, d \in Dnode, offset \in Nat :
        /\ i = fds[p][fd].inode /\ d = inodes[i].dnode /\ offset = fds[p][fd].offset
  BY <1>1, BehindFd, OffsetIsNat DEF SysRead
<1>3. offset \in Nat /\ node[d].size \in 0 .. MaxSize /\ MaxSize \in Nat /\ MaxSize < OFFSET_MOD
  BY <1>1, <1>2, FilesAssumption DEF CountInv, TypeOK
<1>4. PICK x : x = offset + (IF node[d].size - offset < len THEN node[d].size - offset ELSE len)
  OBVIOUS
<1>5. OffsetSet(p, fd, x) /\ offset < node[d].size
  BY <1>2, <1>4 DEF SysRead, OffsetSet
<1>6. x \in 0 .. OFFSET_MOD - 1 /\ x <= node[d].size
  <2>1. OFFSET_MOD \in Nat /\ len \in Nat
    BY FilesAssumption
  <2> QED BY <1>3, <1>4, <1>5, <2>1
<1> QED BY <1>2, <1>5, <1>6 DEF MovesInside

(* sys_readdir stops with the last entry, and its inode is a folder.       *)
LEMMA ReadDirInside ==
  ASSUME CountInv, NEW p \in Proc, NEW fd \in Fd, NEW n \in 1 .. Cardinality(Path),
         SysReadDir(p, fd, n)
  PROVE  MovesInside(p, fd)
<1>1. p \in alive /\ fds[p][fd].type = "INODE"
  BY CallTypes DEF SysReadDir
<1>2. PICK i \in Inode, d \in Dnode \cup {ROOT}, offset \in Nat :
        /\ i = fds[p][fd].inode /\ d = inodes[i].dnode /\ offset = fds[p][fd].offset
  BY <1>1, BehindFd, OffsetIsNat
<1>3. offset \in Nat /\ Stat(d, entry, node) \in 0 .. OFFSET_MOD - 1 /\ OFFSET_MOD \in Nat
  BY <1>1, <1>2, FilesAssumption, StatWidth DEF CountInv, TypeOK, DiskTypes
<1>4. PICK x : x = offset + n
  OBVIOUS
<1>5. OffsetSet(p, fd, x) /\ x <= Stat(d, entry, node) /\ inodes[i].type = "DIRECTORY"
  BY <1>2, <1>4 DEF SysReadDir, OffsetSet
<1>6. x \in 0 .. OFFSET_MOD - 1
  <2>1. Cardinality(Path) \in Nat
    BY FilesAssumption, FS_CardinalityType
  <2> QED BY <1>3, <1>4, <1>5, <2>1
<1> QED BY <1>2, <1>5, <1>6 DEF MovesInside

(* lseek stops at the size that the inode knows.                           *)
LEMMA SysSeekInside ==
  ASSUME CountInv, FileInv, NEW p \in Proc, NEW fd \in Fd, NEW to \in -1 .. 1,
         NEW whence \in {"SET", "CUR", "END"}, SysSeek(p, fd, to, whence)
  PROVE  MovesInside(p, fd)
<1>1. p \in alive /\ fds[p][fd].type = "INODE"
  BY CallTypes DEF SysSeek
<1>2. PICK i \in Inode, offset \in Nat, size \in Nat :
        i = fds[p][fd].inode /\ offset = fds[p][fd].offset /\ size = inodes[i].size
  BY <1>1, BehindFd, OffsetIsNat
<1>3. offset \in Nat /\ size \in Nat /\ to \in Int
  BY <1>1, <1>2, FilesAssumption DEF CountInv, TypeOK
<1>4. PICK x : x = Seek(offset, size, to, whence)
  OBVIOUS
<1>5. OffsetSet(p, fd, x)
  BY <1>2, <1>4 DEF SysSeek, OffsetSet
<1>6. x \in 0 .. OFFSET_MOD - 1 /\ x <= size
  BY <1>3, <1>4, SeekInside
<1>7. inodes[i].type = "FILE" /\ i \notin unlinked => x <= node[inodes[i].dnode].size
  <2> HAVE inodes[i].type = "FILE" /\ i \notin unlinked
  <2>1. inodes[i].dnode \in Dnode
    BY DEF CountInv, Filled
  <2>2. node[inodes[i].dnode].size \in 0 .. MaxSize /\ MaxSize \in Nat
    BY <2>1, FilesAssumption DEF CountInv, TypeOK
  <2>3. size <= node[inodes[i].dnode].size
    BY <1>2 DEF FileInv
  <2> QED BY <1>3, <1>6, <2>2, <2>3, FilesAssumption
<1> QED BY <1>2, <1>5, <1>6, <1>7 DEF MovesInside

-----------------------------------------------------------------------------
(* The inodes and the disk.                                                *)

(* What a step may do to inode i: empty it, leave it with its file, or     *)
(* give an empty one to dnode d, of which no inode is in use.              *)
Emptied(i) == inodes'[i].type = "EMPTY" /\ inodes'[i].dnode = NONE

Kept(i) ==
  /\ inodes[i].type # "EMPTY"
  /\ inodes'[i].type = inodes[i].type /\ inodes'[i].dnode = inodes[i].dnode
  /\ \/ inodes'[i].size = inodes[i].size
     \/ inodes[i].type = "FILE" /\ i \notin unlinked =>
          inodes'[i].size <= node'[inodes[i].dnode].size

Fresh(i, d) ==
  /\ inodes[i].type = "EMPTY" /\ inodes'[i].type # "EMPTY" /\ inodes'[i].dnode = d
  /\ d \in Linked' \cup {ROOT}
  /\ inodes'[i].type = "FILE" => d \in Dnode /\ inodes'[i].size <= node'[d].size
  /\ \A j \in Inode : inodes[j].type # "EMPTY" => inodes[j].dnode # d

(* An inode that is in use before and after a step has the same dnode, and *)
(* a deleted file stays deleted.                                           *)
SameFile ==
  \A i \in Inode :
    inodes[i].type # "EMPTY" /\ inodes'[i].type # "EMPTY" =>
      /\ inodes'[i].dnode = inodes[i].dnode /\ inodes'[i].type = inodes[i].type
      /\ i \in unlinked => i \in unlinked'

(* What all steps have in common: the dnode of an inode whose file is not  *)
(* deleted stays linked and does not shrink, at most inode k is given to a *)
(* dnode, and every descriptor was there before or is set within its file. *)
LEMMA StepKeepsFiles ==
  ASSUME CountInv, FileInv, CountInv', NEW k, NEW d,
         \A i \in Inode : Emptied(i) \/ Kept(i) \/ (i = k /\ Fresh(i, d)),
         \A i \in Inode : inodes[i].type # "EMPTY" /\ i \notin unlinked'
                            /\ inodes[i].dnode \in Linked =>
                          /\ inodes[i].dnode \in Linked'
                          /\ node[inodes[i].dnode].size <= node'[inodes[i].dnode].size,
         \A i \in unlinked : inodes'[i].type # "EMPTY" => i \in unlinked',
         \A p \in alive', fd \in Fd :
           fds'[p][fd].type = "INODE" =>
             Within(p, fd)' \/ (p \in alive /\ fds'[p][fd] = fds[p][fd])
  PROVE  FileInv' /\ SameFile
<1>1. SameFile
  BY DEF SameFile, Emptied, Kept, Fresh
<1>2. \A i \in Inode : inodes'[i].type # "EMPTY" => inodes'[i].dnode # NONE
  BY DEF CountInv, Filled
<1>3. OneInodePerFile'
  <2> SUFFICES ASSUME NEW i \in Inode, NEW j \in Inode,
                      inodes'[i].type # "EMPTY", inodes'[i].dnode = inodes'[j].dnode
               PROVE  i = j
    BY DEF OneInodePerFile
  <2>1. ~Emptied(i) /\ ~Emptied(j)
    BY <1>2 DEF Emptied
  <2> QED BY <2>1 DEF FileInv, OneInodePerFile, Kept, Fresh
<1>4. ASSUME NEW i \in Inode, inodes'[i].type # "EMPTY", i \notin unlinked'
      PROVE  /\ inodes'[i].dnode \in Linked' \cup {ROOT}
             /\ inodes'[i].type = "FILE" => inodes'[i].size <= node'[inodes'[i].dnode].size
             /\ inodes[i].type = "FILE" => /\ i \notin unlinked
                  /\ inodes[i].dnode \in Dnode /\ inodes'[i].dnode = inodes[i].dnode
                  /\ node[inodes[i].dnode].size <= node'[inodes[i].dnode].size
  <2>1. i \notin unlinked /\ ~Emptied(i)
    BY <1>4 DEF Emptied
  <2>2. CASE Kept(i)
    <3>1. inodes[i].dnode \in Linked \cup {ROOT}
      BY <2>1, <2>2 DEF FileInv, Kept
    <3>2. inodes'[i].dnode \in Linked' \cup {ROOT}
      BY <1>4, <2>2, <3>1 DEF Kept
    <3>3. inodes[i].type = "FILE" => inodes[i].dnode \in Dnode
      BY DEF CountInv, Filled
    <3>4. inodes[i].type = "FILE" =>
            node[inodes[i].dnode].size <= node'[inodes[i].dnode].size
      BY <1>4, <2>2, <3>1, <3>3, FilesAssumption DEF Kept
    <3>5. inodes[i].type = "FILE" => inodes'[i].size <= node'[inodes[i].dnode].size
      <4> HAVE inodes[i].type = "FILE"
      <4>1. inodes[i].size <= node[inodes[i].dnode].size
        BY <2>1 DEF FileInv
      <4>2. /\ inodes[i].size \in Nat /\ node[inodes[i].dnode].size \in Int
            /\ node'[inodes[i].dnode].size \in Int
        BY <3>3, FilesAssumption DEF CountInv, TypeOK
      <4>3. CASE inodes'[i].size = inodes[i].size
        BY <3>4, <4>1, <4>2, <4>3
      <4>4. CASE inodes'[i].size <= node'[inodes[i].dnode].size
        BY <4>4
      <4> QED BY <2>1, <2>2, <4>3, <4>4 DEF Kept
    <3> QED BY <2>1, <2>2, <3>2, <3>3, <3>4, <3>5 DEF Kept
  <2>3. CASE Fresh(i, d)
    BY <2>3 DEF Fresh
  <2> QED BY <2>1, <2>2, <2>3
<1>5. \A p \in alive', fd \in Fd : fds'[p][fd].type = "INODE" => Within(p, fd)'
  <2> SUFFICES ASSUME NEW p \in alive', NEW fd \in Fd, fds'[p][fd].type = "INODE",
                      p \in alive, fds'[p][fd] = fds[p][fd]
               PROVE  Within(p, fd)'
    OBVIOUS
  <2>1. PICK i \in Inode : i = fds[p][fd].inode /\ inodes[i].type # "EMPTY"
    BY BehindFd
  <2>2. fds'[p][fd].inode = i /\ fds'[p][fd].offset = fds[p][fd].offset
    BY <2>1
  <2>3. SUFFICES ASSUME inodes'[i].type = "FILE", i \notin unlinked'
                 PROVE  fds[p][fd].offset <= node'[inodes'[i].dnode].size
    BY <2>2 DEF Within
  <2>4. inodes[i].type = "FILE"
    BY <1>1, <2>1, <2>3 DEF SameFile
  <2>5. /\ i \notin unlinked /\ inodes[i].dnode \in Dnode /\ inodes'[i].dnode = inodes[i].dnode
        /\ node[inodes[i].dnode].size <= node'[inodes[i].dnode].size
    BY <1>4, <2>3, <2>4
  <2>6. fds[p][fd].offset <= node[inodes[i].dnode].size
    <3>1. fds[p][fd].type = "INODE"
      OBVIOUS
    <3>2. Within(p, fd)
      BY <3>1 DEF FileInv
    <3> QED BY ONLY <2>1, <2>4, <2>5, <3>2 DEF Within
  <2>7. /\ fds[p][fd].offset \in Int /\ node[inodes[i].dnode].size \in Int
        /\ node'[inodes[i].dnode].size \in Int
    BY <2>5, FilesAssumption DEF CountInv, TypeOK
  <2> QED BY <2>5, <2>6, <2>7
<1> QED BY <1>1, <1>3, <1>4, <1>5 DEF FileInv

(* A disk that stays as it is suits StepKeepsFiles, and so do inodes.      *)
LEMMA DiskStays ==
  ASSUME UNCHANGED disk
  PROVE  /\ Linked' = Linked
         /\ \A i \in Inode : inodes[i].dnode \in Linked /\ CountInv =>
              node[inodes[i].dnode].size <= node'[inodes[i].dnode].size
<1>1. entry' = entry /\ node' = node
  BY DEF disk
<1>2. Linked' = Linked
  BY <1>1 DEF Linked
<1>3. \A i \in Inode : inodes[i].dnode \in Linked /\ CountInv =>
        node[inodes[i].dnode].size <= node'[inodes[i].dnode].size
  <2> SUFFICES ASSUME NEW i \in Inode, inodes[i].dnode \in Linked, CountInv
               PROVE  node[inodes[i].dnode].size <= node'[inodes[i].dnode].size
    OBVIOUS
  <2>1. inodes[i].dnode \in Dnode
    BY DEF Linked, CountInv, TypeOK
  <2>2. node[inodes[i].dnode].size \in Int
    BY <2>1, FilesAssumption DEF CountInv, TypeOK
  <2> QED BY <1>1, <2>2
<1> QED BY <1>2, <1>3

(* Inodes that stay as they are.                                           *)
LEMMA InodesStay ==
  ASSUME CountInv, NEW i \in Inode, inodes'[i] = inodes[i]
  PROVE  Emptied(i) \/ Kept(i)
BY DEF CountInv, Filled, EmptyInode, Emptied, Kept

(* A step in which only descriptor fd of p changes.                        *)
FdSet(p, fd, new) == fds' = [fds EXCEPT ![p][fd] = new]

(* A descriptor of a process that lives is the new one, or as it was.      *)
LEMMA OtherFds ==
  ASSUME CountInv, NEW p \in alive, NEW fd \in Fd, NEW new \in FdRec, FdSet(p, fd, new)
  PROVE  /\ fds'[p][fd] = new
         /\ \A r \in alive, e \in Fd : r # p \/ e # fd => fds'[r][e] = fds[r][e]
<1>1. fds \in [Proc -> [Fd -> FdRec]] /\ alive \subseteq Proc
  BY DEF CountInv, TypeOK, FdRec
<1>2. fds'[p][fd] = new
  BY <1>1 DEF FdSet
<1>3. \A r \in Proc, e \in Fd : r # p \/ e # fd => fds'[r][e] = fds[r][e]
  BY <1>1 DEF FdSet
<1> QED BY <1>1, <1>2, <1>3

(* A step in which descriptor fd of p moves inside its file.               *)
LEMMA MoveKeepsFiles ==
  ASSUME CountInv, FileInv, NEW p \in alive, NEW fd \in Fd, fds[p][fd].type = "INODE",
         MovesInside(p, fd), calls' \in 0 .. MaxCalls,
         UNCHANGED <<disk, inodes, alive, cwd, leaked, unlinked>>
  PROVE  CountInv' /\ FileInv' /\ SameFile
<1>1. PICK x \in 0 .. OFFSET_MOD - 1 :
        /\ OffsetSet(p, fd, x)
        /\ LET i == fds[p][fd].inode
           IN  inodes[i].type = "FILE" /\ i \notin unlinked => x <= node[inodes[i].dnode].size
  BY DEF MovesInside
<1>2. CountInv'
  BY <1>1, MoveKeeps
<1>3. PICK new \in FdRec :
        /\ new.type = fds[p][fd].type /\ new.inode = fds[p][fd].inode /\ new.offset = x
        /\ FdSet(p, fd, new)
  BY <1>1, OffsetMoves DEF FdSet
<1>4. /\ fds'[p][fd] = new
      /\ \A r \in alive, e \in Fd : r # p \/ e # fd => fds'[r][e] = fds[r][e]
  BY <1>3, OtherFds
<1>5. Within(p, fd)'
  BY <1>1, <1>3, <1>4 DEF Within, disk
<1>6. \A r \in alive', e \in Fd : fds'[r][e].type = "INODE" =>
        Within(r, e)' \/ (r \in alive /\ fds'[r][e] = fds[r][e])
  BY <1>4, <1>5
<1>7. \A i \in Inode : Emptied(i) \/ Kept(i)
  BY InodesStay
<1> QED BY <1>2, <1>6, <1>7, DiskStays, StepKeepsFiles

(* sys_open with O_DEVICE touches no file.                                 *)
LEMMA OpenDeviceKeepsFiles ==
  ASSUME CountInv, FileInv, NEW p \in Proc, SysOpenDevice(p)
  PROVE  CountInv' /\ FileInv' /\ SameFile
<1>1. CountInv'
  BY SysOpenDeviceKeeps
<1>2. PICK fd \in Fd : FdSet(p, fd, DeviceFd)
  BY DEF SysOpenDevice, FdSet
<1>3. p \in alive /\ UNCHANGED <<disk, inodes, alive, unlinked>>
  BY CallTypes DEF SysOpenDevice
<1>4. DeviceFd \in FdRec /\ DeviceFd.type = "DEVICE"
  <2>1. 0 \in 0 .. OFFSET_MOD - 1
    BY FilesAssumption
  <2> QED BY <2>1 DEF DeviceFd, EmptyFd, FdRec
<1>5. /\ fds'[p][fd] = DeviceFd
      /\ \A r \in alive, e \in Fd : r # p \/ e # fd => fds'[r][e] = fds[r][e]
  BY <1>2, <1>3, <1>4, OtherFds
<1>6. \A r \in alive', e \in Fd : fds'[r][e].type = "INODE" =>
        r \in alive /\ fds'[r][e] = fds[r][e]
  BY <1>3, <1>4, <1>5
<1>7. \A i \in Inode : Emptied(i) \/ Kept(i)
  BY <1>3, InodesStay
<1> QED BY <1>1, <1>3, <1>6, <1>7, DiskStays, StepKeepsFiles

(* sys_close empties an inode or leaves it with its file.                  *)
LEMMA CloseKeepsFiles ==
  ASSUME CountInv, FileInv, NEW p \in Proc, NEW fd \in Fd, SysClose(p, fd)
  PROVE  CountInv' /\ FileInv' /\ SameFile
<1>1. CountInv'
  BY CloseKeeps
<1>2. /\ p \in alive /\ fds[p][fd].type = "INODE" /\ UNCHANGED <<disk, alive>>
      /\ FdSet(p, fd, EmptyFd)
      /\ unlinked' = {i \in unlinked : inodes'[i].type # "EMPTY"}
  BY CallTypes DEF SysClose, StillUnlinked, FdSet
<1>3. PICK c \in Inode : c = fds[p][fd].inode /\ inodes[c].type # "EMPTY"
  BY <1>2, BehindFd
<1>4. inodes \in [Inode -> InodeRec] /\ \A i \in Inode : Filled(inodes[i])
  BY DEF CountInv, TypeOK, InodeRec
<1>5. inodes'[c] = Release(inodes[c], 1) /\ \A i \in Inode : i # c => inodes'[i] = inodes[i]
  BY <1>3, <1>4 DEF SysClose, fs_close
<1>6. inodes'[c].type # "EMPTY" => /\ inodes'[c].type = inodes[c].type
                                   /\ inodes'[c].dnode = inodes[c].dnode
                                   /\ inodes'[c].size = inodes[c].size
  BY <1>3, <1>4, <1>5, ReleaseOne
<1>7. \A i \in Inode : Emptied(i) \/ Kept(i)
  <2> TAKE i \in Inode
  <2>1. CASE i = c
    <3>1. CASE inodes'[c].type = "EMPTY"
      BY <1>1, <2>1, <3>1 DEF Emptied, CountInv, Filled, EmptyInode
    <3>2. CASE inodes'[c].type # "EMPTY"
      BY <1>3, <1>6, <2>1, <3>2 DEF Kept
    <3> QED BY <3>1, <3>2
  <2>2. CASE i # c
    BY <1>5, <2>2, InodesStay
  <2> QED BY <2>1, <2>2
<1>8. EmptyFd \in FdRec /\ EmptyFd.type = "EMPTY"
  BY FilesAssumption DEF EmptyFd, FdRec
<1>9. /\ fds'[p][fd] = EmptyFd
      /\ \A r \in alive, e \in Fd : r # p \/ e # fd => fds'[r][e] = fds[r][e]
  BY <1>2, <1>8, OtherFds
<1>10. \A r \in alive', e \in Fd : fds'[r][e].type = "INODE" =>
         r \in alive /\ fds'[r][e] = fds[r][e]
  BY <1>2, <1>8, <1>9
<1>11. \A i \in unlinked : inodes'[i].type # "EMPTY" => i \in unlinked'
  BY <1>2
<1> QED BY <1>1, <1>2, <1>7, <1>10, <1>11, DiskStays, StepKeepsFiles

(* proc_exit closes files, and opens none.                                 *)
LEMMA ExitKeepsFiles ==
  ASSUME CountInv, FileInv, NEW p \in Proc, SysExit(p)
  PROVE  CountInv' /\ FileInv' /\ SameFile
<1>1. CountInv'
  BY ExitKeeps
<1>2. /\ p \in alive /\ UNCHANGED disk /\ alive' = alive \ {p}
      /\ fds' = [fds EXCEPT ![p] = StdFds]
      /\ unlinked' = {i \in unlinked : inodes'[i].type # "EMPTY"}
  BY CallTypes DEF SysExit, StillUnlinked
<1>3. /\ inodes \in [Inode -> InodeRec] /\ \A i \in Inode : Filled(inodes[i])
      /\ fds \in [Proc -> [Fd -> FdRec]] /\ alive \subseteq Proc
  BY DEF CountInv, TypeOK, InodeRec, FdRec
<1>4. \A i \in Inode : Emptied(i) \/ Kept(i)
  <2> TAKE i \in Inode
  <2>1. PICK n : n = Cardinality(OpenOn(p, i)) /\ inodes'[i] = Release(inodes[i], n)
    BY DEF SysExit, FilesClosed
  <2>2. inodes[i] \in InodeRec /\ Filled(inodes[i])
    BY <1>3
  <2>3. CASE inodes'[i].type = "EMPTY"
    BY <1>1, <2>3 DEF Emptied, CountInv, Filled, EmptyInode
  <2>4. CASE inodes'[i].type # "EMPTY"
    <3>1. inodes'[i] = [inodes[i] EXCEPT !.reference_count = inodes[i].reference_count - n]
      BY <2>1, <2>4 DEF Release, EmptyInode
    <3>2. /\ inodes'[i].type = inodes[i].type /\ inodes'[i].dnode = inodes[i].dnode
          /\ inodes'[i].size = inodes[i].size
      BY <2>2, <3>1 DEF InodeRec
    <3> QED BY <2>4, <3>2 DEF Kept
  <2> QED BY <2>3, <2>4
<1>5. \A r \in alive', e \in Fd : fds'[r][e].type = "INODE" =>
        r \in alive /\ fds'[r][e] = fds[r][e]
  BY <1>2, <1>3
<1>6. \A i \in unlinked : inodes'[i].type # "EMPTY" => i \in unlinked'
  BY <1>2
<1> QED BY <1>1, <1>2, <1>4, <1>5, <1>6, DiskStays, StepKeepsFiles

(* proc_exec gives the child no open file.                                 *)
LEMMA ExecKeepsFiles ==
  ASSUME CountInv, FileInv, NEW p \in Proc, NEW child \in Proc, NEW path \in Path,
         SysExec(p, child, path)
  PROVE  CountInv' /\ FileInv' /\ SameFile
<1>1. CountInv'
  BY ExecKeeps
<1>2. /\ p \in alive /\ UNCHANGED disk /\ alive' = alive \cup {child}
      /\ fds' = [fds EXCEPT ![child] = StdFds] /\ unlinked' = unlinked
  BY CallTypes DEF SysExec
<1>3. /\ inodes \in [Inode -> InodeRec] /\ \A i \in Inode : Filled(inodes[i])
      /\ fds \in [Proc -> [Fd -> FdRec]] /\ alive \subseteq Proc
  BY DEF CountInv, TypeOK, InodeRec, FdRec
<1>4. PICK c \in Inode : c = cwd[p]
  BY <1>2 DEF CountInv, RefsOK
<1>5. inodes[c].type # "EMPTY"
  <2>1. MAX_OPEN_FILES \in 0 .. MAX_OPEN_FILES
    BY FilesAssumption
  <2> QED BY <1>2, <1>4, <2>1, InUse DEF Refers
<1>6. \A i \in Inode : Emptied(i) \/ Kept(i)
  <2> TAKE i \in Inode
  <2>1. inodes' = [inodes EXCEPT ![c].reference_count = @ + 1]
    BY <1>4 DEF SysExec, fs_dup
  <2>2. CASE i = c
    <3>1. inodes'[c] = [inodes[c] EXCEPT !.reference_count = inodes[c].reference_count + 1]
      BY <1>3, <2>1
    <3>2. inodes[c] \in InodeRec
      BY <1>3
    <3>3. /\ inodes'[c].type = inodes[c].type /\ inodes'[c].dnode = inodes[c].dnode
          /\ inodes'[c].size = inodes[c].size
      BY <3>1, <3>2 DEF InodeRec
    <3> QED BY <1>5, <2>2, <3>3 DEF Kept
  <2>3. CASE i # c
    <3>1. inodes'[i] = inodes[i]
      BY <1>3, <2>1, <2>3
    <3> QED BY <3>1, InodesStay
  <2> QED BY <2>2, <2>3
<1>7. \A r \in alive', e \in Fd : fds'[r][e].type = "INODE" =>
        r \in alive /\ fds'[r][e] = fds[r][e]
  <2> SUFFICES ASSUME NEW r \in alive', NEW e \in Fd, fds'[r][e].type = "INODE"
               PROVE  r \in alive /\ fds'[r][e] = fds[r][e]
    OBVIOUS
  <2>1. fds'[child] = StdFds /\ \A q \in Proc : q # child => fds'[q] = fds[q]
    BY <1>2, <1>3
  <2>2. r # child
    BY <2>1, StdFdsOK
  <2> QED BY <1>2, <1>3, <2>1, <2>2
<1> QED BY <1>1, <1>2, <1>6, <1>7, DiskStays, StepKeepsFiles

(* What is made is a dnode that no path led to, so the files that were     *)
(* there stay.                                                             *)
LEMMA CreateKeepsLinked ==
  ASSUME CountInv, NEW path \in Path, NEW kind \in {"FILE", "DIRECTORY"}, NEW d \in Dnode,
         OpenPath(path, d) \/ CreatePath(path, kind, d)
  PROVE  /\ d \in Linked'
         /\ \A e \in Linked : e \in Linked' /\ node[e].size <= node'[e].size
<1>1. /\ entry \in [Path -> Dnode \cup {NONE}]
      /\ node \in [Dnode -> [kind : {"FILE", "DIRECTORY"}, size : 0 .. MaxSize]]
  BY DEF CountInv, TypeOK
<1>2. \A e \in Linked : e \in Dnode /\ node[e].size \in Int
  <2>1. Linked \subseteq Dnode
    BY <1>1 DEF Linked
  <2> QED BY <1>1, <2>1, FilesAssumption
<1>3. CASE OpenPath(path, d)
  BY <1>2, <1>3 DEF OpenPath, Linked, disk
<1>4. CASE CreatePath(path, kind, d)
  <2>1. /\ entry'[path] = d /\ \A q \in Path : q # path => entry'[q] = entry[q]
        /\ \A e \in Dnode : e # d => node'[e] = node[e]
        /\ entry[path] = NONE /\ d \notin Linked
    BY <1>1, <1>4 DEF CreatePath
  <2>2. d \in Linked'
    BY <2>1, FilesAssumption DEF Linked
  <2>3. \A e \in Linked : e \in Linked'
    BY <2>1 DEF Linked
  <2> QED BY <1>2, <2>1, <2>2, <2>3
<1> QED BY <1>3, <1>4

(* sys_mkdir: a dnode more, and the inodes as they were.                   *)
LEMMA MkdirKeepsFiles ==
  ASSUME CountInv, FileInv, NEW p \in Proc, NEW path \in Path, SysMkdir(p, path)
  PROVE  CountInv' /\ FileInv' /\ SameFile
<1>1. PICK d \in Dnode : CreatePath(path, "DIRECTORY", d)
  BY DEF SysMkdir
<1>2. calls' \in 0 .. MaxCalls /\ UNCHANGED <<inodes, alive, fds, cwd, leaked, unlinked>>
  BY CallTypes DEF SysMkdir
<1>3. DiskTypes'
  BY <1>1, CreateTypes DEF CountInv, TypeOK, DiskTypes
<1>4. CountInv'
  <2>1. \A i \in Inode : Users(i)' = Users(i)
    BY <1>2 DEF Users, Refers
  <2>2. TypeOK'
    BY <1>2, <1>3 DEF CountInv, TypeOK, DiskTypes
  <2> QED BY <1>2, <2>1, <2>2 DEF CountInv, Counted, RefsOK
<1>5. \A e \in Linked : e \in Linked' /\ node[e].size <= node'[e].size
  BY <1>1, CreateKeepsLinked
<1>6. \A i \in Inode : Emptied(i) \/ Kept(i)
  BY <1>2, InodesStay
<1>7. \A r \in alive', e \in Fd : fds'[r][e].type = "INODE" =>
        r \in alive /\ fds'[r][e] = fds[r][e]
  BY <1>2
<1> QED BY <1>2, <1>4, <1>5, <1>6, <1>7, StepKeepsFiles

(* sys_unlink: the inodes of the dnode are deleted files from now on, and  *)
(* the others keep a path.                                                 *)
LEMMA UnlinkKeepsFiles ==
  ASSUME CountInv, FileInv, NEW p \in Proc, NEW path \in Path, SysUnlink(p, path)
  PROVE  CountInv' /\ FileInv' /\ SameFile
<1>1. /\ calls' \in 0 .. MaxCalls /\ UNCHANGED <<node, inodes, alive, fds, cwd, leaked>>
      /\ entry' = [entry EXCEPT ![path] = NONE]
      /\ unlinked' = unlinked \cup Cached(entry[path])
  BY CallTypes DEF SysUnlink
<1>2. /\ entry \in [Path -> Dnode \cup {NONE}] /\ entry' \in [Path -> Dnode \cup {NONE}]
      /\ \A q \in Path : q # path => entry'[q] = entry[q]
  BY <1>1 DEF CountInv, TypeOK
<1>3. CountInv'
  <2>1. \A i \in Inode : Users(i)' = Users(i)
    BY <1>1 DEF Users, Refers
  <2>2. TypeOK'
    BY <1>1, <1>2 DEF CountInv, TypeOK, Cached
  <2> QED BY <1>1, <2>1, <2>2 DEF CountInv, Counted, RefsOK
<1>4. \A i \in Inode : inodes[i].type # "EMPTY" /\ i \notin unlinked'
                         /\ inodes[i].dnode \in Linked =>
        /\ inodes[i].dnode \in Linked'
        /\ node[inodes[i].dnode].size <= node'[inodes[i].dnode].size
  <2> SUFFICES ASSUME NEW i \in Inode, inodes[i].type # "EMPTY", i \notin unlinked',
                      inodes[i].dnode \in Linked
               PROVE  /\ inodes[i].dnode \in Linked'
                      /\ node[inodes[i].dnode].size <= node'[inodes[i].dnode].size
    OBVIOUS
  <2>1. inodes[i].dnode # entry[path]
    BY <1>1 DEF Cached
  <2>2. PICK q \in Path : entry[q] = inodes[i].dnode
    BY DEF Linked
  <2>3. entry'[q] = inodes[i].dnode /\ inodes[i].dnode # NONE /\ inodes[i].dnode \in Dnode
    BY <1>2, <2>1, <2>2 DEF Linked
  <2>4. node[inodes[i].dnode].size \in Int
    BY <2>3, FilesAssumption DEF CountInv, TypeOK
  <2> QED BY <1>1, <2>3, <2>4 DEF Linked
<1>5. \A i \in Inode : Emptied(i) \/ Kept(i)
  BY <1>1, InodesStay
<1>6. \A r \in alive', e \in Fd : fds'[r][e].type = "INODE" =>
        r \in alive /\ fds'[r][e] = fds[r][e]
  BY <1>1
<1>7. \A i \in unlinked : inodes'[i].type # "EMPTY" => i \in unlinked'
  BY <1>1
<1> QED BY <1>3, <1>4, <1>5, <1>6, <1>7, StepKeepsFiles

(* sys_write: the dnode grows by at least as much as its inode, and the    *)
(* offset stays behind it.                                                 *)
LEMMA WriteKeepsFiles ==
  ASSUME CountInv, FileInv, NEW p \in Proc, NEW fd \in Fd, NEW len \in 1 .. MaxLen,
         SysWrite(p, fd, len)
  PROVE  CountInv' /\ FileInv' /\ SameFile
<1>1. /\ p \in alive /\ fds[p][fd].type = "INODE" /\ calls' \in 0 .. MaxCalls
      /\ UNCHANGED <<entry, alive, cwd, leaked, unlinked>>
  BY CallTypes DEF SysWrite
<1>2. PICK c \in Inode, d \in Dnode, offset \in Nat :
        /\ c = fds[p][fd].inode /\ d = inodes[c].dnode /\ offset = fds[p][fd].offset
        /\ inodes[c].type # "EMPTY"
  BY <1>1, BehindFd, OffsetIsNat DEF SysWrite
<1>a. PICK size, x : size = SizeAfterWrite(inodes[c], offset, len) /\ x = offset + len
  OBVIOUS
<1>3. /\ offset <= node[d].size /\ node[d].size + len <= MaxSize
      /\ node' = [node EXCEPT ![d].size = @ + len]
      /\ inodes' = [inodes EXCEPT ![c].size = size]
      /\ OffsetSet(p, fd, x)
  BY <1>2, <1>a DEF SysWrite, OffsetSet
<1>4. /\ inodes \in [Inode -> InodeRec] /\ offset \in Nat /\ inodes[c].size \in Nat
      /\ node \in [Dnode -> [kind : {"FILE", "DIRECTORY"}, size : 0 .. MaxSize]]
      /\ len \in Nat /\ MaxSize \in Nat /\ OFFSET_MOD \in Nat /\ MaxSize < OFFSET_MOD
  BY <1>1, <1>2, FilesAssumption DEF CountInv, TypeOK, InodeRec
<1>5. PICK n \in Nat : n = node[d].size
  BY <1>2, <1>4
<1>6. /\ node' \in [Dnode -> [kind : {"FILE", "DIRECTORY"}, size : 0 .. MaxSize]]
      /\ node'[d].size = n + len /\ \A e \in Dnode : e # d => node'[e] = node[e]
  <2>1. n + len \in 0 .. MaxSize
    BY <1>3, <1>4, <1>5
  <2> QED BY <1>2, <1>3, <1>4, <1>5, <2>1, ZenonT(40)
<1>7. x \in 0 .. OFFSET_MOD - 1 /\ x <= n + len
  <2>1. offset <= n /\ n + len <= MaxSize
    BY <1>3, <1>5
  <2>2. /\ x = offset + len /\ offset \in Nat /\ len \in Nat /\ MaxSize \in Nat
        /\ OFFSET_MOD \in Nat /\ MaxSize < OFFSET_MOD
    BY <1>a, <1>4
  <2> QED BY <2>1, <2>2
<1>8. size \in Nat /\ (inodes[c].size <= n => size <= n + len)
  <2>1. PICK known : known = inodes[c].size
    OBVIOUS
  <2>2. size = IF known > offset + len THEN known ELSE offset + len
    BY <1>a, <2>1 DEF SizeAfterWrite, Greater
  <2> QED BY <1>a, <1>4, <1>5, <1>7, <2>1, <2>2
<1>9. /\ inodes' \in [Inode -> InodeRec]
      /\ \A i \in Inode : i # c => inodes'[i] = inodes[i]
      /\ inodes'[c].type = inodes[c].type /\ inodes'[c].dnode = inodes[c].dnode
      /\ inodes'[c].reference_count = inodes[c].reference_count /\ inodes'[c].size = size
  BY <1>3, <1>4, <1>8 DEF InodeRec
<1>10. PICK new \in FdRec :
         /\ new.type = fds[p][fd].type /\ new.inode = fds[p][fd].inode /\ new.offset = x
         /\ FdSet(p, fd, new)
  BY <1>1, <1>3, <1>7, OffsetMoves DEF FdSet
<1>11. CountInv'
  <2>1. DiskTypes'
    BY <1>1, <1>6 DEF CountInv, TypeOK, DiskTypes
  <2>2. fds' = [fds EXCEPT ![p][fd] = new]
    BY <1>10 DEF FdSet
  <2>3. \A i \in Inode : /\ inodes'[i].type = inodes[i].type
                         /\ inodes'[i].dnode = inodes[i].dnode
                         /\ inodes'[i].reference_count = inodes[i].reference_count
                         /\ inodes[i].type = "EMPTY" => inodes'[i] = inodes[i]
    BY <1>2, <1>9
  <2> QED BY <1>1, <1>2, <1>9, <1>10, <2>1, <2>2, <2>3, OffsetKeeps
<1>12. \A i \in Inode : Emptied(i) \/ Kept(i)
  <2> TAKE i \in Inode
  <2>1. CASE i = c
    <3>1. inodes[c].type = "FILE" /\ c \notin unlinked => size <= node'[d].size
      BY <1>2, <1>5, <1>6, <1>8 DEF FileInv
    <3> QED BY <1>2, <1>9, <2>1, <3>1 DEF Kept
  <2>2. CASE i # c
    BY <1>9, <2>2, InodesStay
  <2> QED BY <2>1, <2>2
<1>13. \A i \in Inode : inodes[i].type # "EMPTY" /\ i \notin unlinked'
                          /\ inodes[i].dnode \in Linked =>
         /\ inodes[i].dnode \in Linked'
         /\ node[inodes[i].dnode].size <= node'[inodes[i].dnode].size
  <2>1. Linked' = Linked /\ Linked \subseteq Dnode
    BY <1>1 DEF Linked, CountInv, TypeOK
  <2>2. \A e \in Dnode : node[e].size <= node'[e].size
    <3> TAKE e \in Dnode
    <3>1. node[e].size \in Int
      BY <1>4
    <3> QED BY <1>4, <1>5, <1>6, <3>1
  <2> QED BY <2>1, <2>2
<1>14. \A r \in alive', e \in Fd : fds'[r][e].type = "INODE" =>
         Within(r, e)' \/ (r \in alive /\ fds'[r][e] = fds[r][e])
  <2>1. /\ fds'[p][fd] = new
        /\ \A r \in alive, e \in Fd : r # p \/ e # fd => fds'[r][e] = fds[r][e]
    BY <1>1, <1>10, OtherFds
  <2>2. Within(p, fd)'
    <3>1. fds'[p][fd].inode = c /\ fds'[p][fd].offset = x
      BY <1>2, <1>10, <2>1
    <3>2. inodes'[c].dnode = d
      BY <1>2, <1>9
    <3>3. x <= node'[d].size
      BY <1>6, <1>7
    <3> QED BY <3>1, <3>2, <3>3 DEF Within
  <2> QED BY <1>1, <2>1, <2>2
<1> QED BY <1>1, <1>11, <1>12, <1>13, <1>14, StepKeepsFiles

(* file_open of dnode d, once dzFS has it.                                 *)
LEMMA OpenedAsKeepsFiles ==
  ASSUME CountInv, FileInv, DiskTypes', NEW p \in alive, NEW fd \in Fd,
         NEW d \in Dnode \cup {ROOT}, NEW wronly \in BOOLEAN, NEW rdwr \in BOOLEAN,
         fds[p][fd].type = "EMPTY", OpenedAs(p, fd, d, wronly, rdwr),
         UNCHANGED <<alive, cwd, leaked, unlinked>>, calls' \in 0 .. MaxCalls,
         d \in Linked' \cup {ROOT},
         \A e \in Linked : e \in Linked' /\ node[e].size <= node'[e].size
  PROVE  CountInv' /\ FileInv' /\ SameFile
<1>1. CountInv'
  BY OpenedAsKeeps
<1>2. CASE ChooseInode(d) = NONE
  <2>1. inodes' = inodes /\ fds' = fds
    BY <1>2 DEF OpenedAs, fs_open
  <2>2. \A i \in Inode : Emptied(i) \/ Kept(i)
    BY <2>1, InodesStay
  <2>3. \A r \in alive', e \in Fd : fds'[r][e].type = "INODE" =>
          r \in alive /\ fds'[r][e] = fds[r][e]
    BY <2>1
  <2> QED BY <1>1, <2>2, <2>3, StepKeepsFiles
<1>3. CASE ChooseInode(d) # NONE
  <2>1. PICK es, ns, k, new :
          /\ es = entry' /\ ns = node' /\ k = ChooseInode(d)
          /\ new = [type |-> "INODE", inode |-> k, offset |-> 0,
                    readble |-> ~wronly, writable |-> wronly \/ rdwr]
    OBVIOUS
  <2>2. inodes' = fs_open(d, es, ns) /\ FdSet(p, fd, new)
    BY <1>3, <2>1 DEF OpenedAs, FdSet
  <2>3. /\ k \in Inode /\ inodes' \in [Inode -> InodeRec]
        /\ \A j \in Inode : j # k => inodes'[j] = inodes[j]
        /\ inodes'[k].type # "EMPTY" /\ inodes'[k].dnode = d
        /\ inodes'[k].type = "FILE" => d \in Dnode
        /\ IF inodes[k].type # "EMPTY"
           THEN inodes'[k].type = inodes[k].type /\ inodes[k].dnode = d
                  /\ inodes'[k].size = inodes[k].size
           ELSE /\ \A j \in Inode : inodes[j].type # "EMPTY" => inodes[j].dnode # d
                /\ inodes'[k].size = Stat(d, es, ns)
    BY <1>3, <2>1, <2>2, OpenEffect DEF DiskTypes
  <2>4. \A i \in Inode : Emptied(i) \/ Kept(i) \/ (i = k /\ Fresh(i, d))
    <3> TAKE i \in Inode
    <3>1. CASE i # k
      BY <2>3, <3>1, InodesStay
    <3>2. CASE i = k /\ inodes[k].type # "EMPTY"
      BY <2>3, <3>2 DEF Kept
    <3>3. CASE i = k /\ inodes[k].type = "EMPTY"
      <4>1. inodes'[k].type = "FILE" => d \in Dnode /\ inodes'[k].size <= node'[d].size
        <5> HAVE inodes'[k].type = "FILE"
        <5>1. d \in Dnode /\ d # ROOT
          BY <2>3, FilesAssumption
        <5>2. inodes'[k].size = ns[d].size
          BY <2>3, <3>3, <5>1 DEF Stat
        <5>3. node'[d].size \in Int
          BY <5>1, FilesAssumption DEF DiskTypes
        <5> QED BY <2>1, <5>1, <5>2, <5>3
      <4> QED BY <2>3, <3>3, <4>1 DEF Fresh
    <3> QED BY <3>1, <3>2, <3>3
  <2>5. new \in FdRec /\ new.inode = k /\ new.offset = 0
    <3>1. 0 \in 0 .. OFFSET_MOD - 1
      BY FilesAssumption
    <3> QED BY <2>1, <2>3, <3>1 DEF FdRec
  <2>6. /\ fds'[p][fd] = new
        /\ \A r \in alive, e \in Fd : r # p \/ e # fd => fds'[r][e] = fds[r][e]
    BY <2>2, <2>5, OtherFds
  <2>7. Within(p, fd)'
    <3>1. inodes'[k].type = "FILE" => 0 <= node'[d].size
      <4> HAVE inodes'[k].type = "FILE"
      <4>1. node'[d].size \in 0 .. MaxSize
        BY <2>3 DEF DiskTypes
      <4> QED BY <4>1, FilesAssumption
    <3> QED BY <2>3, <2>5, <2>6, <3>1 DEF Within
  <2>8. \A r \in alive', e \in Fd : fds'[r][e].type = "INODE" =>
          Within(r, e)' \/ (r \in alive /\ fds'[r][e] = fds[r][e])
    BY <2>6, <2>7
  <2> QED BY <1>1, <2>4, <2>8, StepKeepsFiles
<1> QED BY <1>2, <1>3

(* sys_open of a path, that is there or is made.                           *)
LEMMA OpenKeepsFiles ==
  ASSUME CountInv, FileInv, NEW p \in Proc, NEW path \in Path, NEW create \in BOOLEAN,
         NEW kind \in {"FILE", "DIRECTORY"}, NEW wronly \in BOOLEAN, NEW rdwr \in BOOLEAN,
         SysOpen(p, path, create, kind, wronly, rdwr)
  PROVE  CountInv' /\ FileInv' /\ SameFile
<1>1. PICK fd \in Fd, d \in Dnode :
        /\ FirstEmpty(p, fd)
        /\ OpenPath(path, d) \/ CreatePath(path, kind, d)
        /\ OpenedAs(p, fd, d, wronly, rdwr)
  BY DEF SysOpen
<1>2. p \in alive /\ calls' \in 0 .. MaxCalls /\ UNCHANGED <<alive, cwd, leaked, unlinked>>
  BY CallTypes DEF SysOpen
<1>3. DiskTypes /\ fds[p][fd].type = "EMPTY"
  BY <1>1 DEF FirstEmpty, CountInv, TypeOK, DiskTypes
<1>4. DiskTypes'
  BY <1>1, <1>3, CreateTypes
<1>5. d \in Linked' /\ \A e \in Linked : e \in Linked' /\ node[e].size <= node'[e].size
  BY <1>1, CreateKeepsLinked
<1> QED BY <1>1, <1>2, <1>3, <1>4, <1>5, OpenedAsKeepsFiles

(* sys_open of "/".                                                        *)
LEMMA OpenRootKeepsFiles ==
  ASSUME CountInv, FileInv, NEW p \in Proc, SysOpenRoot(p)
  PROVE  CountInv' /\ FileInv' /\ SameFile
<1>1. PICK fd \in Fd : FirstEmpty(p, fd) /\ OpenRoot(ROOT) /\ OpenedAs(p, fd, ROOT, FALSE, FALSE)
  BY DEF SysOpenRoot
<1>2. p \in alive /\ calls' \in 0 .. MaxCalls /\ UNCHANGED <<alive, cwd, leaked, unlinked>>
  BY CallTypes DEF SysOpenRoot
<1>3. DiskTypes' /\ fds[p][fd].type = "EMPTY"
  BY <1>1 DEF FirstEmpty, OpenRoot, CountInv, TypeOK, DiskTypes, disk
<1>4. \A e \in Linked : e \in Linked' /\ node[e].size <= node'[e].size
  <2>1. Linked' = Linked /\ node' = node /\ Linked \subseteq Dnode
    BY <1>1 DEF OpenRoot, Linked, disk, CountInv, TypeOK
  <2>2. \A e \in Linked : node[e].size \in Int
    BY <2>1, FilesAssumption DEF CountInv, TypeOK
  <2> QED BY <2>1, <2>2
<1> QED BY <1>1, <1>2, <1>3, <1>4, OpenedAsKeepsFiles

(* sys_chdir opens one inode and closes another, or the same.              *)
LEMMA ChdirKeepsFiles ==
  ASSUME CountInv, FileInv, NEW p \in Proc, NEW d \in Dnode \cup {ROOT}, SysChdir(p, d)
  PROVE  CountInv' /\ FileInv' /\ SameFile
<1>1. CountInv'
  BY ChdirKeeps
<1>2. /\ p \in alive /\ (d = ROOT \/ d \in Linked) /\ ChooseInode(d) # NONE
      /\ UNCHANGED <<disk, alive, fds>>
      /\ unlinked' = {i \in unlinked : inodes'[i].type # "EMPTY"}
  BY CallTypes DEF SysChdir, StillUnlinked
<1>3. PICK k, c, opened : /\ k = ChooseInode(d) /\ c = cwd[p]
                          /\ opened = fs_open(d, entry, node)
  OBVIOUS
<1>4. c \in Inode /\ inodes[c].type # "EMPTY"
  <2>1. c \in Inode
    BY <1>2, <1>3 DEF CountInv, RefsOK
  <2>2. MAX_OPEN_FILES \in 0 .. MAX_OPEN_FILES
    BY FilesAssumption
  <2> QED BY <1>2, <1>3, <2>1, <2>2, InUse DEF Refers
<1>5. DiskTypes
  BY DEF CountInv, TypeOK, DiskTypes
<1>6. /\ k \in Inode /\ opened \in [Inode -> InodeRec]
      /\ \A j \in Inode : j # k => opened[j] = inodes[j]
      /\ opened[k].type # "EMPTY" /\ opened[k].dnode = d
      /\ opened[k].type = "FILE" => d \in Dnode
      /\ IF inodes[k].type # "EMPTY"
         THEN opened[k].type = inodes[k].type /\ inodes[k].dnode = d
                /\ opened[k].size = inodes[k].size
         ELSE /\ \A j \in Inode : inodes[j].type # "EMPTY" => inodes[j].dnode # d
              /\ opened[k].size = Stat(d, entry, node)
  BY <1>2, <1>3, <1>5, OpenEffect DEF DiskTypes
<1>7. /\ inodes'[c] = Release(opened[c], 1)
      /\ \A i \in Inode : i # c => inodes'[i] = opened[i]
  <2>1. inodes' = [opened EXCEPT ![c] = Release(opened[c], 1)]
    BY <1>3 DEF SysChdir, fs_close
  <2> QED BY <1>4, <1>6, <2>1
<1>8. \A i \in Inode : Emptied(i) \/ Kept(i) \/ (i = k /\ Fresh(i, d))
  <2> TAKE i \in Inode
  <2>1. CASE i = c
    <3>1. CASE inodes'[c].type = "EMPTY"
      BY <1>1, <1>4, <2>1, <3>1 DEF Emptied, CountInv, Filled, EmptyInode
    <3>2. CASE inodes'[c].type # "EMPTY"
      <4>1. inodes'[c] = [opened[c] EXCEPT !.reference_count = opened[c].reference_count - 1]
        BY <1>7, <3>2 DEF Release, EmptyInode
      <4>2. opened[c] \in InodeRec
        BY <1>4, <1>6
      <4>3. /\ inodes'[c].type = opened[c].type /\ inodes'[c].dnode = opened[c].dnode
            /\ inodes'[c].size = opened[c].size
        BY <4>1, <4>2 DEF InodeRec
      <4>4. /\ opened[c].type = inodes[c].type /\ opened[c].dnode = inodes[c].dnode
            /\ opened[c].size = inodes[c].size
        BY <1>4, <1>6
      <4> QED BY <1>4, <2>1, <4>3, <4>4 DEF Kept
    <3> QED BY <3>1, <3>2
  <2>2. CASE i # c /\ i # k
    BY <1>6, <1>7, <2>2, InodesStay
  <2>3. CASE i # c /\ i = k /\ inodes[k].type # "EMPTY"
    BY <1>6, <1>7, <2>3 DEF Kept
  <2>4. CASE i # c /\ i = k /\ inodes[k].type = "EMPTY"
    <3>1. inodes'[k].type = "FILE" => d \in Dnode /\ inodes'[k].size <= node'[d].size
      <4> HAVE inodes'[k].type = "FILE"
      <4>1. d \in Dnode /\ d # ROOT
        BY <1>6, <1>7, <2>4, FilesAssumption
      <4>2. inodes'[k].size = node[d].size
        BY <1>6, <1>7, <2>4, <4>1 DEF Stat
      <4>3. node[d].size \in Int /\ node' = node
        BY <1>2, <1>5, <4>1, FilesAssumption DEF DiskTypes, disk
      <4> QED BY <4>1, <4>2, <4>3
    <3>2. Linked' = Linked
      BY <1>2, DiskStays
    <3> QED BY <1>2, <1>6, <1>7, <2>4, <3>1, <3>2 DEF Fresh
  <2> QED BY <2>1, <2>2, <2>3, <2>4
<1>9. \A r \in alive', e \in Fd : fds'[r][e].type = "INODE" =>
        r \in alive /\ fds'[r][e] = fds[r][e]
  BY <1>2
<1>10. \A i \in unlinked : inodes'[i].type # "EMPTY" => i \in unlinked'
  BY <1>2
<1> QED BY <1>1, <1>2, <1>8, <1>9, <1>10, DiskStays, StepKeepsFiles

-----------------------------------------------------------------------------
(* The theorems.                                                           *)

(* At the start the processes of userspace_init share the root folder.     *)
LEMMA InitFiles ==
  ASSUME Init
  PROVE  CountInv /\ FileInv
<1>1. /\ MAX_INODES \in Nat /\ MAX_INODES > 0 /\ MAX_INODES \in Inode
      /\ MAX_OPEN_FILES \in Nat /\ 0 \in 0 .. MaxCalls /\ NONE # ROOT
      /\ {0, 1} \subseteq 0 .. MaxSize
  BY FilesAssumption DEF Inode
<1>2. IsFiniteSet(Boot) /\ Cardinality(Boot) \in Nat /\ Cardinality(Boot) > 0
  <2>1. IsFiniteSet(Boot) /\ Cardinality(Boot) \in Nat
    BY FilesAssumption, FS_Subset, FS_CardinalityType
  <2>2. Cardinality(Boot) # 0
    BY <2>1, FilesAssumption, FS_EmptySet
  <2> QED BY <2>1, <2>2
<1>3. PICK d \in Dnode :
        /\ entry = [q \in Path |-> IF q = InitPath THEN d ELSE NONE]
        /\ node = [e \in Dnode |-> [kind |-> "FILE", size |-> IF e = d THEN 1 ELSE 0]]
  BY DEF Init
<1>4. /\ inodes[MAX_INODES] = [type |-> "DIRECTORY", dnode |-> ROOT, size |-> 1,
                               reference_count |-> Cardinality(Boot)]
      /\ \A i \in Inode : i # MAX_INODES => inodes[i] = EmptyInode
      /\ inodes = [i \in Inode |-> inodes[i]]
  BY <1>1 DEF Init
<1>5. inodes \in [Inode -> InodeRec] /\ \A i \in Inode : Filled(inodes[i])
  <2>1. EmptyInode \in InodeRec /\ Filled(EmptyInode)
    BY DEF EmptyInode, InodeRec, Filled
  <2>2. inodes[MAX_INODES] \in InodeRec /\ Filled(inodes[MAX_INODES])
    BY <1>1, <1>2, <1>4 DEF InodeRec, Filled
  <2> QED BY <1>4, <2>1, <2>2
<1>6. TypeOK
  <2>1. DiskTypes
    <3>1. entry \in [Path -> Dnode \cup {NONE}]
      BY <1>3
    <3>2. node \in [Dnode -> [kind : {"FILE", "DIRECTORY"}, size : 0 .. MaxSize]]
      BY <1>1, <1>3
    <3> QED BY <3>1, <3>2 DEF DiskTypes
  <2>2. fds \in [Proc -> [Fd -> FdRec]]
    BY StdFdsOK DEF Init
  <2>3. cwd \in [Proc -> Inode \cup {NONE}] /\ leaked \in [Inode -> Nat]
    BY <1>1 DEF Init
  <2>4. alive \subseteq Proc /\ unlinked \subseteq Inode /\ calls \in 0 .. MaxCalls
    BY <1>1, FilesAssumption DEF Init
  <2> QED BY <1>5, <2>1, <2>2, <2>3, <2>4 DEF TypeOK, DiskTypes, FdRec, InodeRec
<1>7. /\ alive = Boot /\ \A p \in alive : p \in Proc /\ cwd[p] = MAX_INODES /\ fds[p] = StdFds
      /\ \A i \in Inode : leaked[i] = 0
  BY FilesAssumption DEF Init
<1>8. RefsOK
  BY <1>1, <1>7, StdFdsOK DEF RefsOK
<1>9. \A i \in Inode, p \in alive, n \in 0 .. MAX_OPEN_FILES :
        Refers(p, n, i) <=> (n = MAX_OPEN_FILES /\ i = MAX_INODES)
  <2>1. \A n \in 0 .. MAX_OPEN_FILES : n = MAX_OPEN_FILES \/ n \in Fd
    BY <1>1 DEF Fd
  <2> QED BY <1>7, <2>1, StdFdsOK DEF Refers
<1>10. Cardinality(Users(MAX_INODES)) = Cardinality(Boot)
  <2> DEFINE U == Users(MAX_INODES)
             f == [p \in Boot |-> <<p, MAX_OPEN_FILES>>]
  <2>1. U = {<<p, MAX_OPEN_FILES>> : p \in Boot}
    <3>1. MAX_OPEN_FILES \in 0 .. MAX_OPEN_FILES
      BY <1>1
    <3>2. \A u \in U : \E p \in Boot : u = <<p, MAX_OPEN_FILES>>
      <4> TAKE u \in U
      <4>1. u = <<u[1], u[2]>> /\ u[1] \in alive /\ u[2] \in 0 .. MAX_OPEN_FILES
            /\ Refers(u[1], u[2], MAX_INODES)
        BY DEF Users
      <4> QED BY <1>1, <1>7, <1>9, <4>1
    <3>3. \A p \in Boot : <<p, MAX_OPEN_FILES>> \in U
      BY <1>1, <1>7, <1>9, <3>1 DEF Users
    <3> HIDE DEF U
    <3> QED BY <3>2, <3>3
  <2>2. f \in Bijection(Boot, U)
    <3>1. f \in [Boot -> U]
      BY <2>1
    <3>2. \A a, b \in Boot : f[a] = f[b] => a = b
      OBVIOUS
    <3>3. \A t \in U : \E a \in Boot : f[a] = t
      BY <2>1
    <3> HIDE DEF U
    <3> QED BY <3>1, <3>2, <3>3 DEF Bijection, Injection, Surjection, IsInjective
  <2>3. ExistsBijection(Boot, U)
    BY <2>2 DEF ExistsBijection
  <2> QED BY <1>2, <2>3, FS_Bijection
<1>11. \A i \in Inode : i # MAX_INODES => Users(i) = {}
  BY <1>9 DEF Users
<1>12. Counted
  <2> SUFFICES ASSUME NEW i \in Inode
               PROVE  inodes[i].reference_count = Cardinality(Users(i)) + leaked[i]
    BY DEF Counted
  <2>1. CASE i = MAX_INODES
    BY <1>2, <1>4, <1>7, <1>10, <2>1
  <2>2. CASE i # MAX_INODES
    BY <1>4, <1>7, <1>11, <2>2, FS_EmptySet DEF EmptyInode
  <2> QED BY <2>1, <2>2
<1>13. CountInv
  BY <1>5, <1>6, <1>8, <1>12 DEF CountInv
<1>14. FileInv
  <2>1. OneInodePerFile
    BY <1>1, <1>4 DEF OneInodePerFile, EmptyInode
  <2>2. \A i \in Inode : inodes[i].type # "EMPTY" =>
          inodes[i].type # "FILE" /\ inodes[i].dnode = ROOT
    BY <1>4 DEF EmptyInode
  <2>3. \A p \in alive, fd \in Fd : fds[p][fd].type # "INODE"
    BY <1>7, StdFdsOK
  <2> QED BY <2>1, <2>2, <2>3 DEF FileInv
<1> QED BY <1>13, <1>14

(* Every step of the processes keeps the books and the files.              *)
LEMMA NextFiles ==
  ASSUME CountInv, FileInv, [Next]_vars
  PROVE  CountInv' /\ FileInv' /\ SameFile
<1>1. CASE \E p \in Proc, path \in Path, create \in BOOLEAN, kind \in {"FILE", "DIRECTORY"},
              mode \in {<<FALSE, FALSE>>, <<TRUE, FALSE>>, <<FALSE, TRUE>>} :
             SysOpen(p, path, create, kind, mode[1], mode[2])
  <2>1. PICK p \in Proc, path \in Path, create \in BOOLEAN, kind \in {"FILE", "DIRECTORY"},
             mode \in {<<FALSE, FALSE>>, <<TRUE, FALSE>>, <<FALSE, TRUE>>} :
               SysOpen(p, path, create, kind, mode[1], mode[2])
    BY <1>1
  <2>2. \/ SysOpen(p, path, create, kind, FALSE, FALSE)
        \/ SysOpen(p, path, create, kind, TRUE, FALSE)
        \/ SysOpen(p, path, create, kind, FALSE, TRUE)
    <3>1. CASE mode = <<FALSE, FALSE>>
      <4>1. mode[1] = FALSE /\ mode[2] = FALSE
        BY <3>1
      <4> QED BY <2>1, <4>1
    <3>2. CASE mode = <<TRUE, FALSE>>
      <4>1. mode[1] = TRUE /\ mode[2] = FALSE
        BY <3>2
      <4> QED BY <2>1, <4>1
    <3>3. CASE mode = <<FALSE, TRUE>>
      <4>1. mode[1] = FALSE /\ mode[2] = TRUE
        BY <3>3
      <4> QED BY <2>1, <4>1
    <3> QED BY <3>1, <3>2, <3>3
  <2> QED BY <2>2, OpenKeepsFiles
<1>2. CASE \E p \in Proc : SysOpenRoot(p)
  BY <1>2, OpenRootKeepsFiles
<1>3. CASE \E p \in Proc : SysOpenDevice(p)
  BY <1>3, OpenDeviceKeepsFiles
<1>4. CASE \E p \in Proc, fd \in Fd : SysClose(p, fd)
  BY <1>4, CloseKeepsFiles
<1>5. CASE \E p \in Proc, fd \in Fd, len \in 1 .. MaxLen : SysWrite(p, fd, len)
  BY <1>5, WriteKeepsFiles
<1>6. CASE \E p \in Proc, fd \in Fd, len \in 1 .. MaxLen : SysRead(p, fd, len)
  <2>1. PICK p \in Proc, fd \in Fd, len \in 1 .. MaxLen : SysRead(p, fd, len)
    BY <1>6
  <2>2. /\ p \in alive /\ fds[p][fd].type = "INODE" /\ calls' \in 0 .. MaxCalls
        /\ UNCHANGED <<disk, inodes, alive, cwd, leaked, unlinked>>
    BY <2>1, CallTypes DEF SysRead
  <2> QED BY <2>1, <2>2, ReadInside, MoveKeepsFiles
<1>7. CASE \E p \in Proc, fd \in Fd, n \in 1 .. Cardinality(Path) : SysReadDir(p, fd, n)
  <2>1. PICK p \in Proc, fd \in Fd, n \in 1 .. Cardinality(Path) : SysReadDir(p, fd, n)
    BY <1>7
  <2>2. /\ p \in alive /\ fds[p][fd].type = "INODE" /\ calls' \in 0 .. MaxCalls
        /\ UNCHANGED <<disk, inodes, alive, cwd, leaked, unlinked>>
    BY <2>1, CallTypes DEF SysReadDir
  <2> QED BY <2>1, <2>2, ReadDirInside, MoveKeepsFiles
<1>8. CASE \E p \in Proc, fd \in Fd, to \in -1 .. 1, whence \in {"SET", "CUR", "END"} :
             SysSeek(p, fd, to, whence)
  <2>1. PICK p \in Proc, fd \in Fd, to \in -1 .. 1, whence \in {"SET", "CUR", "END"} :
          SysSeek(p, fd, to, whence)
    BY <1>8
  <2>2. /\ p \in alive /\ fds[p][fd].type = "INODE" /\ calls' \in 0 .. MaxCalls
        /\ UNCHANGED <<disk, inodes, alive, cwd, leaked, unlinked>>
    BY <2>1, CallTypes DEF SysSeek
  <2> QED BY <2>1, <2>2, SysSeekInside, MoveKeepsFiles
<1>9. CASE \E p \in Proc, path \in Path : SysMkdir(p, path)
  BY <1>9, MkdirKeepsFiles
<1>10. CASE \E p \in Proc, path \in Path : SysUnlink(p, path)
  BY <1>10, UnlinkKeepsFiles
<1>11. CASE \E p \in Proc, d \in Dnode \cup {ROOT} : SysChdir(p, d)
  BY <1>11, ChdirKeepsFiles
<1>12. CASE \E p, child \in Proc, path \in Path : SysExec(p, child, path)
  BY <1>12, ExecKeepsFiles
<1>13. CASE \E p \in Proc : SysExit(p)
  BY <1>13, ExitKeepsFiles
<1>14. CASE UNCHANGED vars
  <2>1. UNCHANGED <<entry, node, inodes, alive, fds, cwd, leaked, unlinked, calls>>
    BY <1>14 DEF vars, disk
  <2>2. \A i \in Inode : Users(i)' = Users(i)
    BY <2>1 DEF Users, Refers
  <2>3. CountInv'
    BY <2>1, <2>2 DEF CountInv, TypeOK, RefsOK, Counted
  <2>4. FileInv'
    BY <2>1 DEF FileInv, OneInodePerFile, Linked, Within
  <2> QED BY <2>1, <2>3, <2>4 DEF SameFile
<1> QED BY <1>1, <1>2, <1>3, <1>4, <1>5, <1>6, <1>7, <1>8, <1>9, <1>10, <1>11, <1>12,
           <1>13, <1>14 DEF Next, Off

(* In every reachable state the books are kept and the inodes agree with   *)
(* the disk.                                                               *)
THEOREM FilesInvariance == Spec => [](CountInv /\ FileInv)
<1>1. Init => CountInv /\ FileInv
  BY InitFiles
<1>2. (CountInv /\ FileInv) /\ [Next]_vars => (CountInv /\ FileInv)'
  BY NextFiles
<1> QED BY <1>1, <1>2, PTL DEF Spec

(* However open, close, chdir, exec and exit are mixed by however many     *)
(* processes, the count of an inode is the number of those that refer to   *)
(* it and an inode is empty exactly when that is 0 (fs_close, fs.c).       *)
THEOREM ReferencesCounted == Spec => []UsersCounted
<1>1. CountInv => UsersCounted
  <2> SUFFICES ASSUME CountInv, NEW i \in Inode
               PROVE  inodes[i].type = "EMPTY" <=> inodes[i].reference_count = 0
    BY DEF CountInv, Counted, UsersCounted
  <2>1. Filled(inodes[i])
    BY DEF CountInv
  <2> QED BY <2>1 DEF Filled, EmptyInode
<1> QED BY <1>1, FilesInvariance, PTL

(* The search of fs_open never gives one file two inodes.                  *)
THEOREM FilesHaveOneInode == Spec => []OneInodePerFile
<1>1. FileInv => OneInodePerFile
  BY DEF FileInv
<1> QED BY <1>1, FilesInvariance, PTL

(* Offsets and the sizes that inodes know stay within the file on the      *)
(* disk, so dzfs_write is never asked to leave a hole.                     *)
THEOREM OffsetsInside == Spec => []OffsetInFile
<1>1. CountInv /\ FileInv => OffsetInFile
  <2> SUFFICES ASSUME CountInv, FileInv, NEW p \in alive, NEW fd \in Fd, NEW i,
                      i = fds[p][fd].inode, fds[p][fd].type = "INODE", i \notin unlinked,
                      inodes[i].type = "FILE"
               PROVE  /\ fds[p][fd].offset <= node[inodes[i].dnode].size
                      /\ inodes[i].size <= node[inodes[i].dnode].size
    BY DEF OffsetInFile
  <2>1. i \in Inode
    BY BehindFd
  <2>2. Within(p, fd)
    BY DEF FileInv
  <2>3. fds[p][fd].offset <= node[inodes[i].dnode].size
    BY <2>2 DEF Within
  <2> QED BY <2>1, <2>3 DEF FileInv
<1> QED BY <1>1, FilesInvariance, PTL

(* Only sys_unlink takes an entry away, and it marks the inodes of the     *)
(* dnode behind it.                                                        *)
LEMMA PathsStay ==
  ASSUME CountInv, [Next]_vars, NEW q \in Path, entry[q] # NONE
  PROVE  entry'[q] = entry[q] \/ Cached(entry[q]) \subseteq unlinked'
<1>1. entry \in [Path -> Dnode \cup {NONE}]
  BY DEF CountInv, TypeOK
<1>2. ASSUME NEW path \in Path, NEW kind, NEW d, CreatePath(path, kind, d)
      PROVE  entry'[q] = entry[q]
  BY <1>1, <1>2 DEF CreatePath
<1>3. ASSUME NEW p \in Proc, NEW path \in Path, SysUnlink(p, path)
      PROVE  entry'[q] = entry[q] \/ Cached(entry[q]) \subseteq unlinked'
  BY <1>1, <1>3 DEF SysUnlink
<1>4. ASSUME NEW p \in Proc, NEW path \in Path, NEW create, NEW kind, NEW wronly, NEW rdwr,
             SysOpen(p, path, create, kind, wronly, rdwr)
      PROVE  entry'[q] = entry[q]
  <2>1. PICK d \in Dnode : OpenPath(path, d) \/ CreatePath(path, kind, d)
    BY <1>4 DEF SysOpen
  <2> QED BY <1>2, <2>1 DEF OpenPath, disk
<1>5. ASSUME NEW p \in Proc, NEW path \in Path, SysMkdir(p, path)
      PROVE  entry'[q] = entry[q]
  BY <1>2, <1>5 DEF SysMkdir
<1>6. CASE \E p \in Proc : \/ SysOpenRoot(p) \/ SysOpenDevice(p) \/ SysExit(p)
                            \/ \E d \in Dnode \cup {ROOT} : SysChdir(p, d)
                            \/ \E child \in Proc, path \in Path : SysExec(p, child, path)
  <2>1. UNCHANGED disk
    BY <1>6 DEF SysOpenRoot, OpenRoot, SysOpenDevice, SysExit, SysChdir, SysExec
  <2> QED BY <2>1 DEF disk
<1>7. ASSUME NEW p \in Proc, NEW fd \in Fd, NEW len, NEW n, NEW to, NEW whence,
             \/ SysClose(p, fd) \/ SysRead(p, fd, len) \/ SysReadDir(p, fd, n)
             \/ SysSeek(p, fd, to, whence)
      PROVE  entry'[q] = entry[q]
  <2>1. UNCHANGED disk
    BY <1>7 DEF SysClose, SysRead, SysReadDir, SysSeek
  <2> QED BY <2>1 DEF disk
<1>9. ASSUME NEW p \in Proc, NEW fd \in Fd, NEW len, SysWrite(p, fd, len)
      PROVE  entry'[q] = entry[q]
  BY <1>9 DEF SysWrite
<1>8. CASE UNCHANGED vars
  BY <1>8 DEF vars, disk
<1> QED BY <1>3, <1>4, <1>5, <1>6, <1>7, <1>8, <1>9 DEF Next, Off

(* An open file stays itself until it is deleted: an inode that is         *)
(* referred to before and after a step was never emptied, fs_open fills    *)
(* empty inodes only, and a dnode that a path leads to is not given to     *)
(* another file.                                                           *)
THEOREM DescriptorsKeepTheirFile == Spec => OpenFileKept
<1> DEFINE StaysOn ==
      \A i \in Inode \ unlinked', p \in alive \cap alive', fd \in Fd :
        /\ fds[p][fd].type = "INODE" /\ fds[p][fd].inode = i
        /\ fds'[p][fd].type = "INODE" /\ fds'[p][fd].inode = i
        => /\ inodes'[i].dnode = inodes[i].dnode /\ inodes'[i].type = inodes[i].type
           /\ \/ inodes[i].dnode = ROOT
              \/ \E q \in Path : entry[q] = inodes[i].dnode /\ entry'[q] = entry[q]
<1>1. CountInv /\ FileInv /\ [Next]_vars => [StaysOn]_vars
  <2> SUFFICES ASSUME CountInv, FileInv, [Next]_vars,
                      NEW i \in Inode \ unlinked', NEW p \in alive \cap alive', NEW fd \in Fd,
                      fds[p][fd].type = "INODE", fds[p][fd].inode = i,
                      fds'[p][fd].type = "INODE", fds'[p][fd].inode = i
               PROVE  /\ inodes'[i].dnode = inodes[i].dnode /\ inodes'[i].type = inodes[i].type
                      /\ \/ inodes[i].dnode = ROOT
                         \/ \E q \in Path : /\ entry[q] = inodes[i].dnode
                                             /\ entry'[q] = entry[q]
    OBVIOUS
  <2>1. inodes[i].type # "EMPTY"
    BY BehindFd
  <2>2. CountInv' /\ SameFile
    BY NextFiles
  <2>3. inodes'[i].type # "EMPTY"
    <3>1. fd \in 0 .. MAX_OPEN_FILES /\ fd # MAX_OPEN_FILES
      BY FilesAssumption DEF Fd
    <3>2. <<p, fd>> \in Users(i)'
      BY <3>1 DEF Users, Refers
    <3>3. (alive \subseteq Proc)' /\ leaked'[i] \in Nat
      BY <2>2 DEF CountInv, TypeOK
    <3>4. (IsFiniteSet(Users(i)) /\ Cardinality(Users(i)) \in Nat)'
      BY <3>3, UsersFinite, PTL
    <3> QED BY <2>2, <3>2, <3>3, <3>4, FS_EmptySet DEF CountInv, Counted, Filled, EmptyInode
  <2>4. inodes[i].dnode \in Linked \cup {ROOT}
    BY <2>1, <2>2, <2>3 DEF FileInv, SameFile
  <2>5. ASSUME inodes[i].dnode # ROOT
        PROVE  \E q \in Path : entry[q] = inodes[i].dnode /\ entry'[q] = entry[q]
    <3>1. PICK q \in Path : entry[q] = inodes[i].dnode /\ entry[q] # NONE
      BY <2>4, <2>5 DEF Linked
    <3>2. i \in Cached(entry[q])
      BY <2>1, <3>1 DEF Cached
    <3> QED BY <3>1, <3>2, PathsStay
  <2> QED BY <2>1, <2>2, <2>3, <2>5 DEF SameFile
<1> QED BY <1>1, FilesInvariance, PTL DEF Spec, OpenFileKept
=============================================================================
