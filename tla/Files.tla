-------------------------------- MODULE Files --------------------------------
(***************************************************************************)
(* The file system of LightOS, fs/*.c above the buffer cache: bitmaps,     *)
(* inodes on disk and in memory, directories and path names, super blocks  *)
(* and mounts, and the open files of the tasks.                            *)
(*                                                                         *)
(* A system call is one action.  On the RAM disk no request blocks, so a   *)
(* call runs from its gate to its return without a change of task; on an   *)
(* IDE disk it is so while the blocks it reads are cached and nobody else  *)
(* calls during its writes.                                                *)
(*                                                                         *)
(* The helpers of the C code become operators that take the record fs and  *)
(* return the next one, or a record with the next fs and a result.  The    *)
(* contents of a directory stay with its inode; what files hold is left    *)
(* out.  An inode in memory is named by its device and number: find_inode  *)
(* sees to it that there is one.  A device is also a number, for a device  *)
(* node keeps it in zone[0].                                               *)
(***************************************************************************)
EXTENDS Naturals, Sequences, FiniteSets, FiniteSetsExt, SequencesExt

CONSTANTS
  NDev, NInode, NZone,  \* devices; inodes and data blocks of each
  BLOCK_DENTRIES,       \* directory entries in a block
  NTask, NFd, NFile,    \* tasks, descriptors of a task, files of file_table
  MaxCount,             \* bound on inode->count, but for the root
  Names,                \* file names
  Programs,             \* what is called on which paths; a behaviour is of one
  Null

ASSUME SizesAssumption ==
  {NDev, NInode, NZone, NTask, NFd, NFile, MaxCount} \subseteq Nat \ {0}
ASSUME DirectoriesAssumption ==
  BLOCK_DENTRIES \in Nat /\ Cardinality(Names) + 2 <= 2 * BLOCK_DENTRIES
\* The root directory has a name for inode 2, the node of a device.
ASSUME NodeAssumption == NInode > 1 /\ "dev" \in Names
ASSUME NullAssumption ==
  Null \notin Nat /\ Null \notin Names /\ Null \notin Nat \X Nat

\* The system calls of a program, the paths they are given, and which of five
\* risks it takes: to unlink a device node, to unlink a file that is in use, to
\* run mkfs on a device that has a file system, to execute what is no ELF image,
\* to go on when a block that was used before has become a block of indexes.
ASSUME ProgramsAssumption ==
  \A p \in Programs :
    /\ DOMAIN p = {"calls", "paths", "dirs", "risks"}
    /\ p.risks \subseteq {"node_unlink", "open_unlink", "reformat", "bad_image",
                           "stale_index"}
    /\ \A path \in p.paths \cup p.dirs : path.names \in Seq(Names \cup {".", ".."})

Dev  == 1 .. NDev
Nr   == 1 .. NInode
Zone == NDev + 1 .. NDev + NZone       \* no device has the number of a block
Junk == NDev + NZone + 1               \* no block either
Key  == Dev \X Nr
Root == <<1, 1>>
Task == 1 .. NTask
Fd   == 1 .. NFd
File == 1 .. NFile

\* Sizes and offsets count blocks; a read or a write moves one of them.  A
\* write that would end at FILE_MAX_SIZE is refused.
FILE_MAX_SIZE == 3
Offset == 0 .. FILE_MAX_SIZE

VARIABLES
  fs,       \* the disks, inode_table and super_table
  task,     \* the parts of task_t that name inodes and files
  file,     \* file_table
  prog      \* the calls made in this behaviour, and their path names

fileVars == <<fs, task, file, prog>>

Entry == [name : Names \cup {".", ".."}, nr : 0 .. NInode]

\* inode_desc_t.  zone is the direct block 0 or the number of a device, index
\* the block of indexes and far the block it names.
Desc == [type : {"free", "file", "dir", "blk"}, nlinks : Nat, size : Offset,
         zone : Nat, index : Nat, far : Nat, entries : Seq(Entry)]

Blank == [type |-> "free", nlinks |-> 0, size |-> 0,
          zone |-> 0, index |-> 0, far |-> 0, entries |-> << >>]

Super == [count : Nat, iroot : Key \cup {Null}, imount : Key \cup {Null}]
NoSuper == [count |-> 0, iroot |-> Null, imount |-> Null]

\* A file_t that is not open; sys_open sets all its fields.
NoFile == [inode |-> Null, count |-> 0, offset |-> 0, read |-> FALSE,
           write |-> FALSE]

Panics == {"none", "full", "no_super", "not_minix", "stale_super", "isfile",
           "files", "count", "bitmap", "links", "hole", "stale_index"}

\* stale[d][b] is what a block that is not in use would give as the first
\* index, if it were read as a block of indexes: 0 if it was never used.
FilesTypeOK ==
  /\ fs \in [imap : [Dev -> SUBSET Nr], zmap : [Dev -> SUBSET Zone],
             stale : [Dev -> [Zone -> Nat]],
             ino : [Dev -> [Nr -> Desc]], count : [Key -> Nat],
             mount : [Key -> Dev \cup {0}], sb : [Dev -> Super],
             minix : SUBSET Dev, panic : Panics]
  /\ task \in [Task -> [alive : BOOLEAN, iroot : Key \cup {Null},
                        ipwd : Key \cup {Null}, iexec : Key \cup {Null},
                        fd : [Fd -> File \cup {0}]]]
  /\ file \in [File -> [inode : Key \cup {Null}, count : Nat, offset : Offset,
                        read : BOOLEAN, write : BOOLEAN]]
  /\ prog \in Programs

-----------------------------------------------------------------------------
(* Bitmaps and blocks: bmap.c, inode_truncate. *)

\* The first assertion that fails stops the kernel; a stale block of indexes
\* is no assertion, and the program that takes the risk goes on.
Panic(f, why) ==
  IF f.panic \in {"none", "stale_index"} THEN [f EXCEPT !.panic = why] ELSE f

Check(f, holds, why) == IF holds THEN f ELSE Panic(f, why)

Ino(f, k) == f.ino[k[1]][k[2]]

Loaded(f, d) == f.sb[d].count > 0

\* balloc and ialloc: the first bit that is clear.  A full bitmap gives EOF,
\* which nobody looks at.
Scan(f, d, map, bits) ==
  IF ~Loaded(f, d) THEN [fs |-> Panic(f, "no_super"), bit |-> 1]
  ELSE IF bits \subseteq f[map][d] THEN [fs |-> Panic(f, "full"), bit |-> 1]
  ELSE LET bit == Min(bits \ f[map][d])
       IN  [fs |-> [f EXCEPT ![map][d] = @ \cup {bit}], bit |-> bit]

balloc(f, d) == Scan(f, d, "zmap", Zone)
ialloc(f, d) == Scan(f, d, "imap", Nr)

ifree(f, k) ==
  [Check(f, k[2] \in f.imap[k[1]], "bitmap") EXCEPT !.imap[k[1]] = @ \ {k[2]}]

\* One index of bmap with create: an empty one is given a block.
FillZone(f, k, index) ==
  LET Put(a) == [a.fs EXCEPT !.ino[k[1]][k[2]][index] = a.bit]
  IN  IF Ino(f, k)[index] # 0 THEN f ELSE Put(balloc(f, k[1]))

\* A new block of indexes: balloc does not clear it, and the index of a block
\* that was used before is taken for one of this file.
NewIndexes(f, k) ==
  LET block == Ino(f, k).index
      Read(first) == IF first = 0 THEN f
                     ELSE Panic([f EXCEPT !.ino[k[1]][k[2]].far = first], "stale_index")
  IN  IF block \in Zone THEN Read(f.stale[k[1]][block]) ELSE f

\* bmap(inode, block, true); the block after the direct ones is reached
\* through the block of indexes.
bmap_create(f, k, block) ==
  IF block = 0 THEN FillZone(f, k, "zone")
  ELSE FillZone(IF Ino(f, k).index # 0 THEN f
                ELSE NewIndexes(FillZone(f, k, "index"), k), k, "far")

\* bmap(inode, block, false).
bmap(f, k, block) == IF block = 0 THEN Ino(f, k).zone ELSE Ino(f, k).far

Blocks(desc) == {desc.zone, desc.index, desc.far} \ {0}

FreedDirect(desc) == {desc.zone} \ {0}

\* The blocks inode_bfree frees on its three levels.
Freed(desc) == Blocks(desc)

\* What the blocks of a file hold once it is gone: the block of indexes its
\* index, the others the bytes that were written to them.
Left(f, k) ==
  LET desc == Ino(f, k) IN
  [b \in Zone |-> IF b \notin Blocks(desc) THEN f.stale[k[1]][b]
                  ELSE IF b = desc.index THEN desc.far ELSE Junk]

\* inode_truncate: each block is freed (bfree) and forgotten, but not cleared;
\* the entries of a directory are out of reach with it.  A device node keeps
\* its zone[0].
inode_truncate(f, k) ==
  LET desc == Ino(f, k) IN
  IF desc.type \notin {"file", "dir"} THEN f
  ELSE [Check(f, Freed(desc) \subseteq f.zmap[k[1]], "bitmap") EXCEPT
          !.zmap[k[1]] = @ \ Freed(desc), !.stale[k[1]] = Left(f, k),
          !.ino[k[1]][k[2]] = [@ EXCEPT !.zone = 0, !.index = 0, !.far = 0,
                                        !.size = 0, !.entries = << >>]]

-----------------------------------------------------------------------------
(* Inodes in memory: iget, iput, fit_inode. *)

Hold(f, k) == [f EXCEPT !.count[k] = @ + 1]

\* An iput too many wraps the unsigned count; the model stops there.
iput(f, k) ==
  IF k = Null THEN f
  ELSE IF f.count[k] = 0 THEN Panic(f, "count")
  ELSE [f EXCEPT !.count[k] = @ - 1]

\* iget; the inode of a mount point becomes the root of what is mounted there.
iget(f, d, nr) ==
  LET k == <<d, nr>>
      over == IF f.count[k] > 0 THEN f.mount[k] ELSE 0
      Held(at) == [fs |-> Hold(f, at), at |-> at]
  IN  IF ~Loaded(f, d) \/ (over # 0 /\ ~Loaded(f, over))
      THEN [fs |-> Panic(f, "no_super"), at |-> k]
      ELSE Held(IF over # 0 THEN f.sb[over].iroot ELSE k)

-----------------------------------------------------------------------------
(* Names: find_entry, add_entry, named, namei. *)

Slots(f, k, name) ==
  LET entries == Ino(f, k).entries
  IN  {i \in DOMAIN entries : entries[i].nr # 0 /\ entries[i].name = name}

\* The step from the root of a mounted device to `..' starts where the device
\* is mounted.
Cross(f, k, name) ==
  IF name # ".." \/ k[2] # 1 \/ k = Root THEN [fs |-> f, at |-> k]
  ELSE LET over == f.sb[k[1]].imount IN
       IF over = Null THEN [fs |-> Panic(f, "no_super"), at |-> k]
       ELSE [fs |-> iput(Hold(f, over), k), at |-> over]

\* find_entry: the directory it looked in and the number of the inode found.
find_entry(f, k, name) ==
  LET Result(c, slots) ==
        [fs |-> c.fs, at |-> c.at, slot |-> IF slots = {} THEN 0 ELSE Min(slots),
         nr |-> IF slots = {} THEN 0 ELSE Ino(c.fs, c.at).entries[Min(slots)].nr]
      Look(c) == Result(c, Slots(c.fs, c.at, name))
  IN  Look(Cross(f, k, name))

\* The modes of the files allow everything; permission() also refuses an inode
\* without links.
permission(f, k) == Ino(f, k).nlinks > 0

\* One level of named.  A component that is no directory ends the walk without
\* an iput of its inode.
Down(f, k, name) ==
  LET Enterable(g) ==
        [fs |-> g.fs, at |-> IF Ino(g.fs, g.at).type = "dir" /\ permission(g.fs, g.at)
                             THEN g.at ELSE Null]
      Follow(e) ==
        IF e.slot = 0 THEN [fs |-> iput(e.fs, e.at), at |-> Null]
        ELSE Enterable(iget(iput(e.fs, e.at), e.at[1], e.nr))
  IN  Follow(find_entry(f, k, name))

\* named: the directory of the last component of the path.
named(f, t, path) ==
  LET start == IF path.abs THEN task[t].iroot ELSE task[t].ipwd
      Level(w, name) == IF w.at = Null THEN w ELSE Down(w.fs, w.at, name)
      after[n \in 0 .. Len(path.names)] ==
        IF n = 0 THEN [fs |-> Hold(f, start), at |-> start]
        ELSE Level(after[n - 1], path.names[n])
  IN  after[IF path.names = << >> THEN 0 ELSE Len(path.names) - 1]

\* The lookup of the last component in the directory named() found.
LastEntry(w, path) == find_entry(w.fs, w.at, Last(path.names))

namei(f, t, path) ==
  LET Leave(g, dir) == [fs |-> iput(g.fs, dir), at |-> g.at]
      Found(e) == IF e.slot = 0 THEN [fs |-> iput(e.fs, e.at), at |-> Null]
                  ELSE Leave(iget(e.fs, e.at[1], e.nr), e.at)
      In(w) == IF w.at = Null \/ path.names = << >> THEN w
               ELSE Found(LastEntry(w, path))
  IN  In(named(f, t, path))

SetEntry(f, k, slot, nr) == [f EXCEPT !.ino[k[1]][k[2]].entries[slot].nr = nr]

\* add_entry takes the first entry with nr 0, else one more at the end, and
\* gives the directory the block it is in.
add_entry(f, k, name) ==
  LET entries == Ino(f, k).entries
      gaps == {i \in DOMAIN entries : entries[i].nr = 0}
      at == IF gaps = {} THEN Len(entries) + 1 ELSE Min(gaps)
      entry == [name |-> name, nr |-> 0]
      Grown(g) == [g EXCEPT !.ino[k[1]][k[2]].entries =
                     IF gaps = {} THEN Append(@, entry) ELSE [@ EXCEPT ![at] = entry]]
  IN  [fs |-> Grown(bmap_create(f, k, (at - 1) \div BLOCK_DENTRIES)), slot |-> at]

Links(f, k, n) == [f EXCEPT !.ino[k[1]][k[2]].nlinks = n]

\* A new name in directory k: add_entry, ialloc, new_inode.  new_inode sets
\* every field of the descriptor but zone.
Create(f, k, name, type) ==
  LET new_inode(g) ==
        [g EXCEPT !.fs.ino[g.at[1]][g.at[2]] =
           [@ EXCEPT !.type = type, !.nlinks = 1, !.size = 0, !.entries = << >>]]
      Allocate(a, slot) == new_inode(iget(SetEntry(a.fs, k, slot, a.bit), k[1], a.bit))
      Add(e) == Allocate(ialloc(e.fs, k[1]), e.slot)
  IN  Add(add_entry(f, k, name))

\* The entry for the last component of a path whose directory may be written;
\* at is Null where the call fails before it looks for it.
Writable(f, t, path) ==
  LET In(w) == IF w.at = Null THEN [fs |-> w.fs, at |-> Null, slot |-> 0]
               ELSE IF path.names = << >> \/ ~permission(w.fs, w.at)
               THEN [fs |-> iput(w.fs, w.at), at |-> Null, slot |-> 0]
               ELSE LastEntry(w, path)
  IN  In(named(f, t, path))

\* What the calls that make a name have in common: the directory of the path,
\* when it does not have the name yet.
Absent(f, t, path) ==
  LET Found(e) == IF e.slot = 0 THEN [fs |-> e.fs, at |-> e.at]
                  ELSE [fs |-> iput(e.fs, e.at), at |-> Null]
  IN  Found(Writable(f, t, path))

\* The ones that remove a name: the directory and the inode, both held.
Present(f, t, path) ==
  LET Nothing(g) == [fs |-> g, dir |-> Null, slot |-> 0, at |-> Null]
      Both(g, e) == [fs |-> g.fs, dir |-> e.at, slot |-> e.slot, at |-> g.at]
      Found(e) == IF e.at = Null THEN Nothing(e.fs)
                  ELSE IF e.slot = 0 THEN Nothing(iput(e.fs, e.at))
                  ELSE Both(iget(e.fs, e.at[1], e.nr), e)
  IN  Found(Writable(f, t, path))

-----------------------------------------------------------------------------
(* System calls on names. *)

\* The call `call' is made by task t; counts stay within their bound.
Calling(t, call) ==
  /\ call \in prog.calls /\ task[t].alive
  /\ \A k \in Key \ {Root} : fs.count[k] < MaxCount

\* The entries of a new directory.
Dots(nr, up) == <<[name |-> ".", nr |-> nr], [name |-> "..", nr |-> up]>>

\* sys_mkdir.
Mkdir(t, path) ==
  LET Dotted(c, dir) ==
        [c.fs EXCEPT !.ino[dir[1]][c.at[2]] =
           [@ EXCEPT !.nlinks = 2, !.entries = Dots(c.at[2], dir[2])]]
      Linked(f, dir) == Links(f, dir, Ino(f, dir).nlinks + 1)
      Fill(c, dir) == bmap_create(Linked(Dotted(c, dir), dir), c.at, 0)
      Made(c, dir) == iput(iput(Fill(c, dir), c.at), dir)
      In(w) == IF w.at = Null THEN w.fs
               ELSE Made(Create(w.fs, w.at, Last(path.names), "dir"), w.at)
  IN  /\ Calling(t, "mkdir")
      /\ fs' = In(Absent(fs, t, path))
      /\ UNCHANGED <<task, file, prog>>

NeverChecked(desc) == TRUE

\* is_dir_empty reads block 0 for every block of the directory.
is_dir_empty(desc) ==
  LET Seen(i) == desc.entries[((i - 1) % BLOCK_DENTRIES) + 1].nr # 0
  IN  /\ Len(desc.entries) >= 2 /\ desc.zone # 0
      /\ Cardinality({i \in DOMAIN desc.entries : Seen(i)}) = 2

\* The removal of an empty directory: p.dir loses the link of `..'.
RemoveDir(p) ==
  LET freed == Links(ifree(inode_truncate(p.fs, p.at), p.at), p.at, 0)
      left == Ino(p.fs, p.dir).nlinks - 1
      ok == Ino(p.fs, p.at).nlinks = 2 /\ left > 0
  IN  SetEntry(Links(Check(freed, ok, "links"), p.dir, left), p.dir, p.slot, 0)

\* sys_rmdir.
Rmdir(t, path) ==
  LET Removable(p) == /\ Ino(p.fs, p.at).type = "dir" /\ p.dir[1] = p.at[1]
                      /\ p.fs.count[p.at] = 1 /\ is_dir_empty(Ino(p.fs, p.at))
      Result(p) == IF p.at = Null THEN p.fs
                   ELSE iput(iput(IF Removable(p) THEN RemoveDir(p) ELSE p.fs, p.at),
                             p.dir)
      Refuse(w) == iput(w.fs, w.at)
  IN  /\ Calling(t, "rmdir")
      /\ fs' = IF path.names # << >> /\ Last(path.names) \in {".", ".."}
               THEN Refuse(named(fs, t, path)) ELSE Result(Present(fs, t, path))
      /\ UNCHANGED <<task, file, prog>>

\* sys_link.
Link(t, old, new) ==
  LET Make(e, k, dir) == Links(SetEntry(e.fs, dir, e.slot, k[2]), k,
                               Ino(e.fs, k).nlinks + 1)
      In(w, k) == IF w.at = Null THEN w.fs
                  ELSE iput(IF w.at[1] # k[1] THEN w.fs
                            ELSE Make(add_entry(w.fs, w.at, Last(new.names)), k, w.at),
                            w.at)
      Of(n) == IF n.at = Null THEN n.fs
               ELSE iput(IF Ino(n.fs, n.at).type = "dir" THEN n.fs
                         ELSE In(Absent(n.fs, t, new), n.at), n.at)
  IN  /\ Calling(t, "link")
      /\ fs' = Of(namei(fs, t, old))
      /\ UNCHANGED <<task, file, prog>>

\* sys_unlink: the last link frees the inode, in use or not.
Unlink(t, path) ==
  LET Less(p, n) == Links(SetEntry(Check(p.fs, n > 0, "links"), p.dir, p.slot, 0),
                          p.at, n - 1)
      Drop(p, n) == IF n = 1 THEN ifree(inode_truncate(Less(p, n), p.at), p.at)
                    ELSE Less(p, n)
  IN  /\ Calling(t, "unlink")
      /\ \E p \in {Present(fs, t, path)} :
           IF p.at = Null THEN fs' = p.fs
           ELSE LET desc == Ino(p.fs, p.at) IN
                /\ desc.type = "blk" => "node_unlink" \in prog.risks
                /\ desc.nlinks = 1 /\ p.fs.count[p.at] > 1 => "open_unlink" \in prog.risks
                /\ fs' = iput(iput(IF desc.type = "dir" THEN p.fs
                                   ELSE Drop(p, desc.nlinks), p.at), p.dir)
      /\ UNCHANGED <<task, file, prog>>

\* sys_mknod of a block device.
Mknod(t, path, d) ==
  LET Made(c, dir) ==
        iput(iput([c.fs EXCEPT !.ino[c.at[1]][c.at[2]].zone = d], c.at), dir)
      In(w) == IF w.at = Null THEN w.fs
               ELSE Made(Create(w.fs, w.at, Last(path.names), "blk"), w.at)
  IN  /\ Calling(t, "mknod")
      /\ fs' = In(Absent(fs, t, path))
      /\ UNCHANGED <<task, file, prog>>

\* sys_stat.
Stat(t, path) ==
  /\ Calling(t, "stat")
  /\ \E n \in {namei(fs, t, path)} : fs' = iput(n.fs, n.at)
  /\ UNCHANGED <<task, file, prog>>

\* sys_chdir and sys_chroot; abspath has made the path absolute.
Enter(t, path, which) ==
  /\ Calling(t, "chdir") /\ path.abs
  /\ \E n \in {namei(fs, t, path)} :
       IF n.at = Null \/ Ino(n.fs, n.at).type # "dir" \/ n.at = task[t].ipwd
       THEN fs' = iput(n.fs, n.at) /\ UNCHANGED task
       ELSE /\ fs' = iput(n.fs, task[t][which])
            /\ task' = [task EXCEPT ![t][which] = n.at]
  /\ UNCHANGED <<file, prog>>

-----------------------------------------------------------------------------
(* Open files: file.c, inode_open, inode_read, inode_write. *)

\* inode_open.  Where permission() fails the file is opened all the same.
inode_open(f, t, path, creat, trunc, write) ==
  LET no(g) == [fs |-> g, at |-> Null]
      Makeup(g, dir) ==
        [fs |-> iput(IF trunc THEN inode_truncate(g.fs, g.at) ELSE g.fs, dir),
         at |-> g.at]
      Existing(g, dir) ==
        IF permission(g.fs, g.at) /\ write /\ Ino(g.fs, g.at).type = "dir"
        THEN no(iput(iput(g.fs, g.at), dir)) ELSE Makeup(g, dir)
      Found(e) ==
        IF e.slot # 0 THEN Existing(iget(e.fs, e.at[1], e.nr), e.at)
        ELSE IF creat /\ permission(e.fs, e.at)
        THEN Makeup(Create(e.fs, e.at, Last(path.names), "file"), e.at)
        ELSE no(iput(e.fs, e.at))
      In(w) == IF w.at = Null \/ path.names = << >> THEN w
               ELSE Found(LastEntry(w, path))
  IN  IF trunc /\ ~write THEN no(f) ELSE In(named(f, t, path))

\* desc->size in blocks; a directory has its entries.
Size(desc) ==
  IF desc.type = "dir"
  THEN (Len(desc.entries) + BLOCK_DENTRIES - 1) \div BLOCK_DENTRIES
  ELSE desc.size

FreeFds(t) == {n \in Fd : task[t].fd[n] = 0}
FreeFiles == {n \in File : file[n].count = 0}

\* sys_open and sys_creat; with O_APPEND the offset is the size the file has
\* now.  task_get_fd and get_file panic when there is none left.
Open(t, path, creat, trunc, read, write) ==
  /\ Calling(t, "open") /\ (read \/ write)
  /\ \E o \in {inode_open(fs, t, path, creat, trunc, write)} :
       IF o.at = Null
       THEN fs' = o.fs /\ UNCHANGED <<task, file>>
       ELSE IF FreeFds(t) = {} \/ FreeFiles = {}
       THEN fs' = Panic(o.fs, "files") /\ UNCHANGED <<task, file>>
       ELSE /\ fs' = o.fs
            /\ task' = [task EXCEPT ![t].fd[Min(FreeFds(t))] = Min(FreeFiles)]
            /\ \E offset \in {0, Size(Ino(o.fs, o.at))} :
                 file' = [file EXCEPT ![Min(FreeFiles)] =
                            [inode |-> o.at, count |-> 1, offset |-> offset,
                             read |-> read, write |-> write]]
  /\ UNCHANGED prog

put_fileEach(s, n) ==
  IF n = 0 THEN s
  ELSE [fs |-> iput(s.fs, s.file[n].inode),
        file |-> IF s.file[n].count = 1 THEN [s.file EXCEPT ![n] = NoFile]
                 ELSE [s.file EXCEPT ![n].count = @ - 1]]

\* put_file: the last close gives the inode back.
put_file(s, n) ==
  IF n = 0 THEN s
  ELSE IF s.file[n].count = 1
  THEN [fs |-> iput(s.fs, s.file[n].inode), file |-> [s.file EXCEPT ![n] = NoFile]]
  ELSE [s EXCEPT !.file[n].count = @ - 1]

CloseFd(f, t, fd) == put_file([fs |-> f, file |-> file], task[t].fd[fd])

CloseNone(f, t) == [fs |-> f, file |-> file]

\* sys_close of every descriptor, in sys_exit, and from the fourth on in
\* fork_clean: the standard streams, which execve leaves open, are none of Fd.
CloseAll(f, t) ==
  LET after[n \in 0 .. NFd] == IF n = 0 THEN [fs |-> f, file |-> file]
                                ELSE put_file(after[n - 1], task[t].fd[n])
  IN  after[NFd]

NoFds == [fd \in Fd |-> 0]

\* sys_close.
Close(t, fd) ==
  /\ Calling(t, "close") /\ task[t].fd[fd] # 0
  /\ \E c \in {CloseFd(fs, t, fd)} : fs' = c.fs /\ file' = c.file
  /\ task' = [task EXCEPT ![t].fd[fd] = 0]
  /\ UNCHANGED prog

\* dupfd; a table that is full is an error.
Dup(t, fd) ==
  /\ Calling(t, "dup") /\ task[t].fd[fd] # 0 /\ FreeFds(t) # {}
  /\ task' = [task EXCEPT ![t].fd[Min(FreeFds(t))] = task[t].fd[fd]]
  /\ file' = [file EXCEPT ![task[t].fd[fd]].count = @ + 1]
  /\ UNCHANGED <<fs, prog>>

\* sys_dup2 closes newfd even when oldfd is not open.
Dup2(t, old, new) ==
  /\ Calling(t, "dup") /\ old # new
  /\ \E c \in {CloseFd(fs, t, new)}, n \in {task[t].fd[old]} :
       /\ fs' = c.fs
       /\ task' = [task EXCEPT ![t].fd[new] = n]
       /\ file' = IF n = 0 THEN c.file ELSE [c.file EXCEPT ![n].count = @ + 1]
  /\ UNCHANGED prog

\* sys_lseek.
Lseek(t, fd, to) ==
  /\ Calling(t, "lseek") /\ task[t].fd[fd] # 0
  /\ file' = [file EXCEPT ![task[t].fd[fd]].offset = to]
  /\ UNCHANGED <<fs, task, prog>>

\* sys_read and inode_read.  A block that was never written stops the kernel.
Read(t, fd) ==
  LET n == task[t].fd[fd]
      at == file[n].offset
      k == file[n].inode
  IN  /\ Calling(t, "read") /\ n # 0 /\ file[n].read
      /\ Ino(fs, k).type # "blk" /\ at < Size(Ino(fs, k))
      /\ fs' = Check(fs, bmap(fs, k, at) # 0, "hole")
      /\ file' = [file EXCEPT ![n].offset = @ + 1]
      /\ UNCHANGED <<task, prog>>

Grow(f, k, size) == [f EXCEPT !.ino[k[1]][k[2]].size = Max({@, size})]

\* A write of one block at this offset is refused.
TooLong(at) == at + 1 >= FILE_MAX_SIZE

\* sys_write and inode_write.  "/" opens for writing, and its write asserts.
Write(t, fd) ==
  LET n == task[t].fd[fd]
      at == file[n].offset
      k == file[n].inode
  IN  /\ Calling(t, "write") /\ n # 0 /\ file[n].write
      /\ Ino(fs, k).type # "blk" /\ ~TooLong(at)
      /\ fs' = IF Ino(fs, k).type # "file" THEN Panic(fs, "isfile")
               ELSE Grow(bmap_create(fs, k, at), k, at + 1)
      /\ file' = [file EXCEPT ![n].offset = @ + 1]
      /\ UNCHANGED <<task, prog>>

-----------------------------------------------------------------------------
(* Processes: what sys_fork, sys_exit and sys_execve do to inodes and files. *)

ForkHoldsDirs(f, t) == Hold(Hold(f, task[t].ipwd), task[t].iroot)

\* The inodes the child shares with its parent.
ForkHolds(f, t) ==
  LET h == Hold(Hold(f, task[t].ipwd), task[t].iroot)
  IN  IF task[t].iexec = Null THEN h ELSE Hold(h, task[t].iexec)

Fork(t, child) ==
  /\ Calling(t, "fork") /\ ~task[child].alive
  /\ fs' = ForkHolds(fs, t)
  /\ task' = [task EXCEPT ![child] = task[t]]
  /\ file' = [n \in File |->
                [file[n] EXCEPT !.count =
                   @ + Cardinality({fd \in Fd : task[t].fd[fd] = n /\ n # 0})]]
  /\ UNCHANGED prog

NoTask == [alive |-> FALSE, iroot |-> Null, ipwd |-> Null, iexec |-> Null,
           fd |-> NoFds]

\* init never exits.
Exit(t) ==
  /\ Calling(t, "exit") /\ t # 1
  /\ \E c \in {CloseAll(iput(iput(iput(fs, task[t].ipwd), task[t].iroot),
                             task[t].iexec), t)} :
       fs' = c.fs /\ file' = c.file
  /\ task' = [task EXCEPT ![t] = NoTask]
  /\ UNCHANGED prog

\* sys_execve.  fork_clean gives the old image and the files back before
\* load_elf looks at the new one; when that fails task->iexec still names the
\* old inode.
Execve(t, path, elf) ==
  /\ Calling(t, "execve") /\ (elf \/ "bad_image" \in prog.risks)
  /\ \E n \in {namei(fs, t, path)} :
       IF n.at = Null \/ Ino(n.fs, n.at).type # "file" \/ ~permission(n.fs, n.at)
       THEN fs' = iput(n.fs, n.at) /\ UNCHANGED <<task, file>>
       ELSE \E c \in {CloseAll(iput(n.fs, task[t].iexec), t)} :
              /\ fs' = IF elf THEN c.fs ELSE iput(c.fs, n.at)
              /\ file' = c.file
              /\ task' = [task EXCEPT ![t] =
                            [@ EXCEPT !.fd = NoFds,
                                      !.iexec = IF elf THEN n.at ELSE task[t].iexec]]
  /\ UNCHANGED prog

-----------------------------------------------------------------------------
(* Super blocks: super.c. *)

\* read_super finds no magic number and keeps the super block: the next one to
\* ask gets it, and an inode table that is not there.
read_super(f, d) ==
  [fs |-> IF Loaded(f, d) THEN Check(f, d \in f.minix, "not_minix")
          ELSE [f EXCEPT !.sb[d].count = 1],
   found |-> d \in f.minix]

\* sys_mount.
Mount(t, node, path) ==
  LET Attach(i, d, n, dir) ==
        iput([i.fs EXCEPT !.sb[d] = [@ EXCEPT !.iroot = i.at, !.imount = dir],
                          !.mount[dir] = d], n)
      Use(s, d, n, dir) ==
        IF ~s.found \/ s.fs.sb[d].imount # Null THEN iput(iput(s.fs, n), dir)
        ELSE Attach(iget(s.fs, d, 1), d, n, dir)
      On(p, n, d) ==
        IF p.at = Null THEN iput(p.fs, n)
        ELSE IF \/ Ino(p.fs, p.at).type # "dir" \/ p.fs.count[p.at] # 1
                \/ p.fs.mount[p.at] # 0
             THEN iput(iput(p.fs, n), p.at)
             ELSE Use(read_super(p.fs, d), d, n, p.at)
      Of(n) ==
        IF n.at = Null THEN n.fs
        ELSE IF Ino(n.fs, n.at).type # "blk" THEN iput(n.fs, n.at)
        ELSE On(namei(n.fs, t, path), n.at, Ino(n.fs, n.at).zone)
  IN  /\ Calling(t, "mount")
      /\ fs' = Of(namei(fs, t, node))
      /\ UNCHANGED <<task, file, prog>>

InUse(f, d) == {k \in Key : k[1] = d /\ f.count[k] > 0}

\* inode_list is only asked for its length: it always holds the root.
Busy(f, d) == Cardinality(InUse(f, d)) > 1

\* sys_umount, by the directory or by the device.
Umount(t, path) ==
  LET Detach(f, d, sb) ==
        [iput([iput(f, sb.iroot) EXCEPT !.mount[sb.imount] = 0], sb.imount)
           EXCEPT !.sb[d] = NoSuper]
      From(f, d) ==
        IF ~Loaded(f, d) THEN Panic(f, "no_super")
        ELSE IF f.sb[d].imount = Null \/ Busy(f, d) THEN f
        ELSE Detach(f, d, f.sb[d])
      Of(n) ==
        IF n.at = Null THEN n.fs
        ELSE iput(IF Ino(n.fs, n.at).type = "blk" THEN From(n.fs, Ino(n.fs, n.at).zone)
                  ELSE IF n.at[2] # 1 \/ n.at = Root THEN n.fs
                  ELSE From(n.fs, n.at[1]), n.at)
  IN  /\ Calling(t, "umount")
      /\ fs' = Of(namei(fs, t, path))
      /\ UNCHANGED <<task, file, prog>>

\* devmkfs: the bitmaps are cleared, then the root directory is made in
\* inode 1; of the inodes only that one is written, and not its zone[].  The
\* blocks that were in use keep what they hold.
devmkfs(f, d) ==
  LET bare == [f EXCEPT !.minix = @ \cup {d}, !.sb[d].count = 1,
                        !.imap[d] = {1}, !.zmap[d] = {},
                        !.stale[d] = [b \in Zone |-> IF b \in f.zmap[d] THEN Junk
                                                     ELSE f.stale[d][b]]]
      root == [bare EXCEPT !.ino[d][1] =
                 [@ EXCEPT !.type = "dir", !.nlinks = 2, !.size = 0,
                           !.entries = Dots(1, 1)]]
  IN  [bmap_create(root, <<d, 1>>, 0) EXCEPT !.sb[d] = NoSuper]

\* sys_mkfs.
Mkfs(t, path) ==
  LET Format(f, d) == IF ~Loaded(f, d) THEN devmkfs(f, d)
                      ELSE IF f.sb[d].imount # Null THEN f
                      ELSE Panic(f, "stale_super")
  IN  /\ Calling(t, "mkfs")
      /\ \E n \in {namei(fs, t, path)} :
           IF n.at = Null \/ Ino(n.fs, n.at).type # "blk"
           THEN fs' = iput(n.fs, n.at)
           ELSE LET d == Ino(n.fs, n.at).zone IN
                /\ d \in n.fs.minix /\ ~Loaded(n.fs, d) => "reformat" \in prog.risks
                /\ fs' = iput(Format(n.fs, d), n.at)
      /\ UNCHANGED <<task, file, prog>>

-----------------------------------------------------------------------------
(* super_init, mount_root and the first task.  idle and init hold the root four
   times before there is an inode; the first iget of mount_root adds none. *)

\* Of dev_init the node of the last device is kept, as a name of the root
\* directory; the RAM disk that is mounted on /dev is left out.
RootEntries == Append(Dots(1, 1), [name |-> "dev", nr |-> 2])

RootDisk ==
  [nr \in Nr |->
     CASE nr = 1 -> [Blank EXCEPT !.type = "dir", !.nlinks = 2, !.zone = Min(Zone),
                                  !.entries = RootEntries]
       [] nr = 2 -> [Blank EXCEPT !.type = "blk", !.nlinks = 1, !.zone = NDev]
       [] OTHER -> Blank]

IdleUses == 2      \* what the idle task holds of the root

FilesInit ==
  /\ fs = [imap |-> [d \in Dev |-> IF d = 1 THEN {1, 2} ELSE {}],
           zmap |-> [d \in Dev |-> IF d = 1 THEN {Min(Zone)} ELSE {}],
           stale |-> [d \in Dev |-> [b \in Zone |-> 0]],
           ino |-> [d \in Dev |-> IF d = 1 THEN RootDisk ELSE [nr \in Nr |-> Blank]],
           count |-> [k \in Key |-> IF k = Root THEN IdleUses + 3 ELSE 0],
           mount |-> [k \in Key |-> IF k = Root THEN 1 ELSE 0],
           sb |-> [d \in Dev |->
                     IF d = 1 THEN [count |-> 1, iroot |-> Root, imount |-> Root]
                     ELSE NoSuper],
           minix |-> {1}, panic |-> "none"]
  /\ task = [t \in Task |-> IF t = 1 THEN [NoTask EXCEPT !.alive = TRUE,
                                             !.iroot = Root, !.ipwd = Root]
                            ELSE NoTask]
  /\ file = [n \in File |-> NoFile]
  /\ prog \in Programs

FilesNext ==
  /\ \/ fs.panic = "none"
     \/ fs.panic = "stale_index" /\ "stale_index" \in prog.risks
  /\ \E t \in Task :
       \/ \E path \in prog.paths :
            \/ Mkdir(t, path)
            \/ Rmdir(t, path)
            \/ Unlink(t, path)
            \/ \E d \in Dev : Mknod(t, path, d)
            \/ \E new \in prog.paths : Link(t, path, new)
            \/ Stat(t, path)
            \/ \E elf \in BOOLEAN : Execve(t, path, elf)
            \/ Umount(t, path)
            \/ Mkfs(t, path)
            \/ \E on \in prog.dirs : Mount(t, path, on)
            \/ \E creat, trunc, read, write \in BOOLEAN :
                 Open(t, path, creat, trunc, read, write)
       \/ \E path \in prog.dirs, which \in {"ipwd", "iroot"} : Enter(t, path, which)
       \/ \E fd \in Fd :
            \/ Close(t, fd)
            \/ Dup(t, fd)
            \/ \E new \in Fd : Dup2(t, fd, new)
            \/ \E to \in Offset : Lseek(t, fd, to)
            \/ Read(t, fd)
            \/ Write(t, fd)
       \/ \E child \in Task : Fork(t, child)
       \/ Exit(t)

FilesSpec == FilesInit /\ [][FilesNext]_fileVars

-----------------------------------------------------------------------------
(* Properties; they speak of the states before a panic, and before a block
   that was used before has become a block of indexes. *)

Running == fs.panic = "none"

Owners(d) == {nr \in Nr : fs.ino[d][nr].type \in {"file", "dir"}}

\* The blocks marked used on a device are those that its files and directories
\* name, and no two of them name the same block: balloc, bmap and
\* inode_truncate neither lose a block nor give one out twice.  It ends with the
\* first block of indexes that is stale.
ZonesExact ==
  Running => \A d \in fs.minix :
    LET desc == fs.ino[d] IN
    /\ UNION {Blocks(desc[nr]) : nr \in Owners(d)} = fs.zmap[d]
    /\ \A m, n \in Owners(d) : m # n => Blocks(desc[m]) \cap Blocks(desc[n]) = {}

Naming(d, nr) ==
  UNION {{<<dir, i>> : i \in {i \in DOMAIN fs.ino[d][dir].entries :
                                 fs.ino[d][dir].entries[i].nr = nr}} :
           dir \in {dir \in fs.imap[d] : fs.ino[d][dir].type = "dir"}}

\* nlinks of an inode in use is the number of directory entries that name it,
\* `.' and `..' included, and no entry names a free inode: what unlink and
\* rmdir go by when they free an inode.
LinksExact ==
  Running => \A d \in fs.minix, nr \in Nr :
    Cardinality(Naming(d, nr)) = IF nr \in fs.imap[d] THEN fs.ino[d][nr].nlinks ELSE 0

Uses(k) ==
  LET Of(field) == Cardinality({t \in Task : task[t][field] = k})
      Top(field) == Cardinality({d \in Dev : fs.sb[d][field] = k})
  IN  Of("iroot") + Of("ipwd") + Of("iexec") + Top("iroot") + Top("imount")
        + Cardinality({n \in File : file[n].inode = k})
        + (IF k = Root THEN IdleUses ELSE 0)

\* An inode that a task, an open file or a super block points to is counted
\* once for each of them, so that iput never recycles it under them.  Only the
\* root inode is counted once less, by mount_root; it is never recycled.
InodesCounted ==
  Running => \A k \in Key : fs.count[k] + (IF k = Root THEN 1 ELSE 0) >= Uses(k)

\* file->count is the number of descriptors that hold the file, over fork, dup,
\* dup2, execve and exit: a file is closed by its last user and only by it.
FilesCounted ==
  \A n \in File :
    file[n].count = Cardinality({h \in Task \X Fd : task[h[1]].fd[h[2]] = n})

\* bfree, ifree, sys_unlink and sys_rmdir find bit and links as they assert, and
\* no iput lacks its iget, as long as no block of indexes is stale.
AssertionsHold == fs.panic \notin {"bitmap", "links", "count"}

\* A task or a file uses no inode of a device that is not mounted: the check
\* sys_umount makes before it gives the super block up.
MountedWhileUsed ==
  Running => \A k \in Key : Uses(k) > 0 => Loaded(fs, k[1])
=============================================================================
