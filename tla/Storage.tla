------------------------------ MODULE Storage ------------------------------
(***************************************************************************)
(* The file system of the kernel: the directory tree (src/kernel/vfs.c),   *)
(* the flat table of files in memory (filesystem.c), the table of          *)
(* permissions (perms.c), and the image of all that on the host            *)
(* (vfs_persist.c, hostio.c).                                              *)
(***************************************************************************)
EXTENDS Integers, Sequences, SequencesExt, FiniteSets, FiniteSetsExt, TLC

CONSTANTS
  VFS_MAX_NODES, VFS_MAX_DEPTH, MAX_FILES, MAX_PERM_ENTRIES,
  NAME_LEN,          \* names of files are cut to so many segments (31 characters)
  Names,             \* names of directories
  FileNames,         \* names of files
  Users,             \* uids; 0 is root
  Data,              \* contents of files
  DefaultDirs,       \* the paths that vfs_init makes, in its order
  PathBound,         \* bound: segments in a path that a client gives
  RemovesRoot        \* whether clients call rmdir on "/"

ASSUME StorageAssumption ==
  /\ {VFS_MAX_DEPTH, MAX_FILES, MAX_PERM_ENTRIES, NAME_LEN, PathBound} \subseteq Nat \ {0}
  /\ VFS_MAX_NODES \in Nat /\ VFS_MAX_NODES > Len(DefaultDirs)
  /\ DefaultDirs \in Seq(Seq(Names))
  /\ 0 \in Users /\ Users \subseteq Nat
  /\ {"/", ".."} \cap (Names \cup FileNames) = {} /\ RemovesRoot \in BOOLEAN

NONE == -1
Ids == 0 .. VFS_MAX_NODES - 1

VARIABLES
  nodes,      \* the nodes in use: id -> [parent, name]; the others are unused
  cwd,        \* vfs_cwd_id
  files,      \* files[i]: [name, data, owner], or NoFile
  perms,      \* perms[i]: [resource, owner], or NoEntry; the mode is always read and write
  image       \* the host's file: NoImage, BadHeader, or [node_count, file_count, recs],
              \* with recs[id] = [parent, name], written and read by rising id

storageVars == <<nodes, cwd, files, perms, image>>

NoFile == [name |-> <<>>, data |-> 0, owner |-> NONE]
NoEntry == [resource |-> <<>>, owner |-> NONE]
NoImage == [node_count |-> NONE, file_count |-> NONE, recs |-> <<>>]
BadHeader == [node_count |-> 0, file_count |-> NONE, recs |-> <<>>]

------------------------------------------------------------------------------
(* The tree.  A path is a sequence of names and "..": "." and empty segments are skipped. *)

Paths == BoundedSeq(Names \cup {".."}, PathBound)

Child(t, parent, name) ==
  LET found == {i \in DOMAIN t : t[i].parent = parent /\ t[i].name = name}
  IN IF found = {} THEN NONE ELSE Min(found)

Step(t, cur, seg) ==
  CASE cur = NONE -> NONE
    [] cur # NONE /\ seg = ".." -> IF cur \in DOMAIN t /\ t[cur].parent >= 0 THEN t[cur].parent ELSE 0
    [] OTHER -> Child(t, cur, seg)

\* resolve_path_id
Resolve(t, path) ==
  LET at[k \in 0 .. Len(path)] == IF k = 0 THEN 0 ELSE Step(t, at[k - 1], path[k])
  IN at[Len(path)]

\* The names on the way up from a node, at most depth of them.
Upwards(t, id, depth) ==
  LET up[d \in 0 .. depth] ==
        [i \in Ids \cup {NONE} |-> IF d = 0 \/ i <= 0 \/ i \notin DOMAIN t THEN <<>>
                                  ELSE Append(up[d - 1][t[i].parent], t[i].name)]
  IN up[depth][id]

\* node_path looks at no more than VFS_MAX_DEPTH of them.
NodePath(t, id) == Upwards(t, id, VFS_MAX_DEPTH)

AllocNode(t) == IF Ids \subseteq DOMAIN t THEN NONE ELSE Min(Ids \ DOMAIN t)

\* vfs_mkdir of an absolute path: a directory that exists is left alone.
Mkdir(t, path) ==
  LET parent == Resolve(t, Front(path))
      new == AllocNode(t)
  IN IF Resolve(t, path) # NONE \/ parent = NONE \/ new = NONE THEN t
     ELSE [i \in DOMAIN t \cup {new} |->
             IF i = new THEN [parent |-> parent, name |-> Last(path)] ELSE t[i]]

\* vfs_init
Root == [i \in {0} |-> [parent |-> NONE, name |-> "/"]]
Fresh ==
  LET made[k \in 0 .. Len(DefaultDirs)] == IF k = 0 THEN Root ELSE Mkdir(made[k - 1], DefaultDirs[k])
  IN made[Len(DefaultDirs)]

\* vfs_resolve
Absolute(path) == NodePath(nodes, cwd) \o path
Inputs == {<<TRUE, p>> : p \in Paths} \cup {<<FALSE, p>> : p \in Paths}
AbsoluteOf(input) == IF input[1] THEN input[2] ELSE Absolute(input[2])

VfsMkdir(path) ==
  /\ nodes' = Mkdir(nodes, path)
  /\ UNCHANGED <<cwd, files, perms, image>>

\* Mutant: a directory is removed with what is in it.
RmdirOfAny(path) ==
  LET id == Resolve(nodes, path)
  IN /\ id \in DOMAIN nodes \ {0}
     /\ nodes' = [i \in DOMAIN nodes \ {id} |-> nodes[i]]
     /\ cwd' = IF cwd = id THEN 0 ELSE cwd
     /\ UNCHANGED <<files, perms, image>>

VfsRmdir(path) ==
  LET id == Resolve(nodes, path)
  IN /\ id \in DOMAIN nodes
     /\ RemovesRoot \/ id # 0
     /\ \A i \in DOMAIN nodes : nodes[i].parent # id
     /\ nodes' = [i \in DOMAIN nodes \ {id} |-> nodes[i]]
     /\ cwd' = IF cwd = id THEN 0 ELSE cwd
     /\ UNCHANGED <<files, perms, image>>

VfsChdir(path) ==
  /\ Resolve(nodes, path) \in DOMAIN nodes
  /\ cwd' = Resolve(nodes, path)
  /\ UNCHANGED <<nodes, files, perms, image>>

------------------------------------------------------------------------------
(* Files and permissions *)

\* kstrncpy into the name of an entry: what is too long is cut.
Cut(name) == SubSeq(name, 1, IF Len(name) < NAME_LEN THEN Len(name) ELSE NAME_LEN)

First(found) == IF found = {} THEN NONE ELSE Min(found)

FindFile(name) == First({i \in DOMAIN files : files[i] # NoFile /\ files[i].name = name})
FindEntry(name) == First({i \in DOMAIN perms : perms[i] # NoEntry /\ perms[i].resource = name})
FreeFile == First({i \in DOMAIN files : files[i] = NoFile})
FreeEntry == First({i \in DOMAIN perms : perms[i] = NoEntry})

\* check_permission
Permitted(name, uid) == uid = 0 \/ (FindEntry(name) # NONE /\ perms[FindEntry(name)].owner = uid)

\* Mutant: a name that is known keeps its owner.
RegisteredOnce(name, uid) ==
  IF FindEntry(name) # NONE \/ FreeEntry = NONE THEN perms
  ELSE [perms EXCEPT ![FreeEntry] = [resource |-> Cut(name), owner |-> uid]]

\* perms_register.  A full table takes no new entry, and nobody is told.
Registered(name, uid) ==
  LET known == FindEntry(name)
  IN CASE known # NONE -> [perms EXCEPT ![known].owner = uid]
       [] known = NONE /\ FreeEntry # NONE ->
            [perms EXCEPT ![FreeEntry] = [resource |-> Cut(name), owner |-> uid]]
       [] OTHER -> perms

NewFile(name, data, uid) ==
  /\ FindFile(name) = NONE
  /\ FreeFile # NONE
  /\ files' = [files EXCEPT ![FreeFile] = [name |-> Cut(name), data |-> data, owner |-> uid]]
  /\ perms' = Registered(name, uid)

Overwrite(name, data, uid) ==
  /\ FindFile(name) # NONE
  /\ Permitted(name, uid)
  /\ files' = [files EXCEPT ![FindFile(name)].data = data]
  /\ UNCHANGED perms

\* fs_create, and fs_write, which are the same: each falls back on the other.
FsCreate(name, data, uid) ==
  /\ NewFile(name, data, uid) \/ Overwrite(name, data, uid)
  /\ UNCHANGED <<nodes, cwd, image>>

FsDelete(name, uid) ==
  /\ FindFile(name) # NONE
  /\ Permitted(name, uid)
  /\ files' = [files EXCEPT ![FindFile(name)] = NoFile]
  /\ UNCHANGED <<nodes, cwd, perms, image>>

\* vfs_create, vfs_write and vfs_delete give the flat table the absolute path
\* as a name.  They make no node.
Key(path) == <<"/">> \o path
VfsWrite(path, data) == FsCreate(Key(path), data, 0)
VfsDelete(path) == FsDelete(Key(path), 0)

------------------------------------------------------------------------------
(* The image *)

FsCount == Cardinality({i \in DOMAIN files : files[i] # NoFile})

\* vfs_persist_save.  The header counts the files; their contents are written
\* for nodes that are files, and there are none.  Opening the host's file has
\* cut the old image already; the disk may be full, or the power fail, between
\* records (the results of those writes are not looked at: load finds out) or
\* before the header is complete.  An image that lacks some records is as
\* good as one that lacks all.
Save ==
  /\ image' \in {BadHeader} \cup
       {[node_count |-> Cardinality(DOMAIN nodes), file_count |-> FsCount, recs |-> written]
          : written \in {<<>>, nodes}}
  /\ UNCHANGED <<nodes, cwd, files, perms>>

\* One record: the parent is looked up by its id in the tree that is being built.
LoadRecord(t, id) ==
  LET r == image.recs[id]
  IN IF id = 0 \/ id \notin DOMAIN image.recs THEN t
     ELSE Mkdir(t, Append(IF r.parent < 0 THEN <<>> ELSE NodePath(t, r.parent), r.name))

Loaded ==
  LET from[k \in 0 .. VFS_MAX_NODES] == IF k = 0 THEN Fresh ELSE LoadRecord(from[k - 1], k - 1)
  IN from[VFS_MAX_NODES]

\* vfs_persist_load finds fewer records than the header promises.
Short == Cardinality(DOMAIN image.recs) < image.node_count + image.file_count

\* Mutant: what a short image had is kept.
AfterLoadKeepingHalf(t) ==
  IF image \in {NoImage, BadHeader} THEN t ELSE Loaded

\* vfs_persist_load from tree t: a file that is missing or without a proper
\* header changes nothing, a short one ends in a fresh tree.
AfterLoad(t) ==
  CASE image \in {NoImage, BadHeader} -> t
    [] image \notin {NoImage, BadHeader} /\ Short -> Fresh
    [] OTHER -> Loaded

NoFiles == [i \in 1 .. MAX_FILES |-> NoFile]
NoPerms == [i \in 1 .. MAX_PERM_ENTRIES |-> NoEntry]

Load ==
  /\ image \notin {NoImage, BadHeader}
  /\ nodes' = AfterLoad(nodes)
  /\ files' = NoFiles
  /\ cwd' = 0
  /\ UNCHANGED <<perms, image>>

\* The machine starts again: perms_init and fs_init as kernel_main calls them,
\* then vfs_init and vfs_persist_auto_load, which the kernel does not call yet:
\* their place is the one that vfs_persist.h gives them.
Boot ==
  /\ nodes' = AfterLoad(Fresh)
  /\ cwd' = 0 /\ files' = NoFiles /\ perms' = NoPerms
  /\ UNCHANGED image

StorageInit ==
  /\ nodes = Fresh /\ cwd = 0 /\ files = NoFiles /\ perms = NoPerms /\ image = NoImage

StorageNext ==
  \/ \E input \in Inputs :
       LET path == AbsoluteOf(input)
       IN \/ path # <<>> /\ VfsMkdir(path)
          \/ VfsRmdir(path)
          \/ VfsChdir(path)
  \/ \E n \in FileNames, d \in Data, u \in Users : FsCreate(<<n>>, d, u) \/ VfsWrite(Absolute(<<n>>), d)
  \/ \E n \in FileNames, u \in Users : FsDelete(<<n>>, u) \/ VfsDelete(Absolute(<<n>>))
  \/ Save \/ Load \/ Boot

StorageSpec == StorageInit /\ [][StorageNext]_storageVars

------------------------------------------------------------------------------
(* Properties *)

\* Every node is found under its path, its parent is in use, and so is the
\* working directory: nothing is lost in the tree, no two siblings share a
\* name, and the tree has no cycle, whatever was made, removed and loaded
\* (ids are used again, and load looks parents up by ids of another tree).
EveryNodeHasItsPath ==
  /\ cwd \in DOMAIN nodes
  /\ \A i \in DOMAIN nodes : /\ Resolve(nodes, Upwards(nodes, i, VFS_MAX_NODES)) = i
                             /\ i # 0 => nodes[i].parent \in DOMAIN nodes

\* The entry that decides about a file is its owner's: permissions are kept by
\* name and outlive the file, so one that is deleted and created by somebody
\* else, or loaded, must not leave the old owner in charge.  Names that had to
\* be cut are excepted: nobody finds them under the name they were given.
PermissionsFollowOwner ==
  \A i \in DOMAIN files :
    LET f == files[i]
    IN f # NoFile /\ Len(f.name) < NAME_LEN /\ FindEntry(f.name) # NONE
         => perms[FindEntry(f.name)].owner = f.owner

\* Whether load can rebuild the tree that was saved:
\* ids without gaps, the default directories among them at their place, every
\* parent before its children, no path too deep for node_path.
InOrder(t) ==
  /\ \A i \in DOMAIN t : 0 .. i \subseteq DOMAIN t
  /\ \A i \in DOMAIN Fresh : i \in DOMAIN t /\ t[i] = Fresh[i]
  /\ \A i \in DOMAIN t : t[i].parent < i
  /\ \A i \in DOMAIN t : Len(Upwards(t, i, VFS_MAX_NODES)) <= VFS_MAX_DEPTH

PathsOf(t) == {Upwards(t, i, VFS_MAX_NODES) : i \in DOMAIN t}

DiskOf ==
  IF image \in {NoImage, BadHeader} THEN [is |-> "nothing", tree |-> {}]
  ELSE IF Short THEN [is |-> "cut", tree |-> {}]
  ELSE IF ~InOrder(image.recs) THEN [is |-> "untrusted", tree |-> {}]
  ELSE [is |-> "tree", tree |-> PathsOf(image.recs)]

Tree == INSTANCE Snapshot WITH Default <- PathsOf(Fresh), tree <- PathsOf(nodes), disk <- DiskOf

\* The tree behaves as one that can be saved and loaded: after a load or a
\* restart it is the tree that was saved last, or, when the image was cut, the
\* default one; never half of each.  What an image saves that was not built in
\* the order of its ids is not promised.
SnapshotSpec == Tree!Spec
=============================================================================
