------------------------------- MODULE Fat16 --------------------------------
(***************************************************************************)
(* The FAT16 file system, fs/fat16.c, over a disk that takes its writes    *)
(* one at a time and in order (ata_write_sector flushes the drive's cache  *)
(* before it returns).  An operation reads the disk, decides its writes,   *)
(* and they reach the disk in steps of their own; the machine may stop     *)
(* between any two.                                                        *)
(*                                                                         *)
(* A block is a cluster's worth of sectors, numbered as clusters are: the  *)
(* data blocks are 2, 3, ... and the root directory is the RootBlocks      *)
(* blocks in front of block 2, as on the volume.  A block holds CB units;  *)
(* a unit is a directory entry, or a piece of text of an entry's size.     *)
(***************************************************************************)
EXTENDS Integers, Sequences, SequencesExt, FiniteSets

CONSTANTS CB,          \* cluster_bytes, in units
          RootBlocks,  \* root_sectors, in blocks
          FatEntries,  \* the entries of the FAT
          Texts,       \* what the callers write, as sequences of letters
          Paths,       \* the paths the callers use, as sequences of names
          Handles,     \* the open files a caller holds
          Flags,       \* the flags the callers pass to fat_open
          MaxSize,     \* bounds the size of a file
          MaxOps,      \* bounds the operations that write
          ReadSizes,   \* the buffer sizes of fat_read_file
          Formatted,   \* the volume as the host hands it over
          NULL, DIR

ASSUME FatAssumption ==
  /\ CB \in Nat \ {0, 1} /\ RootBlocks \in Nat \ {0}
  /\ FatEntries \in Nat \ (0 .. 3)
  /\ \A p \in Paths : p # <<>>

FAT_CLUS_ROOT == 0
EOF == 65535
FAT_CLUS_NORMAL(c) == c \in 3 .. 65519
FAT_CLUS_EOF(c) == c \in 65528 .. 65535

Dirent(name, dir, c, size) == [name |-> name, dir |-> dir, start_cluster |-> c, file_size |-> size]
Zero == Dirent("", FALSE, 0, 0)
ZeroBlock == [i \in 1 .. CB |-> Zero]
\* Text, looked at as an entry, is neither free nor one that is asked for.
Text(x) == Dirent(x, FALSE, 1, 0)

ROOT == [ent |-> Dirent("/", TRUE, FAT_CLUS_ROOT, 0), block |-> 0]

-----------------------------------------------------------------------------
(* Reading.  d is a volume: its FAT and its blocks.                        *)

RECURSIVE Chain(_, _)
\* The clusters from c on, as fat_get_next_cluster gives them.
Chain(d, c) == IF FAT_CLUS_NORMAL(c) THEN <<c>> \o Chain(d, d.fat[c]) ELSE <<>>

\* The blocks of a directory, in the order the searches read them.
DirBlocks(d, c) ==
  IF c = FAT_CLUS_ROOT THEN [i \in 1 .. RootBlocks |-> 1 - RootBlocks + i] ELSE Chain(d, c)

\* The index of the entry of that name, 0 if there is none.
search_name_in_block(b, name) ==
  SelectInSeq(b, LAMBDA e : e.start_cluster # 0 /\ e.name = name)

\* _fat_search_root and _fat_search_file.
fat_search_file(d, name, c) ==
  LET bs  == DirBlocks(d, c)
      hit == SelectInSeq(bs, LAMBDA b : search_name_in_block(d.blk[b], name) # 0)
  IN  IF hit = 0 THEN NULL
      ELSE [ent |-> d.blk[bs[hit]][search_name_in_block(d.blk[bs[hit]], name)], block |-> bs[hit]]

fat16_find(d, path) ==
  FoldLeft(LAMBDA f, name : IF f = NULL THEN NULL ELSE fat_search_file(d, name, f.ent.start_cluster),
           ROOT, path)

\* fat_open without FAT16_CTL_CREATE.
fat_open_existing(d, path, flag) ==
  LET f      == fat16_find(d, path)
      append == "APPEND" \in flag
  IN  IF f = NULL THEN NULL
      ELSE [path            |-> path,
            dirent          |-> f.ent,
            dirent_block    |-> f.block,
            current_cluster |-> IF append THEN Last(Chain(d, f.ent.start_cluster)) ELSE f.ent.start_cluster,
            byte_offset     |-> IF append THEN f.ent.file_size ELSE 0,
            flag            |-> IF append THEN flag \cup {"WRITE"} ELSE flag]

\* The lowest free cluster from 3 on; 0 where the code panics.
fat_get_free_cluster(d) ==
  LET free == {c \in 3 .. FatEntries - 1 : d.fat[c] = 0}
  IN  IF free = {} THEN 0 ELSE CHOOSE c \in free : \A o \in free : c <= o

-----------------------------------------------------------------------------
(* Writing.  s is a volume as an operation on the path s.of sees it, with  *)
(* the writes it has made; a panic or an endless loop ends the operation.  *)

Write(s, area, at, val) ==
  IF s.mode # "run" THEN s
  ELSE [s EXCEPT ![area][at] = val, !.log = Append(@, [area |-> area, at |-> at, val |-> val, of |-> s.of])]

write_fat(s, c, v) == Write(s, "fat", c, v)
fat_write_cluster(s, c, b) == Write(s, "blk", c, b)

Stopped(s, why) == IF s.mode = "run" THEN [s EXCEPT !.mode = why] ELSE s

\* The panic when fat_get_free_cluster finds none; else what is done with the cluster.
WithFreeCluster(s, done) == IF fat_get_free_cluster(s) = 0 THEN Stopped(s, "panic") ELSE done

\* Mutant: the block is cleared before it is written.
fat_update_file_dirent_cleared(s, block, name, ent) ==
  LET i == search_name_in_block(s.blk[block], name)
  IN  IF i = 0 THEN Stopped(s, "panic")
      ELSE fat_write_cluster(fat_write_cluster(s, block, ZeroBlock), block, [s.blk[block] EXCEPT ![i] = ent])

\* The entry of that name is replaced, in the block the file was found in.
fat_update_file_dirent(s, block, name, ent) ==
  LET i == search_name_in_block(s.blk[block], name)
  IN  IF i = 0 THEN Stopped(s, "panic")
      ELSE fat_write_cluster(s, block, [s.blk[block] EXCEPT ![i] = ent])

\* The chain grows by a cluster: the link first, then the end mark.
Extend(s, c, new) == write_fat(write_fat(s, c, new), new, EOF)

RECURSIVE write_clusters(_, _, _, _)
\* The loop of fat_write_file: from byte_offset off of the file, in cluster c.
write_clusters(s, c, off, data) ==
  IF data = <<>> \/ s.mode # "run" THEN [s |-> s, cluster |-> c]
  ELSE LET at   == off % CB
           n    == IF CB - at < Len(data) THEN CB - at ELSE Len(data)
           s1   == fat_write_cluster(s, c, [i \in 1 .. CB |-> IF i \in at + 1 .. at + n THEN data[i - at]
                                                             ELSE s.blk[c][i]])
           full == at + n = CB
           s2   == IF full /\ FAT_CLUS_EOF(s1.fat[c])
                     THEN WithFreeCluster(s1, Extend(s1, c, fat_get_free_cluster(s1))) ELSE s1
       IN  write_clusters(s2, IF full THEN s2.fat[c] ELSE c, off + n, SubSeq(data, n + 1, Len(data)))

\* Mutant: the last cluster of the chain stays allocated.
fat_free_clusters_until_end_but(s, c) ==
  FoldLeft(LAMBDA t, x : IF FAT_CLUS_EOF(t.fat[x]) THEN t ELSE write_fat(t, x, 0), s, Chain(s, c))

fat_free_clusters_until_end(s, c) == FoldLeft(LAMBDA t, x : write_fat(t, x, 0), s, Chain(s, c))

RECURSIVE _fat_free_childs_under_dir(_, _)
\* The clusters below the entries of a directory, then its own, cluster by cluster.
_fat_free_childs_under_dir(s, c) ==
  LET FreeChild(t, e) ==
        IF ~FAT_CLUS_NORMAL(e.start_cluster) \/ e.name \in {".", ".."} THEN t
        ELSE IF e.dir THEN _fat_free_childs_under_dir(t, e.start_cluster)
        ELSE fat_free_clusters_until_end(t, e.start_cluster)
  IN  FoldLeft(LAMBDA t, x : write_fat(FoldLeft(FreeChild, t, t.blk[x]), x, 0), s, Chain(s, c))

\* create_file_dirent: the entry goes to slot i of block b, whose content is then
\* the rest; its first cluster is marked, and cleared or given . and .. .
PutDirent(s, b, rest, i, up, name, dir) ==
  LET new == fat_get_free_cluster(s)
      s1  == fat_write_cluster(s, b, [rest EXCEPT ![i] = Dirent(name, dir, new, 0)])
      s2  == write_fat(s1, new, EOF)
  IN  WithFreeCluster(s,
        fat_write_cluster(s2, new, IF dir THEN [ZeroBlock EXCEPT ![1] = Dirent(".", TRUE, new, 0),
                                                                 ![2] = Dirent("..", TRUE, up, 0)]
                                   ELSE ZeroBlock))

\* A directory's cluster is searched for a free entry unless it is the last one:
\* reading that moves current_cluster to the end mark, and the directory expands.
\* A root directory without a free entry is searched for ever.
_fat_create_file(s, parent, name, dir) ==
  LET isroot == parent = FAT_CLUS_ROOT
      bs     == DirBlocks(s, parent)
      free(b) == SelectInSeq(s.blk[b], LAMBDA e : e.start_cluster = 0 /\ e.name # "..")
      hit    == SelectInSeq(IF isroot THEN bs ELSE Front(bs), LAMBDA b : free(b) # 0)
  IN  IF hit # 0
        THEN PutDirent(s, bs[hit], s.blk[bs[hit]], free(bs[hit]),
                       IF isroot THEN FAT_CLUS_ROOT ELSE bs[hit], name, dir)
      ELSE IF isroot THEN Stopped(s, "hung")
      ELSE LET new == fat_get_free_cluster(s)
           IN  WithFreeCluster(s, PutDirent(Extend(s, Last(bs), new), new, ZeroBlock, 1, new, name, dir))

-----------------------------------------------------------------------------
(* What a caller can see of a volume.                                      *)

\* The text of a file, by its size and its chain.
Content(d, e) ==
  LET chain == Chain(d, e.start_cluster)
  IN  [i \in 1 .. e.file_size |->
         IF (i - 1) \div CB < Len(chain) THEN d.blk[chain[(i - 1) \div CB + 1]][((i - 1) % CB) + 1] ELSE Zero]

\* By path: NULL, DIR or a text.
View(d) ==
  [p \in Paths |-> LET f  == fat16_find(d, p)
                       up == fat16_find(d, Front(p))
                   IN  IF f = NULL \/ ~up.ent.dir THEN NULL
                       ELSE IF f.ent.dir THEN DIR ELSE Content(d, f.ent)]

-----------------------------------------------------------------------------
(* The state: the disk, the writes under way, and the files the caller has *)
(* open.                                                                   *)

VARIABLES disk, \* the FAT and the blocks
          todo, \* the writes of the operation under way that are not yet done
          files,\* what a caller will see once they are done: by path, NULL, DIR or a text
          mode, \* "run"; "panic", "hung" or "crashed" once the machine has stopped
          open, \* the Fat16File of each handle
          ops,  \* the operations that wrote so far
          ret   \* what the last operation returned, and the text it read

vars == <<disk, todo, files, mode, open, ops, ret>>

\* The volume as an operation on p finds it.
Volume(p) == [fat |-> disk.fat, blk |-> disk.blk, log |-> <<>>, mode |-> "run", of |-> p]

Idle == mode = "run" /\ todo = <<>>

Returns(code) == ret' = [code |-> code, text |-> <<>>]

\* An operation whose writes and outcome are those of s, and one that writes nothing.
Perform(s) ==
  /\ ops < MaxOps /\ ops' = ops + 1
  /\ todo' = s.log /\ mode' = s.mode
  /\ files' = IF s.mode = "run" THEN View(s) ELSE files
Quiet == UNCHANGED <<todo, mode, files, ops>>

\* The paths below p, and p itself.  A handle that its caller never uses again, as the
\* tests of kernel/main.c leave behind, counts as closed: fat_close frees memory only.
Below(p) == {q \in Paths : IsPrefix(p, q)}
Held(p) == \E h \in Handles : open[h] # NULL /\ open[h].path \in Below(p)
\* A path whose parent is missing or a directory.
Proper(p) == LET f == fat16_find(disk, Front(p)) IN f # NULL => f.ent.dir

\* fat_open.  No handle in use is on the file already.
fat_open(h, p, flag) ==
  /\ Idle /\ open[h] = NULL /\ ~Held(p) /\ Proper(p)
  /\ LET f      == fat_open_existing(Volume(p), p, flag \ {"CREATE"})
         parent == fat16_find(Volume(p), Front(p))
         s      == _fat_create_file(Volume(p), parent.ent.start_cluster, Last(p), "DIR" \in flag)
     IN  \/ /\ f # NULL
            /\ open' = [open EXCEPT ![h] = IF "CREATE" \in flag THEN [f EXCEPT !.flag = flag] ELSE f]
            /\ Returns(1) /\ Quiet
         \/ /\ f = NULL /\ ("CREATE" \notin flag \/ parent = NULL)
            /\ Returns(0) /\ Quiet /\ UNCHANGED open
         \/ /\ f = NULL /\ "CREATE" \in flag /\ parent # NULL
            /\ Perform(s)
            /\ open' = IF s.mode = "run"
                         THEN [open EXCEPT ![h] = [fat_open_existing(s, p, flag \ {"CREATE"})
                                                     EXCEPT !.flag = @ \cup {"CREATE"}]]
                         ELSE open
            /\ Returns(1)
  /\ UNCHANGED disk

fat_close(h) ==
  /\ Idle /\ open[h] # NULL
  /\ open' = [open EXCEPT ![h] = NULL]
  /\ Quiet /\ UNCHANGED <<disk, ret>>

\* Mutant: current_cluster stays where the read began.
CursorAfterRead_still(d, c, off, n) == c

\* The cluster fat_read_file stops at: one further for every boundary it meets.
CursorAfterRead(d, c, off, n) ==
  LET steps == (off + n) \div CB - off \div CB
      chain == Append(Chain(d, c), EOF)
  IN  chain[IF steps + 1 < Len(chain) THEN steps + 1 ELSE Len(chain)]

\* read_cnt, less what was copied from behind the end of the file.
ReadCount(cnt, left) == IF left < cnt THEN left ELSE cnt

\* fat_read_file, of a file; n is the size of the caller's buffer.
fat_read_file(h, n) ==
  /\ Idle /\ open[h] # NULL /\ ~open[h].dirent.dir
  /\ LET f     == open[h]
         chain == Chain(disk, f.current_cluster)
         at    == f.byte_offset % CB
         left  == f.dirent.file_size - f.byte_offset
         avail == Len(chain) * CB - at
         cnt   == IF avail < n THEN avail ELSE n
         got   == ReadCount(cnt, left)
     IN  \/ /\ left <= 0 \/ FAT_CLUS_EOF(f.current_cluster)
            /\ Returns(-1) /\ UNCHANGED open
         \/ /\ left > 0 /\ ~FAT_CLUS_EOF(f.current_cluster)
            /\ ret' = [code |-> got,
                       text |-> [i \in 1 .. got |->
                                   disk.blk[chain[(at + i - 1) \div CB + 1]][((at + i - 1) % CB) + 1]]]
            /\ open' = [open EXCEPT ![h].byte_offset = @ + got,
                                    ![h].current_cluster = CursorAfterRead(disk, @, f.byte_offset, cnt)]
  /\ Quiet /\ UNCHANGED disk

fat_write_file(h, data) ==
  /\ Idle /\ open[h] # NULL
  /\ open[h].byte_offset + Len(data) <= MaxSize
  /\ LET f == open[h]
         w == write_clusters(Volume(f.path), f.current_cluster, f.byte_offset, data)
         e == [f.dirent EXCEPT !.file_size = f.byte_offset + Len(data)]
         s == IF w.s.mode = "run" THEN fat_update_file_dirent(w.s, f.dirent_block, e.name, e) ELSE w.s
     IN  \/ /\ f.dirent.dir \/ "WRITE" \notin f.flag
            /\ Returns(-2) /\ Quiet /\ UNCHANGED open
         \/ /\ ~f.dirent.dir /\ "WRITE" \in f.flag /\ FAT_CLUS_EOF(f.current_cluster)
            /\ Returns(-1) /\ Quiet /\ UNCHANGED open
         \/ /\ ~f.dirent.dir /\ "WRITE" \in f.flag /\ ~FAT_CLUS_EOF(f.current_cluster)
            /\ Perform(s) /\ Returns(Len(data))
            /\ open' = IF s.mode # "run" THEN open
                       ELSE [open EXCEPT ![h].dirent = e, ![h].byte_offset = e.file_size,
                                         ![h].current_cluster = w.cluster]
  /\ UNCHANGED disk

\* fat_delete_file: the clusters first, then the entry.  No handle
\* in use is on what is deleted, or below it.
fat_delete_file(p) ==
  /\ Idle /\ ~Held(p) /\ Proper(p)
  /\ LET f == fat16_find(disk, p)
         s == IF f.ent.dir THEN _fat_free_childs_under_dir(Volume(p), f.ent.start_cluster)
              ELSE fat_free_clusters_until_end(Volume(p), f.ent.start_cluster)
     IN  \/ f = NULL /\ Returns(-1) /\ Quiet
         \/ /\ f # NULL /\ Returns(1)
            /\ Perform(fat_update_file_dirent(s, f.block, f.ent.name, Dirent("E5", f.ent.dir, 0, 0)))
  /\ UNCHANGED <<disk, open>>

\* The next write reaches the disk; a panic comes after the writes before it.
Apply(d, w) == [d EXCEPT ![w.area][w.at] = w.val]
ata_write_sector ==
  /\ mode \in {"run", "panic"} /\ todo # <<>>
  /\ disk' = Apply(disk, Head(todo)) /\ todo' = Tail(todo)
  /\ UNCHANGED <<files, mode, open, ops, ret>>

\* The machine is switched off with writes under way.
Crash ==
  /\ mode = "run" /\ todo # <<>>
  /\ mode' = "crashed"
  /\ UNCHANGED <<disk, todo, files, open, ops, ret>>

\* An empty volume, as the host formats it.
mkfs == [fat |-> [c \in 0 .. FatEntries - 1 |-> IF c < 2 THEN EOF ELSE 0],
         blk |-> [b \in 2 - RootBlocks .. FatEntries - 1 |-> ZeroBlock]]

Init ==
  /\ disk = Formatted
  /\ todo = <<>> /\ files = View(disk) /\ mode = "run" /\ ops = 0
  /\ open = [h \in Handles |-> NULL]
  /\ ret = [code |-> 0, text |-> <<>>]

Data == {[i \in 1 .. Len(t) |-> Text(t[i])] : t \in Texts}

Next ==
  \/ \E h \in Handles : \/ \E p \in Paths, flag \in Flags : fat_open(h, p, flag)
                        \/ \E n \in ReadSizes : fat_read_file(h, n)
                        \/ \E data \in Data : fat_write_file(h, data)
                        \/ fat_close(h)
  \/ \E p \in Paths : fat_delete_file(p)
  \/ ata_write_sector \/ Crash

Spec == Init /\ [][Next]_vars

-----------------------------------------------------------------------------

\* The FAT and the blocks keep their shape, and no handle stands behind the text
\* its file can hold.
TypeOK ==
  /\ disk.fat \in [0 .. FatEntries - 1 -> 0 .. EOF]
  /\ \A b \in DOMAIN disk.blk : Len(disk.blk[b]) = CB
  /\ mode \in {"run", "panic", "hung", "crashed"}
  /\ \A h \in Handles : open[h] # NULL => open[h].path \in Paths /\ open[h].byte_offset \in 0 .. MaxSize

Live(d, c) == {e \in UNION {Range(d.blk[b]) : b \in Range(DirBlocks(d, c))} :
                 e.start_cluster # 0 /\ e.name \notin {".", ".."}}

RECURSIVE Heads(_, _)
\* The first clusters that the entries below a directory name, one per entry.
Heads(d, c) ==
  LET below == Live(d, c)
  IN  {<<c, e.name, e.start_cluster>> : e \in below}
        \cup UNION {Heads(d, e.start_cluster) : e \in {x \in below : x.dir}}

\* Between operations the volume is sound: a cluster is in use exactly if one entry
\* or one link names it, and never two; so no files share a cluster, no chain runs
\* into a free cluster, and none is lost.
Sound ==
  /\ TypeOK
  /\ Idle =>
          LET used  == {c \in 3 .. FatEntries - 1 : disk.fat[c] # 0}
              heads == Heads(disk, FAT_CLUS_ROOT)
              links == {c \in used : ~FAT_CLUS_EOF(disk.fat[c])}
              named == {h[3] : h \in heads} \cup {disk.fat[c] : c \in links}
          IN  named = used /\ Cardinality(named) = Cardinality(heads) + Cardinality(links)

\* Wherever the writes of an operation stop, by a crash or a panic, every other file
\* and directory is on the disk as it was.
StopsKeepOthers ==
  \A p \in Paths : files[p] # NULL /\ (todo = <<>> \/ p \notin Below(Head(todo).of)) => View(disk)[p] = files[p]

\* fat16.c implements a store of files: to its callers an operation takes effect at
\* once and completely, whatever the clusters look like.
Store == INSTANCE FileStore WITH
  handles <- [h \in Handles |-> IF open[h] = NULL THEN NULL
                                ELSE [path |-> open[h].path, offset |-> open[h].byte_offset,
                                      append |-> "APPEND" \in open[h].flag]],
  stopped <- mode # "run"
ImplementsStore == Store!Spec

=============================================================================
