---------------------------- MODULE AddressSpace ----------------------------
(***************************************************************************)
(* Paging and the loading of tasks: kernel/mem.c, and load_task,           *)
(* alloc_kstack_and_task and create_task_address_space of kernel/task.c.   *)
(*                                                                         *)
(* A page directory, a page table, the table of reverse mappings and the   *)
(* system table are all frames of W entries (1024 in the code).  Of a      *)
(* directory the last entry is the reverse table, the last but one the     *)
(* system table, the one before holds the kernel stack, and the kernel     *)
(* starts at KDIR (768).  Entries of the system table of address space 0   *)
(* are the temporary mappings (create_temp_va) through which the kernel    *)
(* reaches a frame: a pointer to a mapped frame is a slot of that table.   *)
(* A page is numbered by its directory index * W + its table index.        *)
(*                                                                         *)
(* All but the end of a task runs at boot with interrupts off: init_task0  *)
(* gives task 0 its kernel stack and loads programs.  One round of a loop  *)
(* is a step.                                                              *)
(***************************************************************************)
EXTENDS Integers, Sequences, FiniteSets

CONSTANTS W,         \* entries of a table
          KDIR,      \* PAGE_DIR_INDEX(KERNEL_V_START)
          NFRAMES,   \* frames of the memory
          LOADS,     \* programs loaded
          Headers    \* program headers: first pages, sizes in half pages

\* The page of the last byte's successor, which request_region_vmap maps as well.
LastPage(first, size) == (2 * first + size) \div 2

\* The system table has room for the mappings there are; programs are linked below the
\* kernel (usr/init/init.ld).
ASSUME AddressSpaceAssumption ==
  /\ W \in Nat /\ KDIR \in 1 .. W - 4 /\ NFRAMES \in Nat /\ NFRAMES >= 5 /\ LOADS \in Nat
  /\ 2 * LOADS + 6 <= W
  /\ Headers \subseteq [vma_text : Nat, text_size : Nat, vma_data : Nat, data_size : Nat]
  /\ \A h \in Headers : /\ LastPage(h.vma_text, h.text_size) < KDIR * W
                         /\ LastPage(h.vma_data, h.data_size) < KDIR * W

REV == W - 1
SYS == W - 2
KST == W - 3

PAGE_DIR_INDEX(p) == p \div W
PAGE_TABLE_INDEX(p) == p % W
KERNEL_V_START == KDIR * W
USTACK_FRAME == KERNEL_V_START - 1
KSTACK_FRAME == KST * W + W - 1

\* Frames the boot code hands out by itself, and the first one of alloc_frame.
PG_DIR0 == 1
REV0 == 2
SYS0 == 3
KERNEL_PT == 4
LOW_PT == 5
USER_P_START == 6

NULL == -1
Slots == 0 .. W - 1
Entry == [f : 0 .. NFRAMES, flg : {"none", "krn", "usr"}]
Unset == [f |-> 0, flg |-> "none"]
To(f, flg) == [f |-> f, flg |-> flg]
PAGE_ENTRY_SET(e) == e.flg # "none"
Zeroed == [i \in Slots |-> Unset]

VARIABLES mem,    \* the entries of each frame
          busy,   \* frames alloc_frame has handed out
          image,  \* what memcpy put into each frame: <<task, page>>
          pc,     \* what runs
          r,      \* the locals of request_region_vmap
          l,      \* the locals of load_task and its callees
          tasks   \* task_arr: page directory, header and state of each task

vars == <<mem, busy, image, pc, r, l, tasks>>

-----------------------------------------------------------------------------
(* Frames and temporary mappings, over a memory m. *)

Lowest(S) == CHOOSE x \in S : \A y \in S : x <= y

\* alloc_frame(USER_P_START, MAX_MEM_SIZE), as the module Frames has it: the lowest
\* of the idle frames.
Idle(b) == USER_P_START .. NFRAMES \ b
alloc_frame(b) == Lowest(Idle(b))

\* The slots of the system table that map frame f, and create_temp_va: the first
\* slot not set.
Mapping(m, f) == {i \in Slots : PAGE_ENTRY_SET(m[SYS0][i]) /\ m[SYS0][i].f = f}
FreeSlot(m) == Lowest({i \in Slots : ~PAGE_ENTRY_SET(m[SYS0][i])})
create_temp_va(m, f) == [m EXCEPT ![SYS0][FreeSlot(m)] = To(f, "krn")]

\* get_temp_va: the mapping there is, or else a new one.
TempSlot(m, f) == IF Mapping(m, f) = {} THEN FreeSlot(m) ELSE Lowest(Mapping(m, f))
get_temp_va(m, f) == IF Mapping(m, f) = {} THEN create_temp_va(m, f) ELSE m

\* A mutant of delete_temp_va: nothing is unmapped.
delete_temp_va_kept(m, i) == m

delete_temp_va(m, i) == [m EXCEPT ![SYS0][i] = Unset]

\* The frame a pointer leads to.
Deref(m, i) == m[SYS0][i].f

\* get_phy_from_dir: the frame a page is mapped to.
TableOf(m, dir, p) == m[dir][PAGE_DIR_INDEX(p)].f
get_phy_from_dir(m, dir, p) == m[TableOf(m, dir, p)][PAGE_TABLE_INDEX(p)].f

\* A mutant of After_get_phy: the mapping of the directory goes instead.
After_get_phy_dir(m, dir, p) ==
  LET t == TableOf(m, dir, p) IN delete_temp_va(get_temp_va(m, t), TempSlot(m, dir))

\* The memory after get_phy_from_dir: the mapping of the page table is gone,
\* whoever made it.
After_get_phy(m, dir, p) ==
  LET t == TableOf(m, dir, p) IN delete_temp_va(get_temp_va(m, t), TempSlot(m, t))

-----------------------------------------------------------------------------
(* request_region_vmap *)

\* The call: rev_tb is looked up, or mapped for the time of the call.
Region(m, dir, first, last, flag, ret) ==
  LET rev == m[Deref(m, dir)][REV].f
  IN  /\ mem' = get_temp_va(m, rev)
      /\ r' = [dir |-> dir, va |-> first, va_end |-> last, flag |-> flag, ret |-> ret,
               rev_tb |-> TempSlot(m, rev), new_rev |-> Mapping(m, rev) = {},
               pt_now |-> NULL, new_pt |-> NULL]
      /\ pc' = "region"

\* A mutant of create_page_table: the reverse table is forgotten.
create_page_table_norev(m, pt) ==
  LET di == PAGE_DIR_INDEX(r.va)
      flg == IF r.va < KERNEL_V_START THEN "usr" ELSE "krn"
  IN  [create_temp_va(m, pt) EXCEPT ![pt] = Zeroed, ![Deref(m, r.dir)][di] = To(pt, flg)]

\* create_page_table for a page whose directory entry is not set.
create_page_table(m, pt) ==
  LET di == PAGE_DIR_INDEX(r.va)
      flg == IF r.va < KERNEL_V_START THEN "usr" ELSE "krn"
  IN  [create_temp_va(m, pt) EXCEPT
         ![pt] = Zeroed,
         ![Deref(m, r.dir)][di] = To(pt, flg),
         ![Deref(m, r.rev_tb)][di] = To(pt, "krn")]

\* The directory has no table for the page yet.
NoTable == ~PAGE_ENTRY_SET(mem[Deref(mem, r.dir)][PAGE_DIR_INDEX(r.va)])

\* A mutant of TableStep: the frame of a new table stays idle.
TableStep_unmarked ==
  LET pt  == alloc_frame(busy)
      old == mem[Deref(mem, r.dir)][PAGE_DIR_INDEX(r.va)].f
      m   == create_page_table(mem, pt)
  IN  IF NoTable
        THEN [m |-> IF r.pt_now = NULL THEN m ELSE delete_temp_va(m, r.pt_now),
              busy |-> busy, pt_now |-> FreeSlot(mem), new_pt |-> FreeSlot(mem)]
      ELSE IF r.pt_now = NULL
        THEN [m |-> get_temp_va(mem, old), busy |-> busy,
              pt_now |-> TempSlot(mem, old), new_pt |-> NULL]
        ELSE [m |-> mem, busy |-> busy, pt_now |-> r.pt_now, new_pt |-> NULL]

\* The table for the page: created, or kept from the page before, or, for the first
\* page, mapped from the directory.
TableStep ==
  LET pt  == alloc_frame(busy)
      old == mem[Deref(mem, r.dir)][PAGE_DIR_INDEX(r.va)].f
      m   == create_page_table(mem, pt)
  IN  IF NoTable
        THEN [m |-> IF r.pt_now = NULL THEN m ELSE delete_temp_va(m, r.pt_now),
              busy |-> busy \cup {pt}, pt_now |-> FreeSlot(mem), new_pt |-> FreeSlot(mem)]
      ELSE IF r.pt_now = NULL
        THEN [m |-> get_temp_va(mem, old), busy |-> busy,
              pt_now |-> TempSlot(mem, old), new_pt |-> NULL]
        ELSE [m |-> mem, busy |-> busy, pt_now |-> r.pt_now, new_pt |-> NULL]

\* A mutant of PageSet: a page is always entered anew.
PageSet_never(t) == FALSE

\* The frames a page still needs: one for a table, one for itself.
PageSet(t) == PAGE_ENTRY_SET(t.m[Deref(t.m, t.pt_now)][PAGE_TABLE_INDEX(r.va)])
Enough ==
  LET n == Cardinality(Idle(busy))
  IN  n >= 2 \/ (~NoTable /\ (n = 1 \/ PageSet(TableStep)))

\* One page of the region; a page that is there already is left alone.
MapPage ==
  /\ pc = "region" /\ r.va <= r.va_end /\ Enough
  /\ LET t    == TableStep
         page == alloc_frame(t.busy)
     IN  /\ IF PageSet(t)
              THEN mem' = t.m /\ busy' = t.busy /\ UNCHANGED image
              ELSE /\ mem' = [t.m EXCEPT ![page] = Zeroed,
                       ![Deref(t.m, t.pt_now)][PAGE_TABLE_INDEX(r.va)] = To(page, r.flag)]
                   /\ busy' = t.busy \cup {page}
                   /\ image' = [image EXCEPT ![page] = <<>>]
         /\ r' = [r EXCEPT !.va = @ + 1, !.pt_now = t.pt_now, !.new_pt = t.new_pt]
  /\ UNCHANGED <<pc, l, tasks>>

\* The end: only a table created for the last page is unmapped.
RegionEnd ==
  /\ pc = "region" /\ r.va > r.va_end
  /\ LET m1 == IF r.new_pt # NULL THEN delete_temp_va(mem, r.new_pt) ELSE mem
     IN  mem' = IF r.new_rev THEN delete_temp_va(m1, r.rev_tb) ELSE m1
  /\ pc' = r.ret
  /\ UNCHANGED <<busy, image, r, l, tasks>>

\* "no empty frame ..." stops the machine.
OutOfFrames ==
  /\ \/ pc = "region" /\ r.va <= r.va_end /\ ~Enough
     \/ pc = "idle" /\ Len(tasks) <= LOADS /\ Cardinality(Idle(busy)) < 3
  /\ pc' = "halted"
  /\ UNCHANGED <<mem, busy, image, r, l, tasks>>

-----------------------------------------------------------------------------
(* Loading tasks *)

\* Task 0 has no program.
NoProgram == [vma_text |-> 0, text_size |-> 0, vma_data |-> 0, data_size |-> 0]

\* alloc_kstack_and_task maps the directory once more and asks for the stack.
CallKstack(m, dir) ==
  LET m1 == create_temp_va(m, dir)
  IN  Region(m1, FreeSlot(m), KSTACK_FRAME, KSTACK_FRAME + 1, "krn", "kstack")

\* The locals of the task being loaded are those of task 0 at boot.
Booting == tasks = <<>>

\* The state init_pg_dir0_vmap leaves; init_task0 calls alloc_kstack_and_task.
Boot ==
  LET own == [Zeroed EXCEPT ![0] = To(LOW_PT, "krn"), ![KDIR] = To(KERNEL_PT, "krn"),
                            ![SYS] = To(SYS0, "krn"), ![REV] = To(REV0, "krn")]
  IN  [f \in 1 .. NFRAMES |-> IF f \in {PG_DIR0, REV0} THEN own
                             ELSE IF f = SYS0 THEN [Zeroed EXCEPT ![W - 1] = To(PG_DIR0, "krn")]
                             ELSE Zeroed]

Init ==
  /\ mem = Boot
  /\ busy = {}
  /\ image = [f \in 1 .. NFRAMES |-> <<>>]
  /\ pc = "boot"
  /\ r = [pt_now |-> NULL]
  /\ l = [phy_dir |-> PG_DIR0]
  /\ tasks = <<>>

init_task0 ==
  /\ pc = "boot"
  /\ CallKstack(mem, PG_DIR0)
  /\ UNCHANGED <<busy, image, l, tasks>>

\* The directory entries of the kernel, the two of its own tables excepted.
Linked == [i \in Slots |-> IF i \in KDIR .. KST THEN mem[PG_DIR0][i] ELSE Unset]

\* load_task up to alloc_kstack_and_task: frames for the directory, the reverse and
\* the system table, and the kernel's directory entries linked.
load_task(h) ==
  /\ pc = "idle" /\ Len(tasks) <= LOADS
  /\ LET dir == alloc_frame(busy)
         rev == alloc_frame(busy \cup {dir})
         sys == alloc_frame(busy \cup {dir, rev})
         m1  == create_temp_va(mem, dir)
         m2  == create_temp_va(m1, rev)
         m3  == create_temp_va(m2, sys)
         m4  == [m3 EXCEPT
                   ![dir] = [Linked EXCEPT ![REV] = To(rev, "krn"), ![SYS] = To(sys, "krn")],
                   ![rev] = [Zeroed EXCEPT ![REV] = To(rev, "krn"), ![SYS] = To(sys, "krn")],
                   ![sys] = [Zeroed EXCEPT ![W - 1] = To(dir, "krn")]]
     IN  /\ Cardinality(Idle(busy)) >= 3
         /\ busy' = busy \cup {dir, rev, sys}
         /\ l' = [phy_dir |-> dir, hdr |-> h, new_pg_dir |-> FreeSlot(mem),
                  rev_tb |-> FreeSlot(m1), sys_pg |-> FreeSlot(m2), kstack |-> NULL, k |-> 0]
         /\ CallKstack(m4, dir)
  /\ UNCHANGED <<image, tasks>>

\* alloc_kstack_and_task after the region: the stack gets a mapping, which
\* init_task0 keeps; the second mapping of the directory goes.  load_task goes on
\* with create_task_address_space: text first.
alloc_kstack_and_task ==
  /\ pc = "kstack"
  /\ LET dir   == Deref(mem, r.dir)
         stack == get_phy_from_dir(mem, dir, KSTACK_FRAME)
         m1    == After_get_phy(mem, dir, KSTACK_FRAME)
         m2    == delete_temp_va(create_temp_va(m1, stack), r.dir)
         h     == l.hdr
     IN  IF Booting
           THEN /\ mem' = m2
                /\ tasks' = <<[phy_dir |-> dir, hdr |-> NoProgram, present |-> TRUE]>>
                /\ pc' = "idle"
                /\ UNCHANGED <<r, l>>
           ELSE /\ l' = [l EXCEPT !.kstack = FreeSlot(m1)]
                /\ Region(get_temp_va(m2, dir), TempSlot(m2, dir), h.vma_text,
                          LastPage(h.vma_text, h.text_size), "usr", "text")
                /\ UNCHANGED tasks
  /\ UNCHANGED <<busy, image>>

\* A mutant of Copy: every round writes the first page.
Copy_same(vma, size) ==
  LET page == get_phy_from_dir(mem, Deref(mem, r.dir), vma)
  IN  /\ 2 * l.k < size
      /\ mem' = After_get_phy(mem, Deref(mem, r.dir), vma)
      /\ image' = [image EXCEPT ![page] = <<Len(tasks), vma + l.k>>]
      /\ l' = [l EXCEPT !.k = @ + 1]
      /\ UNCHANGED <<busy, pc, r, tasks>>

\* A round of the loops that copy the text and the data: page k of n.
Copy(vma, size) ==
  LET page == get_phy_from_dir(mem, Deref(mem, r.dir), vma + l.k)
  IN  /\ 2 * l.k < size
      /\ mem' = After_get_phy(mem, Deref(mem, r.dir), vma + l.k)
      /\ image' = [image EXCEPT ![page] = <<Len(tasks), vma + l.k>>]
      /\ l' = [l EXCEPT !.k = @ + 1]
      /\ UNCHANGED <<busy, pc, r, tasks>>

CopyText == pc = "text" /\ Copy(l.hdr.vma_text, l.hdr.text_size)
CopyData == pc = "data" /\ Copy(l.hdr.vma_data, l.hdr.data_size)

\* create_task_address_space, from one section to the next.
ThenData ==
  /\ pc = "text" /\ 2 * l.k >= l.hdr.text_size
  /\ l' = [l EXCEPT !.k = 0]
  /\ Region(mem, r.dir, l.hdr.vma_data, LastPage(l.hdr.vma_data, l.hdr.data_size), "usr", "data")
  /\ UNCHANGED <<busy, image, tasks>>

ThenStack ==
  /\ pc = "data" /\ 2 * l.k >= l.hdr.data_size
  /\ Region(mem, r.dir, USTACK_FRAME, USTACK_FRAME + 1, "usr", "ustack")
  /\ UNCHANGED <<busy, image, l, tasks>>

\* The mappings are deleted, that of the directory by both functions.
Loaded ==
  /\ pc = "ustack"
  /\ mem' = [mem EXCEPT ![SYS0] = [i \in Slots |->
       IF i \in {r.dir, l.new_pg_dir, l.rev_tb, l.sys_pg, l.kstack} THEN Unset ELSE @[i]]]
  /\ tasks' = Append(tasks, [phy_dir |-> l.phy_dir, hdr |-> l.hdr, present |-> TRUE])
  /\ pc' = "idle"
  /\ UNCHANGED <<busy, image, r, l>>

-----------------------------------------------------------------------------

\* The programs are loaded and run, or the machine has stopped.
Running == pc = "idle" /\ Len(tasks) > LOADS
Over == (pc = "halted" \/ Running) /\ UNCHANGED vars

\* A program ends: its slot of task_arr is free again.
terminate_process(i) ==
  /\ Running /\ tasks[i].present
  /\ tasks' = [tasks EXCEPT ![i].present = FALSE]
  /\ UNCHANGED <<mem, busy, image, pc, r, l>>

Next == \/ init_task0 \/ (\E h \in Headers : load_task(h))
        \/ MapPage \/ RegionEnd \/ OutOfFrames
        \/ alloc_kstack_and_task \/ CopyText \/ CopyData \/ ThenData \/ ThenStack \/ Loaded
        \/ (\E i \in 2 .. Len(tasks) : terminate_process(i)) \/ Over

Spec == Init /\ [][Next]_vars

-----------------------------------------------------------------------------
(* Properties *)

\* Every variable has its type.
TypeOK ==
  /\ mem \in [1 .. NFRAMES -> [Slots -> Entry]]
  /\ busy \subseteq USER_P_START .. NFRAMES
  /\ \A f \in 1 .. NFRAMES : image[f] = <<>> \/ image[f] \in Nat \X Nat
  /\ pc \in {"boot", "idle", "region", "kstack", "text", "data", "ustack", "halted"}
  /\ Len(tasks) <= LOADS + 1

\* The address spaces there are, also the one load_task is filling.
Dirs == {PG_DIR0, l.phy_dir} \cup {tasks[i].phy_dir : i \in 1 .. Len(tasks)}

\* What an address space uses frames for: <<use, directory, index, index, frame>>.
Uses(d) ==
  {<<"dir", d, 0, 0, d>>}
  \cup {<<"table", d, i, 0, mem[d][i].f>> :
          i \in {i \in Slots : PAGE_ENTRY_SET(mem[d][i]) /\ (i < KDIR \/ i > KST \/ d = PG_DIR0)}}
  \cup UNION {{<<"page", d, i, j, mem[mem[d][i].f][j].f>> :
                 j \in {j \in Slots : PAGE_ENTRY_SET(mem[mem[d][i].f][j])}} :
               i \in {i \in Slots : PAGE_ENTRY_SET(mem[d][i]) /\ (i < KDIR \/ (i = KST /\ d = PG_DIR0))}}

\* Whatever is loaded, no frame serves two purposes: not two pages, of one task or
\* of two, nor a page and a table.  alloc_page, create_page_table and
\* request_region_vmap share one bitmap and never hand a frame out twice.
FramesExclusive ==
  LET all == UNION {Uses(d) : d \in Dirs}
  IN  /\ \A u, v \in all : u[5] = v[5] => u = v
      /\ \A u \in all : u[5] \in busy \/ u[5] < USER_P_START

\* What a task finds at a page of its address space.
Walk(d, p) ==
  IF PAGE_ENTRY_SET(mem[d][PAGE_DIR_INDEX(p)])
    THEN mem[TableOf(mem, d, p)][PAGE_TABLE_INDEX(p)] ELSE Unset
Pages(first, size) == {first + k : k \in {k \in 0 .. size : 2 * k < size}}

\* A loaded program is and stays in place: every page of its text and data is
\* mapped for the user and holds what create_task_address_space copied there, and
\* it has a stack.
ImageInPlace ==
  \A i \in 2 .. Len(tasks) :
    LET d == tasks[i].phy_dir
        h == tasks[i].hdr
    IN  /\ \A p \in Pages(h.vma_text, h.text_size) \cup Pages(h.vma_data, h.data_size) :
             Walk(d, p).flg = "usr" /\ image[Walk(d, p).f] = <<i - 1, p>>
        /\ Walk(d, USTACK_FRAME).flg = "usr"

\* The tables of every address space are sound, also while load_task fills it: each
\* has the kernel's directory entries, task 0's kernel stack among them, so that the
\* kernel may switch address spaces as it runs; and its reverse table has the tables
\* of its own directory entries, so that PAGE_TABLE_PTR(n) is page table n.
TablesSound ==
  /\ TypeOK
  /\ \A d \in Dirs : /\ \A i \in KDIR .. KST : mem[d][i] = mem[PG_DIR0][i]
                     /\ \A i \in (0 .. KDIR - 1) \cup {SYS, REV} :
                          mem[mem[d][REV].f][i].f = mem[d][i].f

\* A mapping is not deleted while its pointer is in use, although get_temp_va
\* shares mappings and get_phy_from_dir deletes the one it finds.
MappingsLive ==
  /\ pc \in {"region", "kstack", "text", "data", "ustack"} => Deref(mem, r.dir) = l.phy_dir
  /\ pc = "region" => Deref(mem, r.rev_tb) = mem[l.phy_dir][REV].f
  /\ pc = "region" /\ r.pt_now # NULL =>
       \E i \in Slots : PAGE_ENTRY_SET(mem[l.phy_dir][i]) /\ mem[l.phy_dir][i].f = Deref(mem, r.pt_now)

\* request_region_vmap leaves mappings of page tables behind, yet no more than two
\* a program: the slots of the system table are not used up.
TempsBounded ==
  pc = "idle" => Cardinality({i \in Slots : PAGE_ENTRY_SET(mem[SYS0][i])}) <= 2 * Len(tasks)

\* The frames that the address spaces of the tasks in the table use.
Present == {i \in 1 .. Len(tasks) : tasks[i].present}
InUse == {u[5] : u \in UNION {Uses(tasks[i].phy_dir) : i \in Present}}

\* Loading loses no frame: although request_region_vmap maps pages twice, takes the
\* wrong table and maps a page too many, every frame it took can be reached from
\* the directory of some task.
LoadsLoseNothing == pc = "idle" /\ Present = 1 .. Len(tasks) => busy \subseteq InUse

\* "otherwise previous va is in the same page dir range, just use pt_now"
\* (kernel/mem.c:345): a page is entered into the table its directory entry names.
EnteredInOwnTable ==
  pc = "region" /\ r.pt_now # NULL =>
    Deref(mem, r.pt_now) = mem[l.phy_dir][PAGE_DIR_INDEX(r.va - 1)].f

=============================================================================
