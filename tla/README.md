# Ts_OS in TLA+

A model of Ts_OS, a small x86 kernel without locks: one CPU, trap gates, a
round-robin scheduler driven by the timer, paging with temporary mappings, a
heap, a console, a FAT16 file system over a polled ATA drive. The modules follow
the C and assembly sources; `PROJECT.json` lists, for every definition, the lines
it models. Paths below are relative to `src/`.

## The system and its parts

| part | source | module | state |
|---|---|---|---|
| bootloader | `boot/mbr.asm`, `boot/disk.asm` | `BootLoad`, `BootLoadProofs` | loading modelled, proved; mode switch not |
| kernel heap | `kernel/malloc.c` | `Allocator`, `Heap`, `HeapLinks`, `HeapLevels`, `HeapProofs` | modelled, proved |
| frame allocator | `kernel/frame.c`, `first_clr_bit` of `kernel/common.c` | `Frames`, `FramesProofs` | modelled, proved |
| paging, temporary mappings | `kernel/mem.c` | `AddressSpace`, `AddressSpaceInvariant`, `AddressSpaceProofs` | modelled, proved |
| task loading, end of a task | `kernel/task.c` | as above (the frame it prepares in `Sched`) | modelled, proved but for `ImageInPlace` |
| scheduler, context switch | `kernel/task.c`, `asm/process.asm`, `drivers/timer.c` | `Sched`, `SchedProofs` | modelled, proved |
| interrupt entry and dispatch | `kernel/isr.c`, `boot/kernel_entry.asm` | `Sched`, `SchedProofs` | partly |
| system calls | `kernel/sys.c` | `Sched` | partly |
| console | `kernel/console.c`, `kernel/vga.c` | `ConsoleOps`, `Console`, `ConsoleRace` | modelled |
| keyboard driver | `drivers/keyboard.c` | `Keyboard`, `KeyboardProofs` | modelled, proved |
| shell | `kernel/shell.c` | `ConsoleOps` | keys; commands not |
| FAT16 | `fs/fat16.c` | `FileStore`, `Fat16` | all operations on files; path strings and super block not |
| ATA driver | `drivers/ata.c` | `Ata`, `AtaProofs` | modelled, proved |
| serial port, strings, formatted output | `drivers/com.c`, `lib/` | | not modelled |
| main, user programs | `kernel/main.c`, `usr/` | | not modelled: initialisation order, test drivers, payload |

How they interact: the boot sector loads the kernel through the BIOS. `main`
initialises the heap, the console, the IDT and the devices with interrupts off
and then calls `init_task0`. That function gives task 0 a kernel stack, loads a
program into an address space of its own (frames, page tables, temporary
mappings) and switches to it; when the timer first switches back, task 0 enables
interrupts and loops, printing. From then on the timer interrupt calls the
scheduler from inside its handler, and the keyboard interrupt calls the shell,
which works on the same console as whatever prints. The file system is used by
`main` only, with interrupts off, and reaches the disk through the ATA driver.

## Modules

**Heap.** `Allocator` is what a heap promises: disjoint blocks inside a range.
`Heap` is `malloc.c` with the free list as a sequence; an action is a call of
`kmalloc` or `kfree`. `HeapLinks` is the same code with its pointers: one link
field per header, the loops as recursive operators. `HeapLevels` runs `HeapLinks`
with the variables of `Heap` following it by a refinement mapping, so that the
invariants of `Heap` are checked of the pointer code, and `Heap`'s own
specification is a property of it. Calls are atomic: the heap is only used before
interrupts are enabled.

**Frames** has the bitmap as the set of frames whose bit is set. The search goes
over the bytes at `min`, `min + 8`, ... as the loop does; `BITS` stands for the 8.
`AllocsLowestIdle` holds each call to the range it was given.

**AddressSpace** has a memory of frames with `W` entries each. Page directories,
page tables, the reverse table and the system table are all such frames, and a
pointer of the code is a slot of the system table of address space 0, so a
mapping that is deleted too early, or kept too long, shows. Each round of the
loops of `request_region_vmap` and `create_task_address_space` is a step. Once
the programs are loaded they may end. Sizes count half pages, so that sections
end inside and at the end of a page.

**Sched** has the task table, the interrupt flag, the PIC, TSS.ESP0 and, for each
task, the interrupt frames on its kernel stack with the kind of page they lie in. Task
0 spawns one to `SPAWNS` programs; `init_task0` spawns one. A gate pushes a frame and
leaves interrupts on; `cli` is a step of its own; from there to `iret` the flag is off
and the body of the handler, with its EOI and a possible switch, is one step.
`__context_switch` saves and restores the flag as `pushf` and `popf` do. `Request`, `Deliver` and `Trap` are the environment: the
devices, the PIC and the user program. `kb` stands for any device of lower
priority than the timer.

**Console.** `ConsoleOps` has the functions of `console.c` as operators on a record
of its globals, the screen included. `Console` calls them one at a time: a byte
is printed, a key is handled, the console is cleared. It keeps a log of all bytes
printed and the line the user means to have typed; the properties compare ring,
window and screen with these. `ConsoleRace` takes task 0's `write_console_one`
apart into statements, between which keyboard interrupts run.

**Keyboard** has the bytes collected of a scan code sequence. The keyboard sends
events (one byte, 0xE0 and a byte, PrintScreen, its release, Pause) and bytes may
be lost. The key code of an event is what `Console` takes as its input.

**Fat16.** An operation reads the disk, decides its writes, and they reach the disk
one after the other (`ata_write_sector` flushes the drive's cache); between any
two the machine may stop, by its own panic or for want of power. A cluster holds
a few units, each a directory entry or a piece of text. `FileStore` is what the
callers see: a tree of files that grow by appends, offsets, no clusters. A path is the
sequence of its names. A handle counts as closed once its caller is done with it: the
tests of `kernel/main.c` leave handles open and open the file again (lines 249 and 257),
but never use an old one after that, and `fat_close` only frees memory.

**Ata** has a routine of the driver as four sequences of port accesses: up to the
loop over the sectors, between two sectors, for each word, and behind the loop. A
step is one access; `pos` says which, of which sector and word. The drive
is the environment: it becomes ready in its own time, may fail, keeps written
sectors in a cache, and its status may lag behind for one access. `Told` is the number
of sectors the drive has been told of: SECCOUNT takes the low byte of `sec_num`, and a
drive reads 0 as 256 (`COUNT`), so that a write of 0 sectors leaves it waiting for data,
and past 256 the driver moves words the drive neither gives nor takes. A call has any
`sec_num` and any `buf_size` on the disk; a read cuts the first to the second, a write
does not look at it.

**BootLoad** has the registers of the loader with their 16 bits; a step is a BIOS
call or the code between two.

Definitions whose name has a suffix and whose comment says "mutant" are faulty
variants of a definition after them; no specification uses them.

## Runs

| run | bounds | shows |
|---|---|---|
| `heap` | 18 bytes, headers of 2, requests of 0, 1 and 3 | the invariants of the heap hold of the pointer code, `kmalloc` fails only when nothing fits, freeing everything restores the initial heap; refinement of `Heap` and of `Allocator` |
| `frames` | 11 frames, bytes of 3 bits, four overlapping ranges | each call of `alloc_frame` takes the lowest idle frame of its range |
| `address_space` | tables of 14 entries, 38 frames, up to 3 programs of 5 layouts | frames are exclusive and none is lost while loading, programs stay in place, kernel entries and reverse tables agree, mappings are live and bounded |
| `sched` | 4 slots, 2 ticks a turn, 1 to 3 user tasks, one of which may fault | the task table, nesting, EOI, suspension, bounded waiting; every task runs again and again |
| `console` | rows of 2, window of 3 rows, 2 rows of input, 8 bytes of history, 10 printed | ring, window, screen and input line are what was printed and typed; new output is shown |
| `keyboard` | four one-byte keys, two extended ones, bytes lost at any time | key codes are exact; five one-byte events after a loss the machine is in step |
| `fat16` | clusters of 2 units, 6 data clusters, 2 entries in the root, directories two deep, 5 writing operations | no cluster shared or lost, other files survive a stop anywhere; refinement of `FileStore` |
| `ata` | 3 sectors of 2 words, SECCOUNT up to 2, 3 calls of 0 to 3 sectors, buffers of 0 to 3 | driver and drive stay in step, reads and writes are exact and durable, errors panic, calls end |
| `boot` | both floppies, all tracks | reads never cross 64 KB, are in order, complete and below the system's memory; the boot ends |
| `sched_entry` | 2 slots, the one user task of today's boot | the first finding |
| `address_space_table` | one program, 55 frames | the second |
| `console_race` | as `console` | the third |

Why the bounds are enough. Heap: 18 bytes hold up to nine regions, so a block
has free or used neighbours on both sides and the list has several regions of the
same and of different sizes. Frames: the ranges start and end at and inside bytes.
Address spaces: the layouts include no data, an exactly full page, and text that
crosses into a second page table; 38 frames let some combinations fit and others
run out at either kind of allocation. Scheduler: a turn of 2 ticks lets a tick
pass without a switch; three user tasks let one end, and its slot be reused, while
two wait. Console: 10 bytes go once around a history of 8 with the window at every
position, and rows of 2 have lines that end before, at and behind a row's end.
Keyboard: the keys include those whose codes occur inside longer sequences, and any
byte of any event may be lost. FAT16: 3 units fill a cluster and begin another, a
directory of one cluster must expand for its
first child; five operations run the volume full and reuse freed clusters, and three
names for the two entries of the root run that full. Writes are appends, from the
start of a new file or the end of an old one: a write in front of the end cuts the file
off and keeps the clusters behind, after which the store of `FileStore` no longer holds.
ATA: two sectors have a boundary between them, three are more than SECCOUNT can say,
three calls are a write, another write and a read.

What `sched` presumes. With one user task, as the code boots, the run is about the
code as it stands. With two or three it is about the scheduler alone: `load_task` maps
the kernel stacks of all tasks to one page, where a second user task would overwrite
the saved registers of the first, and `Sched` lets every task keep its frames. The
results for several user tasks hold once each has a page, as `note.txt:43` plans.

Fairness. `Sched` (`FairSpec`): the CPU executes the instruction it is at (weak
fairness of the kernel's steps), the PIT keeps ticking (weak), and the PIC delivers
a timer request that it can deliver again and again (strong: the flag is off during
each handler). Nothing is assumed of the keyboard, of user programs or of their
system calls. `Ata`: the driver executes its next access, and a drive that works on
a command comes to an end of it, well or not (weak). `BootLoad`: the CPU goes on,
and a BIOS call returns (weak). All other properties are safety properties.

Deadlock checking is off where the machine or the model's input really comes to an
end: after a fault or a panic (`while(1){}`), after the boot, and when the bounded
number of disk operations is used up.

## Findings

1. `sched_entry`: `spawn_ram` enters the first user task without setting TSS.ESP0,
   against the remark at `asm/process.asm:54`: its interrupts are pushed at
   0xFFFFFF00, inside the reverse table, until the first timer switch.
2. `address_space_table`: `request_region_vmap` keeps a page table past its
   directory entry, against `kernel/mem.c:345`; every stack request runs into it,
   and a stray page is entered by the first request for the kernel stack and by
   each program's request for its user stack.
3. `console_race`: a key handled while task 0 prints a byte leaves a window that its
   two ends do not determine, against `kernel/console.c:30`.

The models also follow the code, without a run of their own, where it differs from a
comment in smaller ways:

- all tasks share one kernel stack page (`load_task` links directory entry 1021),
  against `note.txt:43` (see "What `sched` presumes");
- a task that ends gives no frame back, against `kernel/task.c:154`;
- UP goes back by bytes, not rows, against `kernel/console.c:19`; the window buffer is
  drawn before it has been written (`Junk` in `ConsoleOps`), against
  `kernel/console.c:14`;
- a write in front of a file's end cuts the file off, against `fs/fat16.c:668`; a
  directory expands before its last cluster has been searched, against
  `fs/fat16.c:903`; creating a file in a full root directory never ends (the mode
  "hung"), so that the panic of `fs/fat16.c:491` cannot be reached; opening an existing
  file with CREATE and APPEND loses the right to write that APPEND gives;
- the test for DRQ is always true, its panic (`drivers/ata.c:189`) dead; the number of
  sectors is shifted by the wrong amount (precedence of `<<` and `+`), against
  `drivers/ata.c:42`.

## Proofs

`HeapProofs` proves, for every heap range, header size and set of request sizes,
that `IInv` (types, tiling, no adjacent free regions, exact back links, exact and
sorted free list) is inductive. Each part alone is not: that a merge keeps the
tiling needs the back links, back links need that neighbours of free regions are
allocated, and finding a region in the list needs the list to be exact. The
effects of `kmalloc` and `kfree` are stated as lemmas (`KmallocEffect`,
`KfreeEffect`) on which the preservation of each conjunct rests. From `IInv` follow
the properties that `heap` checks of `Heap`'s variables, the refinement of `Allocator`
among them, and that `kmalloc` takes the best fit.

`FramesProofs` proves that the byte-wise search finds the lowest idle frame of the
call's range, for
every number of bits and every range that starts at a byte, from two lemmas on
division: a visited byte's bits are the frames from there on, and every frame of
the range belongs to a visited byte.

`KeyboardProofs` proves, for every table and every set of keys, that at most five
bytes are collected, that an event received whole gives its key code, and that
five one-byte events after a lost byte the machine is in step. Exactness alone is
not inductive: the invariant says that the bytes collected are the part of the
event sent so far, unless a byte was lost, and, if one was, bounds the bytes still
to be swallowed by the quiet events seen.

`BootLoadProofs` proves for every even number of sectors per track up to 36 that
the reads fit, are in order, stay below the system's memory, and are complete when
the kernel is entered. The invariant ties es:bx to the number of sectors loaded and
that number to the track; that no track ends exactly at a 64 KB boundary, where the
code's carry test would split off an empty part, is a parity argument (`OddEnd`):
one sector, the boot sector, is left out.

`SchedProofs` proves all invariants of `Sched` for every number of slots, ticks to a
turn, programs and faulty tasks. They need each other. That a handler's frame is on
top of its stack (`Stacks`) needs the flag it runs with (`Flags`), the flag a
suspended task gets back needs `SuspendedInKernel`, and the shape of the stacks needs
the PIC: nothing nests above a timer interrupt only because it is in service until
its EOI, and that it is in service is known only because exactly one frame owes that
EOI (`InService`, which is `InServiceExact` said of single frames). `Booting` keeps
interrupts from task 0 until its `sti`. For `BoundedWaiting` the invariant adds the
distance: the number of slots `schedule` has to go from the running task to a waiting
one, plus the switches past it so far, stays below `MAX_TASK_NUM` (`Approaching`). It
rests on `SlotIs`, which takes the modulus out of the round-robin search. The count
starts anew when a program is spawned; the one spawn of `init_task0` comes before every
switch that is counted.

`AtaProofs` proves the safety properties of `Ata` for drives and sectors of any size, a
SECCOUNT of any width, every `sec_num` and buffer size on the disk and every sequence of
calls. They speak of the sectors the drive was told of: all of a call's up to 256, by the
lemma `ToldBounds`; beyond that, that nothing else is touched. None of
them is inductive: the invariant says for each access of each routine what the drive
can be doing (`Phase`: idle, failed, at the same sector and word as the driver, done with
the sectors it was told of, or still waiting for some that never come, with
BSY, DRQ and a lagging status only where the polls before allow them), what the buffer
holds (`Filled`), and during a write which sectors the drive has taken and how much of
the next one it has (`Disk`). The texts of the routines are lemmas (`ReadText`, ...),
from them where each access leads (`ReadControl`, ...); then each kind of access and
each step of the drive keeps the invariant. `Quiet` had to exclude a leftover command:
that the next routine starts with an idle drive is what the polls behind a write are
for.

`AddressSpaceInvariant` and `AddressSpaceProofs` prove all invariants of `AddressSpace`
but `ImageInPlace`, for every number of frames and of entries to a table, and all programs
linked below the kernel. The invariant has three parts. `Tree` says what each frame is
used for: directories, their own tables and the pages in these are all apart, and each
frame handed out is one of them. That a step keeps it needs to know that
every pointer leads to the frame the code takes it for (`Caller`, `Loader`, `Stack0`,
`Locals`), since a write through a stale one would change some other table; and that
needs the position in the region (`InKstack`, `InUstack`, `InSection`, `InText`), because
`get_phy_from_dir` deletes mappings which only then are known not to be in use. `Counts`
and `CountRegion` bound the mappings at each point of a load, so that a slot is always
found: copying the text removes one that `request_region_vmap` left (`Removable`). Lemmas
say what `get_temp_va`, `create_page_table` and the rest do to a memory (`TreeIs` over any
memory), and then each action keeps each part. The facts on finite sets the lemmas use are
a hypothesis of theirs, `SetFacts`, which `AddressSpaceProofs` discharges from the
library's theorems.

Assumptions: the named ones of the modules (`HeapAssumption`, `FramesAssumption`,
`KeyboardAssumption`, `BootAssumption`, `SchedAssumption`, `AtaAssumption`,
`AddressSpaceAssumption`), which the runs evaluate.

Only model-checked: `HeapLinks`, `Fat16` and `Console` (their operators are
recursive), `ImageInPlace` of `AddressSpace` (it is about what was copied, page by page,
where the invariant above has only which frame is where), and all liveness (`RoundRobin`, `CallsEnd`, the end of the
boot), which needs fairness.

## Not modelled

- Heap, frames, paging: the wrap of sizes at 2^32 in `kmalloc`; frame ranges that do
  not start at a byte of the bitmap, and text that does not start at a page (no
  caller or program has them); the contents of boot page tables.
- Interrupts of COM1 and of the slave PIC; the index of the system call table.
- Shell commands: `parse_command` is called nowhere, so they cannot run in this
  build.
- Keyboard: scan code 0x56, which reads behind the table (`drivers/keyboard.c:65`).
- FAT16: reading the super block; the strings of paths and names, which `strtok` and
  `str_pad` cut and pad; a file that the host wrote to fill its last cluster exactly,
  over whose end an append would go; writes in front of a file's end, as a flag WRITE
  without APPEND makes on a file that is not empty; clusters behind the end of the
  volume; two handles in use on one file, the use of a handle after its file was deleted,
  and looking a name up below a regular file (no caller does these); what happens on
  a volume after a crash, since the code has no recovery.
- ATA: addresses beyond the disk or the 28 bits of the registers; what `outw` reads where
  a caller's buffer is shorter than `sec_num` sectors (no caller's is); a drive that is
  absent, for which `ata_poll_drdy` waits for ever.
- The serial port (polled, used by a test in `main.c` only), the string functions and
  `printf` (no state of their own).
- The switch to protected mode, `main`, the `test_*` functions, user programs.

## Plan

1. Proofs: `ImageInPlace`, the console's ring.
2. Composition of `Sched` with `AddressSpace`: the reverse table that interrupts
   overwrite after `spawn_ram`; of `Fat16` with `Ata`, in place of writes that are
   atomic per cluster.
