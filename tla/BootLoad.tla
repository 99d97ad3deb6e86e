------------------------------ MODULE BootLoad ------------------------------
(***************************************************************************)
(* The boot sector's loader, boot/mbr.asm and boot/disk.asm: it reads the  *)
(* kernel from the floppy, track by track, to memory from LOADED_ADDRESS,  *)
(* with BIOS reads that may not cross a multiple of 64K.  Registers are    *)
(* 16 bits wide.  The BIOS (external) reads what it is asked for, fails,   *)
(* or reads fewer sectors.                                                 *)
(***************************************************************************)
EXTENDS Integers

CONSTANT Geometries \* the sectors of a track the floppy may have

\* disk.asm, line 231, names 0x12 and 0x24; what matters is that the number is even,
\* and that 13 cylinders fit below the system's memory.
Even == {n \in 1 .. 36 : n % 2 = 0}
ASSUME BootAssumption == Geometries \subseteq Even

LOADED_ADDRESS == 36864
LOADED_CYL1_NUM == 25
LOADED_CYL2_NUM == 12
SystemAddress == 524288 \* 0x80000, from where memory is the system's

VARIABLES pc,
          sector_num, \* SECTOR_NUM, 0 before get_floppy_chs
          es, bx,     \* where the next sector goes, es:bx
          dl, dh,     \* the cylinder and the head
          ah, al,     \* the first sector of the BIOS call to make, and their number
          rest,       \* the sectors of the track left for a second call
          loaded      \* ghost: the sectors read so far

vars == <<pc, sector_num, es, bx, dl, dh, ah, al, rest, loaded>>

\* A mutant of LastCylinder: the numbers of cylinders that fit, taken as an index.
LastCylinder_count == IF sector_num = 18 THEN 26 ELSE 13
LastCylinder == IF sector_num = 18 THEN LOADED_CYL1_NUM ELSE LOADED_CYL2_NUM

\* The first sector of a track to read: on the first one, the boot sector is skipped.
FirstSector == IF dl = 0 /\ dh = 0 THEN 2 ELSE 1

\* A mutant of Crosses: the boundary is not looked for.
Crosses_never(n) == FALSE

\* The carry of bx - 1 + 512 * n, with dec's wrap at 0, and the sectors before the
\* boundary, 0xFFFF - bx + 1 by 512.
Crosses(n) == ((bx - 1) % 65536) + 512 * n >= 65536
BeforeBoundary == ((65536 - bx) % 65536) \div 512

get_floppy_chs ==
  /\ pc = "start"
  /\ \/ /\ \E s \in Geometries : sector_num' = s
        /\ pc' = "track"
     \/ pc' = "floppy_error" /\ UNCHANGED sector_num
  /\ es' = 0 /\ bx' = LOADED_ADDRESS
  /\ UNCHANGED <<dl, dh, ah, al, rest, loaded>>

\* load_cylinder_cross_64K, up to its first disk_load.  The test for block_div_err
\* is on the quotient's high byte, which is 0.
load_cylinder_cross_64K ==
  /\ pc = "track" /\ dl <= LastCylinder
  /\ ah' = FirstSector
  /\ LET n == sector_num - (FirstSector - 1) IN
       IF Crosses(n) THEN al' = BeforeBoundary /\ rest' = n - BeforeBoundary
       ELSE al' = n /\ rest' = 0
  /\ pc' = "load"
  /\ UNCHANGED <<sector_num, es, bx, dl, dh, loaded>>

\* The end of a track: the other head, or the next cylinder (disk_load_all).
NextTrack ==
  /\ pc' = "track" /\ dh' = 1 - dh /\ dl' = dl + dh
  /\ UNCHANGED <<ah, al, rest>>

\* A mutant of SecondPart: the segment is not advanced.
SecondPart_same ==
  /\ ah' = ah + al /\ al' = rest /\ rest' = 0
  /\ es' = es /\ bx' = 0
  /\ pc' = "load" /\ UNCHANGED <<dl, dh>>

\* The part of the track after the boundary, read to the next segment.
SecondPart ==
  /\ ah' = ah + al /\ al' = rest /\ rest' = 0
  /\ es' = es + 4096 /\ bx' = 0
  /\ pc' = "load" /\ UNCHANGED <<dl, dh>>

\* disk_load: the sectors are read and bx moves on; a carry is an error unless the
\* read ended at the boundary.
disk_load ==
  /\ pc = "load"
  /\ loaded' = loaded + al
  /\ LET end == bx + 512 * al IN
       IF end > 65536
         THEN pc' = "overflow_64K" /\ bx' = end % 65536 /\ UNCHANGED <<es, dl, dh, ah, al, rest>>
         ELSE IF rest > 0 THEN SecondPart
         ELSE NextTrack /\ bx' = end % 65536 /\ UNCHANGED es
  /\ UNCHANGED sector_num

\* A mutant of disk_error: the track is read again.
disk_error_retry ==
  /\ pc = "load"
  /\ pc' = "track"
  /\ UNCHANGED <<sector_num, es, bx, dl, dh, ah, al, rest, loaded>>

\* The BIOS call fails, or reads fewer sectors.
disk_error ==
  /\ pc = "load"
  /\ pc' \in {"disk_error", "sectors_error"}
  /\ UNCHANGED <<sector_num, es, bx, dl, dh, ah, al, rest, loaded>>

\* A mutant of Boot: the last cylinder is not read.
Boot_early ==
  /\ pc = "track" /\ dl >= LastCylinder
  /\ pc' = "booted"
  /\ UNCHANGED <<sector_num, es, bx, dl, dh, ah, al, rest, loaded>>

\* disk_load_all returns; the kernel is entered.
Boot ==
  /\ pc = "track" /\ dl > LastCylinder
  /\ pc' = "booted"
  /\ UNCHANGED <<sector_num, es, bx, dl, dh, ah, al, rest, loaded>>

Init ==
  /\ pc = "start" /\ sector_num = 0
  /\ es = 0 /\ bx = 0 /\ dl = 0 /\ dh = 0
  /\ ah = 0 /\ al = 0 /\ rest = 0 /\ loaded = 0

Next == get_floppy_chs \/ load_cylinder_cross_64K \/ disk_load \/ disk_error \/ Boot

\* The machine runs on.
Spec == Init /\ [][Next]_vars /\ WF_vars(Next)

-----------------------------------------------------------------------------

Address == 16 * es + bx

\* The types; the register es stays 16 bits wide.
TypeOK ==
  /\ pc \in {"start", "track", "load", "booted", "floppy_error", "disk_error", "sectors_error",
             "overflow_64K"}
  /\ sector_num \in {0} \cup Geometries
  /\ es \in 0 .. 65535 /\ bx \in 0 .. 65535
  /\ dl \in 0 .. 255 /\ dh \in {0, 1}
  /\ ah \in 0 .. 63 /\ al \in 0 .. 63 /\ rest \in 0 .. 63
  /\ loaded \in Nat

\* Every BIOS call asks for something it can do: at least one sector, none past the
\* track, and no byte past the 64K boundary.  So the loader never stops by its own
\* overflow test.  In particular no track begins at a boundary, where the code would
\* ask for 0 sectors: the tracks have an even number of sectors, the first one is
\* read short of one, and LOADED_ADDRESS is an even number of sectors.
CallsFit ==
  /\ pc = "load" => /\ al >= 1 /\ ah >= 1 /\ ah + al - 1 <= sector_num
                    /\ bx + 512 * al <= 65536
  /\ pc # "overflow_64K"

\* Sector i of the disk, counted from the one after the boot sector, goes to
\* LOADED_ADDRESS + 512 * i: the next call reads the sector that follows the last
\* one read, to the place that follows it, also across segments.
InOrder ==
  pc = "load" => /\ Address = LOADED_ADDRESS + 512 * loaded
                 /\ (2 * dl + dh) * sector_num + ah = loaded + 2

\* Nothing is written from 0x80000 on, the system's memory (mbr.asm, line 45).
BelowSystem == pc = "load" => Address + 512 * al <= SystemAddress

\* The kernel is entered only with every sector of the cylinders in memory.
AllLoaded == pc = "booted" => loaded = 2 * (LastCylinder + 1) * sector_num - 1

\* The loader comes to an end.
BootEnds == <>(pc \notin {"start", "track", "load"})

=============================================================================
