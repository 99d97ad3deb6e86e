--------------------------- MODULE BootLoadProofs ---------------------------
(***************************************************************************)
(* The loader's calls fit, are in order and stay below the system's        *)
(* memory, for every floppy with an even number of sectors to a track.     *)
(***************************************************************************)
EXTENDS BootLoad, TLAPS

Track == 2 * dl + dh

\* es:bx is the address of the next sector, es is a multiple of 64K and bx of 512.
WholeSegment == \E k \in Nat : es = 4096 * k
WholeSectors == \E b \in 0 .. 127 : bx = 512 * b
Place == WholeSegment /\ WholeSectors /\ 16 * es + bx = LOADED_ADDRESS + 512 * loaded

\* Before a track, `loaded` counts the sectors of the tracks before it, but one.
AtTrack ==
  /\ Place
  /\ dl <= LastCylinder + 1 /\ (dl = LastCylinder + 1 => dh = 0)
  /\ loaded = IF Track = 0 THEN 0 ELSE Track * sector_num - 1

\* Before a call, the calls left end the track; a second one starts at the boundary.
AtLoad ==
  /\ Place
  /\ dl <= LastCylinder
  /\ al >= 1 /\ ah >= 1
  /\ ah + al + rest = sector_num + 1
  /\ Track * sector_num + ah = loaded + 2
  /\ bx + 512 * al <= 65536
  /\ rest > 0 => bx + 512 * al = 65536

Numbers ==
  /\ es \in Nat /\ bx \in Nat /\ dl \in Nat /\ dh \in {0, 1}
  /\ ah \in Nat /\ al \in Nat /\ rest \in Nat /\ loaded \in Nat

Types ==
  /\ pc \in {"start", "track", "load", "booted", "floppy_error", "disk_error", "sectors_error"}
  /\ pc \in {"track", "load", "booted"} => sector_num \in Geometries
  /\ Numbers
  /\ pc = "start" => dl = 0 /\ dh = 0 /\ loaded = 0

Inv ==
  /\ Types
  /\ pc = "track" => AtTrack
  /\ pc = "load" => AtLoad
  /\ AllLoaded

\* A track never ends at a 64K boundary: 128 sectors to a segment, 72 before
\* LOADED_ADDRESS, one left out, an even number to a track.
LEMMA OddEnd ==
  ASSUME NEW k \in Nat, NEW t \in Nat, NEW s \in Even
  PROVE  128 * k # 71 + t * s
<1>1. PICK h \in Nat : s = 2 * h
  BY SMT DEF Even
<1>2. t * s = 2 * (t * h) /\ t * h \in Nat
  BY <1>1, SMT
<1> DEFINE p == t * h
<1>3. p \in Nat /\ t * s = 2 * p
  BY <1>2
<1> HIDE DEF p
<1> QED
  BY <1>3, SMT

\* The sectors of the first t tracks end below the system's memory.
LEMMA Fits ==
  ASSUME NEW s \in Even, NEW t \in Nat,
         t <= 2 * (IF s = 18 THEN LOADED_CYL1_NUM ELSE LOADED_CYL2_NUM) + 2
  PROVE  t * s <= 936
<1>1. CASE s = 18
  BY <1>1, SMT DEF LOADED_CYL1_NUM
<1>2. CASE s # 18
  <2>1. t <= 26 /\ s <= 36 /\ s \in Nat
    BY <1>2, SMT DEF LOADED_CYL2_NUM, Even
  <2>2. (26 - t) * s >= 0
    BY <2>1, SMT
  <2>3. t * s <= 26 * s
    BY <2>1, <2>2, SMT
  <2> QED
    BY <2>1, <2>3, SMT
<1> QED
  BY <1>1, <1>2

LEMMA EvenRange == ASSUME NEW s \in Even PROVE s \in 2 .. 36
  BY SMT DEF Even

\* The initial state.
LEMMA InitInv == Init => Inv
<1> SUFFICES ASSUME Init PROVE Inv
  OBVIOUS
<1>1. Numbers
  BY SMT DEF Init, Numbers
<1> QED
  BY <1>1 DEF Init, Inv, Types, AllLoaded

\* get_floppy_chs: the first track, at LOADED_ADDRESS.
LEMMA StartStep == Inv /\ get_floppy_chs => Inv'
<1> SUFFICES ASSUME Inv, get_floppy_chs PROVE Inv'
  OBVIOUS
<1>1. Numbers /\ dl = 0 /\ dh = 0 /\ loaded = 0
  BY DEF Inv, Types, get_floppy_chs
<1>2. es' = 0 /\ bx' = LOADED_ADDRESS /\ UNCHANGED <<dl, dh, ah, al, rest, loaded>>
  BY DEF get_floppy_chs
<1>3. Numbers'
  BY <1>1, <1>2, SMT DEF Numbers, LOADED_ADDRESS
<1>4. pc' \in {"track", "floppy_error"} /\ (pc' = "track" => sector_num' \in Geometries)
  BY DEF get_floppy_chs
<1>5. Types'
  BY <1>3, <1>4 DEF Types
<1>6. Place'
  <2>1. 0 \in Nat /\ es' = 4096 * 0
    BY <1>2, SMT
  <2>2. 72 \in 0 .. 127 /\ bx' = 512 * 72
    BY <1>2, SMT DEF LOADED_ADDRESS
  <2>3. 16 * es' + bx' = LOADED_ADDRESS + 512 * loaded'
    BY <1>1, <1>2, SMT DEF LOADED_ADDRESS
  <2> QED
    BY <2>1, <2>2, <2>3 DEF Place, WholeSegment, WholeSectors
<1>7. dl' <= LastCylinder' + 1 /\ dl' # LastCylinder' + 1
  BY <1>1, <1>2, SMT DEF LastCylinder, LOADED_CYL1_NUM, LOADED_CYL2_NUM
<1>8. Track' = 0
  BY <1>1, <1>2, SMT DEF Track
<1>9. AtTrack'
  BY <1>1, <1>2, <1>6, <1>7, <1>8 DEF AtTrack
<1> QED
  BY <1>4, <1>5, <1>9 DEF Inv, AllLoaded

\* load_cylinder_cross_64K: one call, or the first of two.
LEMMA TrackStep == Inv /\ load_cylinder_cross_64K => Inv'
<1> SUFFICES ASSUME Inv, load_cylinder_cross_64K PROVE Inv'
  OBVIOUS
<1> DEFINE n == sector_num - (FirstSector - 1)
           p == Track * sector_num
<1>1. Numbers /\ AtTrack /\ dl <= LastCylinder /\ pc' = "load" /\ sector_num \in Geometries
  BY DEF Inv, Types, load_cylinder_cross_64K
<1>2. UNCHANGED <<sector_num, es, bx, dl, dh, loaded>> /\ ah' = FirstSector
  BY DEF load_cylinder_cross_64K
<1>3. sector_num \in Even /\ sector_num \in 2 .. 36
  BY <1>1, BootAssumption, EvenRange
<1>4. Track \in Nat /\ FirstSector \in {1, 2} /\ (FirstSector = 2 <=> Track = 0)
  BY <1>1, SMT DEF Numbers, Track, FirstSector
<1>5. n \in 1 .. 36
  BY <1>3, <1>4, SMT
<1>6. PICK k \in Nat : es = 4096 * k
  BY <1>1 DEF AtTrack, Place, WholeSegment, WholeSectors
<1>7. PICK b \in 0 .. 127 : bx = 512 * b
  BY <1>1 DEF AtTrack, Place, WholeSegment, WholeSectors
<1>8. 16 * es + bx = LOADED_ADDRESS + 512 * loaded /\ loaded \in Nat
  BY <1>1 DEF AtTrack, Place, Numbers
<1>9. p \in Nat /\ 128 * k # 71 + p /\ (Track = 0 => p = 0)
  <2>1. p \in Nat /\ (Track = 0 => p = 0)
    BY <1>3, <1>4, SMT
  <2>2. 128 * k # 71 + Track * sector_num
    BY OddEnd, <1>3, <1>4, <1>6
  <2> QED
    BY <2>1, <2>2
<1>10. loaded = IF Track = 0 THEN 0 ELSE p - 1
  BY <1>1 DEF AtTrack
<1> HIDE DEF p
<1>11. b # 0
  <2>1. 128 * k + b = 72 + loaded
    BY <1>6, <1>7, <1>8, SMT DEF LOADED_ADDRESS
  <2>2. CASE Track = 0
    BY <2>1, <2>2, <1>6, <1>10, SMT
  <2>3. CASE Track # 0
    BY <2>1, <2>3, <1>6, <1>9, <1>10, SMT
  <2> QED
    BY <2>2, <2>3
<1> HIDE DEF n
<1>12. /\ Crosses(n) <=> 512 * b + 512 * n > 65536
       /\ BeforeBoundary = 128 - b
  <2>1. (bx - 1) % 65536 = 512 * b - 1
    BY <1>7, <1>11, SMT
  <2>2. (65536 - bx) % 65536 = 512 * (128 - b)
    BY <1>7, <1>11, SMT
  <2>3. (512 * (128 - b)) \div 512 = 128 - b
    BY <1>7, SMT
  <2>4. BeforeBoundary = 128 - b
    BY <2>2, <2>3 DEF BeforeBoundary
  <2>5. Crosses(n) <=> 512 * b + 512 * n > 65536
    BY <2>1, <1>5, <1>7, SMT DEF Crosses
  <2> QED
    BY <2>4, <2>5
<1>13. IF Crosses(n) THEN al' = BeforeBoundary /\ rest' = n - BeforeBoundary
       ELSE al' = n /\ rest' = 0
  BY DEF load_cylinder_cross_64K, n
<1>14. /\ al' \in 1 .. 36 /\ rest' \in 0 .. 36 /\ al' + rest' = n
       /\ bx + 512 * al' <= 65536
       /\ rest' > 0 => bx + 512 * al' = 65536
  <2>1. CASE Crosses(n)
    BY <2>1, <1>5, <1>7, <1>11, <1>12, <1>13, SMT
  <2>2. CASE ~Crosses(n)
    BY <2>2, <1>5, <1>7, <1>11, <1>12, <1>13, SMT
  <2> QED
    BY <2>1, <2>2
<1>15. ah' + al' + rest' = sector_num + 1
  <2>1. n = sector_num - (FirstSector - 1)
    BY DEF n
  <2>2. al' + rest' = n /\ al' \in Int /\ rest' \in Int
    BY <1>14, SMT
  <2> QED
    <3> DEFINE f == FirstSector
               a == al'
               r == rest'
    <3>1. a + r = sector_num - (f - 1) /\ a \in Int /\ r \in Int /\ f \in {1, 2} /\ ah' = f
      BY <2>1, <2>2, <1>2, <1>4
    <3> HIDE DEF f, a, r
    <3>2. f + a + r = sector_num + 1
      BY <3>1, <1>3, SMT
    <3> QED
      BY <3>1, <3>2 DEF a, r
<1>16. p + ah' = loaded + 2
  <2>1. CASE Track = 0
    BY <2>1, <1>2, <1>4, <1>9, <1>10, SMT
  <2>2. CASE Track # 0
    BY <2>2, <1>2, <1>4, <1>9, <1>10, SMT
  <2> QED
    BY <2>1, <2>2
<1>17. Numbers'
  BY <1>1, <1>2, <1>4, <1>14, SMT DEF Numbers
<1>18. AtLoad'
  <2>1. Place' /\ dl' <= LastCylinder'
    BY <1>1, <1>2 DEF AtTrack, Place, WholeSegment, WholeSectors, LastCylinder
  <2>2. al' >= 1 /\ ah' >= 1
    BY <1>2, <1>4, <1>14, SMT
  <2>3. Track' * sector_num' = p
    BY <1>2 DEF Track, p
  <2> QED
    BY <2>1, <2>2, <2>3, <1>2, <1>14, <1>15, <1>16 DEF AtLoad
<1> QED
  BY <1>1, <1>2, <1>17, <1>18 DEF Inv, AllLoaded, Types

\* disk_load: the second call, or the next track.
LEMMA LoadStep == Inv /\ disk_load => Inv'
<1> SUFFICES ASSUME Inv, disk_load PROVE Inv'
  OBVIOUS
<1> DEFINE p == Track * sector_num
           q == (Track + 1) * sector_num
<1>1. Numbers /\ AtLoad /\ sector_num \in Geometries
  BY DEF Inv, Types, disk_load
<1>2. sector_num' = sector_num /\ loaded' = loaded + al
  BY DEF disk_load
<1>3. sector_num \in Even /\ sector_num \in 2 .. 36
  BY <1>1, BootAssumption, EvenRange
<1>4. Track \in Nat
  BY <1>1, SMT DEF Numbers, Track
<1>5. PICK k \in Nat : es = 4096 * k
  BY <1>1 DEF AtLoad, Place, WholeSegment, WholeSectors
<1>6. PICK b \in 0 .. 127 : bx = 512 * b
  BY <1>1 DEF AtLoad, Place, WholeSegment, WholeSectors
<1>7. /\ dl <= LastCylinder /\ al >= 1 /\ ah >= 1
      /\ ah + al + rest = sector_num + 1
      /\ p + ah = loaded + 2
      /\ bx + 512 * al <= 65536
      /\ rest > 0 => bx + 512 * al = 65536
      /\ 16 * es + bx = LOADED_ADDRESS + 512 * loaded
  BY <1>1 DEF AtLoad, Place, WholeSegment, WholeSectors
<1>8. /\ p \in Nat /\ q = p + sector_num
      /\ 128 * (k + 1) # 71 + q
  <2>1. p \in Nat /\ q = p + sector_num
    BY <1>3, <1>4, SMT
  <2>2. k + 1 \in Nat /\ Track + 1 \in Nat
    BY <1>4, <1>5, SMT
  <2>3. 128 * (k + 1) # 71 + (Track + 1) * sector_num
    BY ONLY ZenonT(30), OddEnd, <2>2, <1>3
  <2> QED
    BY <2>1, <2>3
<1>9. /\ Track' * sector_num' = IF Track' = Track THEN p ELSE Track' * sector_num
      /\ Track' = Track + 1 => Track' * sector_num' = q
  BY <1>2
<1> HIDE DEF p, q
<1>10. al \in Nat /\ ah \in Nat /\ rest \in Nat /\ loaded \in Nat /\ dl \in Nat /\ dh \in {0, 1}
  BY <1>1 DEF Numbers
<1>11. b + al <= 128 /\ 128 * k + b = 72 + loaded
  BY <1>5, <1>6, <1>7, <1>10, SMT DEF LOADED_ADDRESS
<1>12. ~(bx + 512 * al > 65536)
  BY <1>6, <1>7, <1>10, SMT
<1>13. CASE rest > 0
  <2>1. SecondPart
    BY <1>12, <1>13 DEF disk_load
  <2>2. /\ pc' = "load" /\ dl' = dl /\ dh' = dh
        /\ ah' = ah + al /\ al' = rest /\ rest' = 0 /\ bx' = 0 /\ es' = es + 4096
    BY <2>1 DEF SecondPart
  <2>3. b + al = 128
    BY <1>6, <1>7, <1>10, <1>13, SMT
  <2>4. k + 1 \in Nat /\ es' = 4096 * (k + 1)
    BY <2>2, <1>5, SMT
  <2>5. 0 \in 0 .. 127 /\ bx' = 512 * 0
    BY <2>2, SMT
  <2>6. 16 * es' + bx' = LOADED_ADDRESS + 512 * loaded'
    BY <2>2, <2>3, <2>4, <1>2, <1>5, <1>6, <1>10, <1>11, SMT DEF LOADED_ADDRESS
  <2>7. Place'
    BY <2>4, <2>5, <2>6 DEF Place, WholeSegment, WholeSectors
  <2>8. ah' + al' + rest' = sector_num' + 1 /\ p + ah' = loaded' + 2
    BY <2>2, <1>2, <1>7, <1>8, <1>10, SMT
  <2>9. al' >= 1 /\ ah' >= 1 /\ bx' + 512 * al' <= 65536 /\ ~(rest' > 0)
    BY <2>2, <1>3, <1>7, <1>10, <1>13, SMT
  <2>10. Track' = Track /\ LastCylinder' = LastCylinder
    BY <2>2, <1>2 DEF Track, LastCylinder
  <2>11. AtLoad'
    BY <2>2, <2>7, <2>8, <2>9, <2>10, <1>7, <1>9 DEF AtLoad
  <2>12. Numbers'
    BY <2>2, <2>4, <1>2, <1>10, SMT DEF Numbers
  <2> QED
    BY <2>2, <2>11, <2>12, <1>1, <1>2 DEF Inv, AllLoaded, Types
<1>14. CASE ~(rest > 0)
  <2>1. NextTrack /\ bx' = (bx + 512 * al) % 65536 /\ es' = es
    BY <1>12, <1>14 DEF disk_load
  <2>2. pc' = "track" /\ dh' = 1 - dh /\ dl' = dl + dh /\ UNCHANGED <<ah, al, rest>>
    BY <2>1 DEF NextTrack
  <2>3. Track' = Track + 1 /\ Track' # 0
    <3>1. Track' = Track + 1
      BY <2>2, <1>10, SMT DEF Track
    <3> QED
      BY <3>1, <1>4, SMT
  <2>4. loaded' = q - 1
    BY <1>2, <1>3, <1>7, <1>8, <1>10, <1>14, SMT
  <2>5. b + al \in 0 .. 127
    BY <2>4, <1>2, <1>3, <1>5, <1>6, <1>8, <1>10, <1>11, SMT
  <2>6. bx' = 512 * (b + al)
    <3>1. (bx + 512 * al) % 65536 = 512 * (b + al)
      BY <2>5, <1>6, <1>10, SMT
    <3> QED
      BY <3>1, <2>1
  <2>7. 16 * es' + bx' = LOADED_ADDRESS + 512 * loaded'
    BY <2>1, <2>6, <1>2, <1>5, <1>6, <1>10, <1>11, SMT DEF LOADED_ADDRESS
  <2>8. Place'
    <3>1. es' = 4096 * k
      BY <2>1, <1>5
    <3>2. WholeSegment'
      BY <3>1, <1>5 DEF WholeSegment
    <3>3. WholeSectors'
      BY <2>5, <2>6 DEF WholeSectors
    <3> QED
      BY <3>2, <3>3, <2>7 DEF Place
  <2>9. LastCylinder' = LastCylinder /\ LastCylinder \in {25, 12}
    BY <1>2 DEF LastCylinder, LOADED_CYL1_NUM, LOADED_CYL2_NUM
  <2>10. dl' <= LastCylinder' + 1 /\ (dl' = LastCylinder' + 1 => dh' = 0)
    BY <2>2, <2>9, <1>7, <1>10, SMT
  <2>11. loaded' = IF Track' = 0 THEN 0 ELSE Track' * sector_num' - 1
    BY <2>3, <2>4, <1>9
  <2>12. Numbers'
    BY <2>1, <2>2, <2>5, <2>6, <1>2, <1>5, <1>10, SMT DEF Numbers
  <2> QED
    BY <2>2, <2>8, <2>10, <2>11, <2>12, <1>1, <1>2 DEF Inv, AtTrack, AllLoaded, Types
<1> QED
  BY <1>13, <1>14

\* The other steps.
LEMMA OtherSteps == Inv /\ (disk_error \/ Boot \/ UNCHANGED vars) => Inv'
<1> SUFFICES ASSUME Inv PROVE disk_error \/ Boot \/ UNCHANGED vars => Inv'
  OBVIOUS
<1>1. CASE disk_error
  BY <1>1 DEF Inv, disk_error, Types, Numbers, AllLoaded
<1>2. CASE Boot
  <2>1. /\ Types /\ Numbers /\ AtTrack /\ dl > LastCylinder /\ pc = "track" /\ pc' = "booted"
        /\ sector_num \in Geometries
    BY <1>2 DEF Boot, Inv, Types
  <2>2. UNCHANGED <<sector_num, es, bx, dl, dh, ah, al, rest, loaded>>
    BY <1>2 DEF Boot
  <2>3. LastCylinder \in {25, 12} /\ LastCylinder' = LastCylinder
    BY <2>2 DEF LastCylinder, LOADED_CYL1_NUM, LOADED_CYL2_NUM
  <2>4. /\ dl <= LastCylinder + 1 /\ (dl = LastCylinder + 1 => dh = 0)
        /\ loaded = IF Track = 0 THEN 0 ELSE Track * sector_num - 1
    BY <2>1 DEF AtTrack
  <2>5. dl \in Nat
    BY <2>1 DEF Numbers
  <2>6. dl = LastCylinder + 1
    BY <2>1, <2>3, <2>4, <2>5, SMT
  <2>7. Track = 2 * (LastCylinder + 1) /\ Track # 0
    BY <2>3, <2>4, <2>6, SMT DEF Track
  <2>8. loaded = 2 * (LastCylinder + 1) * sector_num - 1
    BY <2>4, <2>7
  <2>9. AllLoaded'
    BY <2>2, <2>3, <2>8 DEF AllLoaded
  <2>10. Types'
    BY <2>1, <2>2 DEF Types, Numbers
  <2> QED
    BY <2>1, <2>9, <2>10 DEF Inv
<1>3. CASE UNCHANGED vars
  BY <1>3 DEF Inv, vars, Types, Numbers, AllLoaded, AtTrack, AtLoad, Place, WholeSegment,
              WholeSectors, Track, LastCylinder
<1> QED
  BY <1>1, <1>2, <1>3

LEMMA Invariance == Spec => []Inv
<1>1. Inv /\ [Next]_vars => Inv'
  BY StartStep, TrackStep, LoadStep, OtherSteps DEF Next
<1> QED
  BY <1>1, InitInv, PTL DEF Spec

\* The BIOS calls of the loader (disk.asm, 61-194) always fit: at least one sector,
\* within the track and the segment, whatever even number of sectors a track has.
THEOREM CallsAlwaysFit == Spec => []CallsFit
<1>1. Inv => CallsFit
  <2> SUFFICES ASSUME Inv PROVE CallsFit
    OBVIOUS
  <2>1. pc # "overflow_64K"
    BY DEF Inv, Types
  <2>2. CASE pc = "load"
    <3>1. Numbers /\ AtLoad /\ sector_num \in Even
      BY <2>2, BootAssumption DEF Inv, Types
    <3>2. al >= 1 /\ ah >= 1 /\ bx + 512 * al <= 65536
      BY <3>1 DEF AtLoad
    <3>3. ah + al - 1 <= sector_num
      BY <3>1, EvenRange, SMT DEF AtLoad, Numbers
    <3> QED
      BY <2>1, <3>2, <3>3 DEF CallsFit
  <2>3. CASE pc # "load"
    BY <2>1, <2>3 DEF CallsFit
  <2> QED
    BY <2>2, <2>3
<1> QED
  BY <1>1, Invariance, PTL

\* Each sector is loaded once, to its place: disk_load_all loses and repeats none
\* where it changes heads, cylinders or segments.
THEOREM LoadsInOrder == Spec => []InOrder
<1>1. Inv => InOrder
  BY DEF Inv, AtLoad, Place, InOrder, Address, Track
<1> QED
  BY <1>1, Invariance, PTL

\* The cylinders mbr.asm asks for end below 0x80000.
THEOREM StaysBelowSystem == Spec => []BelowSystem
<1>1. Inv => BelowSystem
  <2> SUFFICES ASSUME Inv, pc = "load" PROVE Address + 512 * al <= SystemAddress
    BY DEF BelowSystem
  <2> DEFINE p == Track * sector_num
             q == (Track + 1) * sector_num
  <2>1. AtLoad /\ Numbers /\ sector_num \in Even
    BY BootAssumption DEF Inv, Types
  <2>2. dl <= LastCylinder /\ dl \in Nat /\ dh \in {0, 1}
    BY <2>1 DEF AtLoad, Numbers
  <2>3. /\ Track + 1 \in Nat /\ Track \in Nat
        /\ Track + 1 <= 2 * (IF sector_num = 18 THEN LOADED_CYL1_NUM ELSE LOADED_CYL2_NUM) + 2
    BY <2>2, SMT DEF Track, LastCylinder, LOADED_CYL1_NUM, LOADED_CYL2_NUM
  <2>4. q <= 936
    BY <2>1, <2>3, Fits
  <2>5. sector_num \in 2 .. 36
    BY <2>1, EvenRange
  <2>6. p \in Nat /\ q = p + sector_num
    BY <2>3, <2>5, SMT
  <2>7. p + ah = loaded + 2 /\ ah + al + rest = sector_num + 1
    BY <2>1 DEF AtLoad
  <2>8. 16 * es + bx = LOADED_ADDRESS + 512 * loaded
    BY <2>1 DEF AtLoad, Place
  <2> HIDE DEF p, q
  <2>9. loaded + al <= 935
    BY <2>1, <2>4, <2>5, <2>6, <2>7, SMT DEF Numbers
  <2> QED
    BY <2>1, <2>8, <2>9, SMT DEF Address, SystemAddress, LOADED_ADDRESS, Numbers
<1> QED
  BY <1>1, Invariance, PTL

\* The kernel is entered only when every sector of the cylinders is in memory.
THEOREM BootsLoaded == Spec => []AllLoaded
<1>1. Inv => AllLoaded
  BY DEF Inv
<1> QED
  BY <1>1, Invariance, PTL

=============================================================================
