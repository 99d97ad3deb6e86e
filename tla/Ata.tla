-------------------------------- MODULE Ata --------------------------------
(***************************************************************************)
(* The PIO disk driver, drivers/ata.c, against a drive that works while    *)
(* the driver polls.  A function of the driver is given by its port        *)
(* accesses: those it begins with, those between two sectors, those of     *)
(* each word and those it ends with.  A poll is two accesses, since the    *)
(* drive moves between them.  The drive (external) answers on its status   *)
(* register; one that lags shows the old status for one more access after  *)
(* each command and each sector.                                           *)
(***************************************************************************)
EXTENDS Integers, Sequences

CONSTANTS NSectors,\* sectors of the drive
          WORDS,   \* words of a sector, 256 in the code
          COUNT,   \* values of the register SECCOUNT, 256 in the code
          MaxNum,  \* the largest sec_num of a call
          MaxOps,  \* calls made
          Ops,     \* the functions called
          Lags,    \* whether its status register may lag
          Idents,  \* what IDENTIFY may say of it
          BITS,    \* bits of the halves of lba_num, 16 in the code
          NULL

ASSUME AtaAssumption ==
  /\ NSectors \in Nat \ {0}
  /\ WORDS \in Nat \ {0} /\ WORDS % 2 = 0 /\ BITS \in Nat
  /\ COUNT \in Nat \ {0} /\ MaxNum \in Nat /\ MaxOps \in Nat
  /\ Ops \subseteq {"read", "write", "detect", "reset"}
  /\ Lags \subseteq BOOLEAN

LBA == 0 .. NSectors - 1

VARIABLES drive, \* status bits, the command the drive is working on, words received
          media, \* what survives a power cut
          cache, \* sectors accepted and not yet on the media
          pos,   \* where the driver is: part s of its function, access n, sector i, word k
          call,  \* the call in progress, or the last one
          buf,   \* the words moved by it, by sector
          want,  \* ghost: the sectors as the calls that returned left them
          dev,   \* lba_num, as parse_identify_command left it
          mode   \* "run", or "panic"

vars == <<drive, media, cache, pos, call, buf, want, dev, mode>>

-----------------------------------------------------------------------------
(* The driver's functions.  ata_poll_bsy_drq compares `state` promoted to   *)
(* int: ~state & ~(set_drq << 3) is never 0, so the poll ends in either     *)
(* case; the name of its second access records what it was asked for.       *)

poll(drq) == <<"bsy", IF drq = 1 THEN "drq1" ELSE "drq0">>

ata_wait == <<"alt", "alt", "alt", "alt">>

\* A round of the loops.
ata_read_buffer == poll(1) \o <<"inw">>
ata_write_buffer == poll(1) \o <<"outw">>

\* A mutant of ata_read_sector: nothing is polled between two sectors.
ata_read_sector_unpolled ==
  [begin |-> poll(0) \o <<"drdy", "READ">> \o ata_wait, sector |-> <<>>,
   word |-> ata_read_buffer, end |-> <<>>]

ata_read_sector ==
  [begin |-> poll(0) \o <<"drdy", "READ">> \o ata_wait, sector |-> poll(1),
   word |-> ata_read_buffer, end |-> <<>>]

\* A mutant of ata_write_sector: the call does not wait for the flush.
ata_write_sector_unflushed ==
  [begin |-> poll(0) \o <<"drdy", "WRITE">> \o ata_wait, sector |-> <<"alt">> \o poll(1),
   word |-> ata_write_buffer, end |-> <<"alt">> \o poll(0) \o <<"drdy", "FLUSH">>]

ata_write_sector ==
  [begin |-> poll(0) \o <<"drdy", "WRITE">> \o ata_wait, sector |-> <<"alt">> \o poll(1),
   word |-> ata_write_buffer,
   end |-> <<"alt">> \o poll(0) \o <<"drdy", "FLUSH">> \o ata_wait \o poll(0)]

ata_detect ==
  [begin |-> poll(0) \o <<"drdy", "IDENTIFY">> \o ata_wait \o <<"status">> \o poll(0),
   sector |-> <<>>, word |-> ata_read_buffer, end |-> <<"parse">> \o ata_wait]

ata_soft_reset ==
  [begin |-> <<"bsy", "err", "bsy", "err", "SRST">> \o [k \in 1 .. 22 |-> "alt"]
             \o <<"bsy">> \o poll(0),
   sector |-> <<>>, word |-> <<>>, end |-> <<>>]

Program(op) == CASE op = "read"   -> ata_read_sector
                 [] op = "write"  -> ata_write_sector
                 [] op = "detect" -> ata_detect
                 [] OTHER         -> ata_soft_reset

\* The sectors the drive is told of: SECCOUNT keeps the low byte of sec_num, and a
\* drive takes 0 for 256; IDENTIFY answers with one sector.
Told(c) ==
  IF c.op \notin {"read", "write"} THEN 1
  ELSE IF c.num % COUNT = 0 THEN COUNT ELSE c.num % COUNT

\* ata_detect reads half the words of the sector.
Words(op) == IF op = "detect" THEN WORDS \div 2 ELSE WORDS

\* parse_identify_command: the panics, and lba_num, whose shift takes the sum
\* 16 + read_buf[ATA_IDENT_MAX_LBA] for its count (the CPU takes it modulo 32).
Acceptable(id) ==
  /\ id.info \div 2 ^ 15 = 0
  /\ id.major \notin {0, 65535}
  /\ (id.major \div 16) % 8 = 7
  /\ (id.capabilities \div 512) % 2 = 1
lba_num(id) == (id.max_lba[2] * 2 ^ ((BITS + id.max_lba[1]) % (2 * BITS))) % 2 ^ (2 * BITS)

-----------------------------------------------------------------------------
(* The drive.                                                               *)

Idle == [cmd |-> "NONE", at |-> 0, left |-> 0, w |-> 0, data |-> <<>>,
         bsy |-> FALSE, drq |-> FALSE, err |-> FALSE, lag |-> FALSE, ready |-> TRUE]

\* What the drive holds at l.
Stored(l) == IF l \in DOMAIN cache THEN cache[l] ELSE media[l]

\* The status an access sees, and the drive after the access.
SeenBsy == drive.bsy /\ ~drive.lag
SeenErr == drive.err /\ ~drive.lag
Read == [drive EXCEPT !.lag = FALSE]

\* A command is taken unless the drive is busy; an unfinished transfer is dropped.
Command(c) ==
  IF drive.bsy THEN drive
  ELSE [Idle EXCEPT !.cmd = c, !.at = call.lba, !.left = Told(call), !.bsy = TRUE,
                    !.lag = call.lags]

\* A word is moved: after the last of a sector, the drive has work, unless it was
\* the last of a read.
Moved(data) ==
  IF ~drive.drq \/ drive.bsy THEN drive
  ELSE IF drive.w + 1 < WORDS THEN [drive EXCEPT !.w = @ + 1, !.data = data]
  ELSE IF drive.cmd # "WRITE" /\ drive.left <= 1 THEN Idle
  ELSE [drive EXCEPT !.w = 0, !.data = data, !.drq = FALSE, !.bsy = TRUE, !.lag = call.lags,
                     !.left = @ - 1, !.at = @ + 1]

\* The word at the data port.
Word == IF drive.drq /\ ~drive.bsy /\ drive.cmd = "READ" THEN Stored(drive.at)[drive.w + 1] ELSE NULL

\* The drive finishes a piece of its work: a sector fetched, the buffer for the next
\* one free, the sector received stored, the cache flushed.
Fetch ==
  /\ drive.cmd \in {"READ", "IDENTIFY"}
  /\ drive' = [drive EXCEPT !.bsy = FALSE, !.drq = TRUE]
  /\ UNCHANGED <<media, cache>>
Take ==
  /\ drive.cmd = "WRITE"
  /\ cache' = IF drive.left = Told(call) THEN cache
              ELSE [l \in DOMAIN cache \cup {drive.at - 1} |->
                      IF l = drive.at - 1 THEN drive.data ELSE cache[l]]
  /\ drive' = IF drive.left = 0 THEN Idle
              ELSE [drive EXCEPT !.bsy = FALSE, !.drq = TRUE, !.data = <<>>]
  /\ UNCHANGED media
Flush ==
  /\ drive.cmd = "FLUSH"
  /\ media' = [l \in LBA |-> Stored(l)]
  /\ cache' = [l \in {} |-> <<>>]
  /\ drive' = Idle
Reset == drive.cmd = "SRST" /\ drive' = Idle /\ UNCHANGED <<media, cache>>

Finish ==
  /\ drive.bsy /\ ~drive.lag
  /\ Fetch \/ Take \/ Flush \/ Reset
  /\ UNCHANGED <<pos, call, buf, want, dev, mode>>

\* A piece of work fails.
Fail ==
  /\ drive.bsy /\ ~drive.lag
  /\ drive' = [Idle EXCEPT !.err = TRUE]
  /\ UNCHANGED <<media, cache, pos, call, buf, want, dev, mode>>

\* The disks have come up to speed.
SpinUp ==
  /\ ~drive.ready
  /\ drive' = [drive EXCEPT !.ready = TRUE]
  /\ UNCHANGED <<media, cache, pos, call, buf, want, dev, mode>>

\* The drive writes a sector of its cache whenever it likes.
Destage(l) ==
  /\ l \in DOMAIN cache
  /\ media' = [media EXCEPT ![l] = cache[l]]
  /\ cache' = [x \in DOMAIN cache \ {l} |-> cache[x]]
  /\ UNCHANGED <<drive, pos, call, buf, want, dev, mode>>

-----------------------------------------------------------------------------
(* The driver.                                                              *)

\* Where the driver is: nowhere, or at the first access of a part.
Done == [s |-> "none", n |-> 1, i |-> 0, k |-> 0]
Returned == pos.s = "none"
Part(s, i, k) == [s |-> s, n |-> 1, i |-> i, k |-> k]

\* The access the driver makes next.
Access == Program(call.op)[pos.s][pos.n]

\* What follows the last access of a part: the loops over words and sectors.
FirstWord(i) == IF Program(call.op).word = <<>> THEN Done ELSE Part("word", i, 0)
NextSector(i) == IF Program(call.op).sector = <<>> THEN FirstWord(i) ELSE Part("sector", i, 0)
Ending == IF Program(call.op).end = <<>> THEN Done ELSE Part("end", 0, 0)
Following ==
  CASE pos.s = "begin"  -> IF call.num = 0 THEN Ending ELSE FirstWord(0)
    [] pos.s = "sector" -> FirstWord(pos.i)
    [] pos.s = "word"   -> IF pos.k + 1 < Words(call.op) THEN Part("word", pos.i, pos.k + 1)
                           ELSE IF pos.i + 1 < call.num THEN NextSector(pos.i + 1) ELSE Ending
    [] OTHER            -> Done

\* The sectors of the call that the drive moves, and the words a write puts there.
Served(c) == IF c.num = 0 THEN 0 ELSE Told(c)
Sectors(c) == c.lba .. c.lba + Served(c) - 1
Data(c, i, k) == <<c.nb, i, k>>
SectorOf(c, l) == [k \in 1 .. WORDS |-> Data(c, l - c.lba, k)]

\* sec_num is cut to the size of the buffer in ata_read_sector, which returns at
\* once if nothing is left; ata_write_sector does neither.
Cut(op, num, size) == IF op = "read" /\ size < num THEN size ELSE num

Call(op, lba, num, size) ==
  /\ mode = "run" /\ Returned /\ call.nb < MaxOps
  /\ op \in {"read", "write"} => lba + num <= NSectors
  /\ op \notin {"read", "write"} => lba = 0 /\ num = 1 /\ size = 1
  /\ LET n == Cut(op, num, size) IN
       /\ call' = [call EXCEPT !.op = op, !.lba = lba, !.num = n, !.size = size,
                            !.nb = @ + 1]
       /\ pos' = IF op = "read" /\ n = 0 THEN Done ELSE Part("begin", 0, 0)
       /\ buf' = [i \in 0 .. n - 1 |-> <<>>]
  /\ UNCHANGED <<drive, media, cache, want, dev, mode>>

Panic == mode' = "panic" /\ pos' = Done
Go ==
  /\ mode' = mode
  /\ pos' = IF pos.n < Len(Program(call.op)[pos.s]) THEN [pos EXCEPT !.n = @ + 1] ELSE Following
Again == UNCHANGED <<pos, mode>>

\* A mutant of PollBsy: it also waits for the DRQ asked for.
PollBsy_drq ==
  /\ Access = "bsy" /\ drive' = Read
  /\ IF SeenBsy \/ (Program(call.op)[pos.s][pos.n + 1] = "drq1" /\ ~drive.drq) THEN Again ELSE Go
  /\ UNCHANGED <<buf, dev>>
\* ata_poll_bsy: the loop on the status register, then the alternate status.
PollBsy ==
  /\ Access = "bsy" /\ drive' = Read
  /\ IF SeenBsy THEN Again ELSE Go
  /\ UNCHANGED <<buf, dev>>
\* A mutant of PollErr: the error bits are not looked at.
PollErr_blind ==
  /\ Access \in {"err", "drq0", "drq1"} /\ drive' = Read
  /\ Go
  /\ UNCHANGED <<buf, dev>>
PollErr ==
  /\ Access \in {"err", "drq0", "drq1"} /\ drive' = Read
  /\ IF SeenErr THEN Panic ELSE Go
  /\ UNCHANGED <<buf, dev>>

ata_poll_drdy ==
  /\ Access = "drdy" /\ drive' = Read
  /\ IF drive.ready THEN Go ELSE Again
  /\ UNCHANGED <<buf, dev>>

\* An alternate status read whose result is ignored; the status ata_detect tests.
Ignore == Access = "alt" /\ drive' = Read /\ Go /\ UNCHANGED <<buf, dev>>
Status ==
  /\ Access = "status" /\ drive' = Read
  /\ IF drive.ready \/ SeenBsy \/ drive.drq THEN Go ELSE Panic
  /\ UNCHANGED <<buf, dev>>

SendCommand ==
  /\ Access \in {"READ", "WRITE", "FLUSH", "IDENTIFY", "SRST"}
  /\ drive' = Command(Access) /\ Go
  /\ UNCHANGED <<buf, dev>>

\* inw and outw; i counts the sectors of the buffer.
InWord ==
  /\ Access = "inw"
  /\ buf' = [buf EXCEPT ![pos.i] = Append(@, Word)]
  /\ drive' = Moved(<<>>) /\ Go
  /\ UNCHANGED dev
OutWord ==
  /\ Access = "outw"
  /\ LET word == Data(call, pos.i, pos.k + 1)
     IN  /\ buf' = [buf EXCEPT ![pos.i] = Append(@, word)]
         /\ drive' = Moved(Append(drive.data, word))
  /\ Go
  /\ UNCHANGED dev

Parse ==
  /\ Access = "parse"
  /\ \E id \in Idents :
       IF Acceptable(id) THEN dev' = [id |-> id, lba_num |-> lba_num(id)] /\ Go
       ELSE Panic /\ UNCHANGED dev
  /\ UNCHANGED <<drive, buf>>

\* One access; the last one of a write makes its sectors the ones wanted.
Step ==
  /\ mode = "run" /\ ~Returned
  /\ \/ PollBsy \/ PollErr \/ ata_poll_drdy \/ Ignore \/ Status \/ SendCommand
     \/ InWord \/ OutWord \/ Parse
  /\ want' = IF pos'.s = "none" /\ mode' = "run" /\ call.op = "write"
             THEN [l \in LBA |-> IF l \in Sectors(call) THEN SectorOf(call, l) ELSE want[l]]
             ELSE want
  /\ UNCHANGED <<media, cache, call>>

Old == [l \in LBA |-> [k \in 1 .. WORDS |-> <<0, l, k>>]]

Init ==
  /\ drive = [Idle EXCEPT !.ready = FALSE]
  /\ media = Old /\ want = Old
  /\ cache = [l \in {} |-> <<>>]
  /\ pos = Done /\ buf = [i \in {} |-> <<>>] /\ dev = NULL /\ mode = "run"
  /\ \E lags \in Lags :
       call = [op |-> "none", lba |-> 0, num |-> 0, size |-> 0, nb |-> 0, lags |-> lags]

Next ==
  \/ \E op \in Ops, lba \in LBA, num, size \in 0 .. MaxNum : Call(op, lba, num, size)
  \/ Step
  \/ Finish \/ Fail \/ SpinUp \/ \E l \in LBA : Destage(l)

\* The kernel runs on while the driver polls, and the drive does the work it has.
Fairness == WF_vars(Step) /\ WF_vars(Finish \/ Fail) /\ WF_vars(SpinUp)

Spec == Init /\ [][Next]_vars /\ Fairness

-----------------------------------------------------------------------------

Running == mode = "run" /\ ~Returned
Succeeded == mode = "run" /\ Returned

Sector == [1 .. WORDS -> (0 .. MaxOps) \X Nat \X Nat]

\* Every variable has its type.
TypeOK ==
  /\ drive.w \in 0 .. WORDS - 1 /\ drive.left \in 0 .. COUNT
  /\ drive.bsy => ~drive.drq
  /\ media \in [LBA -> Sector] /\ want \in [LBA -> Sector]
  /\ DOMAIN cache \subseteq LBA /\ \A l \in DOMAIN cache : cache[l] \in Sector
  /\ pos.s \in {"none", "begin", "sector", "word", "end"}
  /\ mode \in {"run", "panic"}

\* The driver and the drive never get out of step: in every sector that SECCOUNT told
\* the drive of, the driver touches the data port only while the drive has, or takes,
\* the very word the driver is at.  Each word is preceded by a poll; a lagging status
\* costs ata_read_sector nothing because it polls twice between two sectors (lines
\* 267 and 114).  A read stays inside a buffer of any size; a write, which does not
\* look at buf_size, inside the sec_num sectors it was asked for.
Lockstep ==
  /\ TypeOK
  /\ Running /\ Access \in {"inw", "outw"} =>
       /\ pos.i < Told(call) => drive.drq /\ ~drive.bsy /\ drive.w = pos.k
       /\ pos.i < call.num /\ (call.op = "read" => pos.i < call.size)
       /\ Len(buf[pos.i]) = pos.k /\ pos.k < WORDS

\* A read that returns has put in the buffer the sectors as the last writes that
\* returned left them: those SECCOUNT told the drive of, all of them up to 256.
ReadExact ==
  Succeeded /\ call.op = "read" => \A i \in 0 .. Served(call) - 1 : buf[i] = want[call.lba + i]

\* A write is exact and durable: when ata_write_sector returns, its sectors (those
\* SECCOUNT told the drive of, none for a sec_num of 0) are on the media and the cache
\* is empty, so that a power cut loses nothing; and it touches its own sectors only,
\* whole sectors at a time, also while it is in progress and when it fails.
WritesExact ==
  /\ Succeeded /\ call.op = "write" => media = want /\ DOMAIN cache = {}
  /\ \A l \in LBA : Stored(l) # want[l] =>
       call.op = "write" /\ l \in Sectors(call) /\ Stored(l) = SectorOf(call, l)

\* An operation the drive failed does not return: the polls see the error.
FailuresPanic == Succeeded => ~drive.err

\* Every call ends, by returning or by panic.
CallsEnd == Running ~> ~Running

=============================================================================
