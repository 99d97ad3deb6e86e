----------------------------- MODULE AtaProofs -----------------------------
(***************************************************************************)
(* Proofs about Ata, for drives and sectors of any size, a register        *)
(* SECCOUNT of any width, and any sequence of calls with any arguments     *)
(* that stay on the drive.  The inductive invariant says where in its      *)
(* command the drive is, for each access of the driver: the routines'      *)
(* texts, access by access, come first, then each kind of access and each  *)
(* step of the drive, and last what follows from the invariant.            *)
(***************************************************************************)
EXTENDS Ata, TLAPS

Item == ((0 .. MaxOps) \X Nat \X Nat) \cup {NULL}

Drives == [cmd : {"NONE", "READ", "WRITE", "FLUSH", "IDENTIFY", "SRST"},
           at : Nat, left : 0 .. COUNT, w : 0 .. WORDS - 1, data : Seq(Item),
           bsy : BOOLEAN, drq : BOOLEAN, err : BOOLEAN, lag : BOOLEAN, ready : BOOLEAN]
Places == [s : {"none", "begin", "sector", "word", "end"}, n : Nat, i : Nat, k : Nat]
Calls == [op : {"none", "read", "write", "detect", "reset"}, lba : Nat, num : 0 .. MaxNum,
          size : 0 .. MaxNum, nb : 0 .. MaxOps, lags : BOOLEAN]
Types ==
  /\ drive \in Drives
  /\ media \in [LBA -> Sector] /\ want \in [LBA -> Sector]
  /\ DOMAIN cache \subseteq LBA /\ cache \in [DOMAIN cache -> Sector]
  /\ pos \in Places /\ call \in Calls
  /\ buf \in [0 .. call.num - 1 -> Seq(Item)]
  /\ mode \in {"run", "panic"}

\* The arguments of a call, after the cut.
Arguments ==
  /\ call.op \in {"read", "write"} => call.lba + call.num <= NSectors
  /\ call.op \in {"detect", "reset"} => call.lba = 0 /\ call.num = 1
  /\ call.op = "read" => call.num <= call.size

\* The accesses there are; the counters of the loops.
Position ==
  Running =>
    /\ call.op # "none" /\ (call.op # "write" => call.num > 0)
    /\ pos.s = "begin" =>
         /\ pos.i = 0 /\ pos.k = 0
         /\ pos.n \in 1 .. (IF call.op = "detect" THEN 11 ELSE IF call.op = "reset" THEN 30 ELSE 8)
    /\ pos.s = "sector" =>
         /\ pos.i \in 1 .. call.num - 1 /\ pos.k = 0
         /\ call.op \in {"read", "write"}
         /\ pos.n \in 1 .. (IF call.op = "read" THEN 2 ELSE 3)
    /\ pos.s = "word" =>
         /\ pos.i \in 0 .. call.num - 1 /\ pos.k \in 0 .. Words(call.op) - 1
         /\ call.op # "reset"
         /\ pos.n \in 1 .. 3
    /\ pos.s = "end" =>
         /\ call.op \in {"write", "detect"}
         /\ pos.n \in 1 .. (IF call.op = "write" THEN 11 ELSE 5)

\* The status bits.
Bits ==
  /\ drive.bsy => ~drive.drq /\ ~drive.err
  /\ drive.drq => ~drive.err
  /\ drive.lag => drive.bsy
  /\ mode = "panic" => ~drive.bsy

\* The drive has failed, or is about to move word k of sector i.
Failed == drive = [Idle EXCEPT !.err = TRUE]
cmd(op) == CASE op = "read" -> "READ" [] op = "write" -> "WRITE" [] OTHER -> "IDENTIFY"
Moving(i, k) ==
  /\ drive.cmd = cmd(call.op) /\ drive.at = call.lba + i /\ drive.left = Told(call) - i
  /\ drive.w = k /\ (drive.bsy \/ drive.drq) /\ drive.ready

\* The drive is not working for the driver; ata_detect leaves half a sector in it.
Quiet == ~drive.bsy /\ ~drive.err /\ drive.cmd \in {"NONE", "IDENTIFY"}

\* What the drive is doing at each access.
PhaseSent ==
  /\ drive.lag => pos.n = 5
  /\ Failed \/ (Moving(0, 0) /\ drive.data = <<>>)
  /\ pos.n = 11 => ~drive.bsy
PhaseReset ==
  /\ drive.lag => pos.n = 6
  /\ Failed \/ drive = Idle \/ (drive.cmd = "SRST" /\ drive.bsy)
  /\ pos.n = 30 => ~drive.bsy
PhaseBegin ==
  /\ pos.n <= 4 \/ (pos.n = 5 /\ call.op = "reset") => Quiet
  /\ pos.n >= 5 /\ call.op # "reset" => PhaseSent
  /\ pos.n >= 6 /\ call.op = "reset" => PhaseReset

\* The drive has had, or given, the last word of the sectors it was told of.
Last ==
  \/ Failed \/ drive = Idle
  \/ /\ call.op = "write" /\ call.num > 0 /\ drive.cmd = "WRITE"
     /\ drive.at = call.lba + Told(call) /\ drive.left = 0 /\ drive.bsy

PhaseSector ==
  /\ IF pos.i < Told(call) THEN Failed \/ Moving(pos.i, 0) ELSE Last
  /\ drive.lag => pos.n = 1
  /\ call.op = "write" /\ pos.n = 3 => ~drive.bsy

PhaseWord ==
  /\ IF pos.i < Told(call) THEN Failed \/ Moving(pos.i, pos.k) ELSE drive = Idle
  /\ ~drive.lag
  /\ pos.n >= 2 => ~drive.bsy
  /\ pos.n = 3 /\ pos.i < Told(call) => drive.drq
  /\ call.op = "write" /\ (pos.i > 0 \/ pos.k > 0) => ~drive.bsy
  /\ call.op = "detect" => drive.drq

\* A write of no sectors: the drive waits for those it was told of.
Unused == call.num = 0 /\ Moving(0, 0) /\ drive.data = <<>>

PhaseEnd ==
  IF call.op = "detect" THEN Quiet
  ELSE /\ pos.n <= 3 =>
            /\ Last \/ Unused
            /\ drive.lag => pos.n = 1
            /\ pos.n = 3 => ~drive.bsy
       /\ pos.n \in {4, 5} => drive = Idle \/ (Unused /\ ~drive.bsy)
       /\ pos.n >= 6 =>
            /\ Failed \/ drive = Idle \/ (drive.cmd = "FLUSH" /\ drive.bsy)
            /\ drive.lag => pos.n = 6
            /\ pos.n = 11 => ~drive.bsy

Phase ==
  /\ Running /\ pos.s = "begin" => PhaseBegin
  /\ Running /\ pos.s = "sector" => PhaseSector
  /\ Running /\ pos.s = "word" => PhaseWord
  /\ Running /\ pos.s = "end" => PhaseEnd
  /\ Succeeded => Quiet

\* The buffer: the words moved so far, and for a read what they are.
Remaining ==
  \A j \in 0 .. call.num - 1 :
    j >= pos.i => Len(buf[j]) = IF j = pos.i /\ pos.s = "word" THEN pos.k ELSE 0
Arrived ==
  /\ \A j \in 0 .. pos.i - 1 : j < Told(call) => buf[j] = want[call.lba + j]
  /\ pos.s = "word" /\ pos.i < Told(call) =>
       \A m \in 1 .. pos.k : buf[pos.i][m] = want[call.lba + pos.i][m]
Complete == \A j \in 0 .. Served(call) - 1 : buf[j] = want[call.lba + j]
Filled ==
  /\ Running /\ pos.s # "end" => Remaining
  /\ Running /\ call.op = "read" => Arrived
  /\ Succeeded /\ call.op = "read" => Complete

\* The sectors: those the drive has taken, and the one it is taking.
Taken(n) ==
  \A l \in LBA : l \in call.lba .. call.lba + n - 1 => Stored(l) = SectorOf(call, l)
Receiving ==
  /\ Taken(Told(call) - drive.left)
  /\ Len(drive.data) = drive.w
  /\ \A m \in 1 .. drive.w : drive.data[m] = Data(call, Told(call) - drive.left, m)
Holding ==
  /\ Taken(Told(call) - drive.left - 1)
  /\ drive.data = SectorOf(call, drive.at - 1)
Past == pos.s = "end" \/ (pos.s \in {"sector", "word"} /\ pos.i >= Told(call))
Writing ==
  /\ drive.cmd = "WRITE" => IF drive.left = Told(call) \/ drive.drq THEN Receiving ELSE Holding
  /\ Past /\ ~drive.err /\ drive.cmd # "WRITE" => Taken(Served(call))
  /\ pos.s = "end" /\ pos.n >= 6 /\ drive = Idle => DOMAIN cache = {}
Disk ==
  /\ call.op # "write" \/ Succeeded => \A l \in LBA : Stored(l) = want[l]
  /\ \A l \in LBA : Stored(l) = want[l]
       \/ (call.op = "write" /\ l \in Sectors(call) /\ Stored(l) = SectorOf(call, l))
  /\ Running /\ call.op = "write" => Writing
  /\ Succeeded /\ call.op = "write" => media = want /\ DOMAIN cache = {}

IInv == Types /\ Arguments /\ Position /\ Bits /\ Phase /\ Filled /\ Disk


-----------------------------------------------------------------------------
(* The sectors told of: never more than the call has, all of them up to COUNT. *)

LEMMA Modulo ==
  ASSUME NEW n \in Nat, NEW K \in Nat \ {0}
  PROVE  /\ n % K \in 0 .. K - 1
         /\ n % K <= n
         /\ n < K => n % K = n
         /\ n = K => n % K = 0
         /\ n > 0 /\ n % K = 0 => K <= n
  <1> DEFINE q == n \div K
             r == n % K
  <1>1. q \in Int /\ r \in 0 .. K - 1 /\ n = K * q + r
    OBVIOUS
  <1> HIDE DEF q, r
  <1>2. q >= 0
    BY <1>1
  <1>3. r <= n
    BY <1>1, <1>2
  <1>4. n < K => r = n
    BY <1>1, <1>2
  <1>5. n = K => r = 0
    BY <1>1, <1>2
  <1>6. n > 0 /\ r = 0 => K <= n
    BY <1>1, <1>2
  <1> QED
    BY Zenon, <1>1, <1>3, <1>4, <1>5, <1>6 DEF r

LEMMA ToldBounds ==
  ASSUME Types
  PROVE  /\ Told(call) \in 1 .. COUNT /\ Told(call) \in Nat
         /\ call.num > 0 => Told(call) <= call.num
         /\ call.num > 0 => Served(call) = Told(call)
         /\ Served(call) \in 0 .. call.num
         /\ call.op \in {"read", "write"} /\ call.num <= COUNT => Served(call) = call.num
  <1> DEFINE T == Told(call)
             m == call.num % COUNT
  <1>1. call.num \in Nat /\ COUNT \in Nat \ {0}
    BY AtaAssumption DEF Types, Calls
  <1>2. /\ m \in 0 .. COUNT - 1 /\ m <= call.num
        /\ call.num < COUNT => m = call.num
        /\ call.num = COUNT => m = 0
        /\ call.num > 0 /\ m = 0 => COUNT <= call.num
    BY ONLY Zenon, <1>1, Modulo
  <1>3. T = IF call.op \notin {"read", "write"} THEN 1 ELSE IF m = 0 THEN COUNT ELSE m
    BY ONLY Zenon DEF Told
  <1>4. Served(call) = IF call.num = 0 THEN 0 ELSE T
    BY ONLY Zenon DEF Served
  <1> HIDE DEF T, m
  <1>5. T \in 1 .. COUNT /\ T \in Nat /\ (call.num > 0 => T <= call.num)
    BY ONLY <1>1, <1>2, <1>3
  <1>6. call.op \in {"read", "write"} /\ call.num > 0 /\ call.num <= COUNT => T = call.num
    BY ONLY <1>1, <1>2, <1>3
  <1>7. /\ call.num > 0 => Served(call) = T
        /\ Served(call) \in 0 .. call.num
        /\ call.op \in {"read", "write"} /\ call.num <= COUNT => Served(call) = call.num
    BY ONLY <1>1, <1>4, <1>5, <1>6
  <1> QED
    BY Zenon, <1>5, <1>7 DEF T

LEMMA Numbers ==
  ASSUME Types
  PROVE  /\ pos.i \in Nat /\ pos.k \in Nat
         /\ call.num \in Nat /\ call.lba \in Nat /\ call.nb \in 0 .. MaxOps
         /\ Told(call) \in Nat \ {0} /\ WORDS \in Nat \ {0} /\ drive.left \in Nat
  <1>1. Told(call) \in 1 .. COUNT /\ COUNT \in Nat /\ MaxNum \in Nat /\ WORDS \in Nat \ {0}
    BY Zenon, ToldBounds, AtaAssumption
  <1>2. pos.i \in Nat /\ pos.k \in Nat
    BY Zenon DEF Types, Places
  <1>3. call.num \in 0 .. MaxNum /\ call.lba \in Nat /\ call.nb \in 0 .. MaxOps
    BY Zenon DEF Types, Calls
  <1>4. drive.left \in 0 .. COUNT
    BY Zenon DEF Types, Drives
  <1>5. Told(call) \in Nat \ {0} /\ call.num \in Nat /\ drive.left \in Nat
    BY ONLY <1>1, <1>3, <1>4
  <1> QED
    BY ONLY Zenon, <1>1, <1>2, <1>3, <1>5

-----------------------------------------------------------------------------
(* The accesses of each function, and where each leads. *)

LEMMA ReadText ==
  /\ Program("read").begin = <<"bsy", "drq0", "drdy", "READ", "alt", "alt", "alt", "alt">>
  /\ Program("read").sector = <<"bsy", "drq1">>
  /\ Program("read").word = <<"bsy", "drq1", "inw">>
  /\ Program("read").end = <<>>
  BY DEF Program, ata_read_sector, ata_read_buffer, ata_wait, poll

LEMMA WriteText ==
  /\ Program("write").begin = <<"bsy", "drq0", "drdy", "WRITE", "alt", "alt", "alt", "alt">>
  /\ Program("write").sector = <<"alt", "bsy", "drq1">>
  /\ Program("write").word = <<"bsy", "drq1", "outw">>
  /\ Program("write").end = <<"alt", "bsy", "drq0", "drdy", "FLUSH", "alt", "alt", "alt", "alt",
                              "bsy", "drq0">>
  BY DEF Program, ata_write_sector, ata_write_buffer, ata_wait, poll

LEMMA DetectText ==
  /\ Program("detect").begin = <<"bsy", "drq0", "drdy", "IDENTIFY", "alt", "alt", "alt", "alt",
                                 "status", "bsy", "drq0">>
  /\ Program("detect").sector = <<>>
  /\ Program("detect").word = <<"bsy", "drq1", "inw">>
  /\ Program("detect").end = <<"parse", "alt", "alt", "alt", "alt">>
  BY DEF Program, ata_detect, ata_read_buffer, ata_wait, poll

LEMMA ResetText ==
  /\ Len(Program("reset").begin) = 30
  /\ Program("reset").begin[1] = "bsy" /\ Program("reset").begin[2] = "err"
  /\ Program("reset").begin[3] = "bsy" /\ Program("reset").begin[4] = "err"
  /\ Program("reset").begin[5] = "SRST"
  /\ \A n \in 6 .. 27 : Program("reset").begin[n] = "alt"
  /\ Program("reset").begin[28] = "bsy"
  /\ Program("reset").begin[29] = "bsy" /\ Program("reset").begin[30] = "drq0"
  /\ Program("reset").sector = <<>> /\ Program("reset").word = <<>> /\ Program("reset").end = <<>>
  <1>1. Program("reset") = ata_soft_reset
    BY Zenon DEF Program
  <1> DEFINE text == ata_soft_reset.begin
  <1>2. /\ text = <<"bsy", "err", "bsy", "err", "SRST">> \o [k \in 1 .. 22 |-> "alt"]
                  \o <<"bsy">> \o <<"bsy", "drq0">>
        /\ ata_soft_reset.sector = <<>> /\ ata_soft_reset.word = <<>> /\ ata_soft_reset.end = <<>>
    BY DEF ata_soft_reset, poll
  <1> HIDE DEF text
  <1>3. Len(text) = 30
    BY ONLY <1>2
  <1>4. /\ text[1] = "bsy" /\ text[2] = "err" /\ text[3] = "bsy" /\ text[4] = "err"
        /\ text[5] = "SRST"
    BY ONLY <1>2
  <1>5. \A n \in 6 .. 27 : text[n] = "alt"
    BY DEF text, ata_soft_reset, poll
  <1>6. text[28] = "bsy" /\ text[29] = "bsy" /\ text[30] = "drq0"
    BY ONLY <1>2
  <1> QED
    BY ONLY ZenonT(30), <1>1, <1>2, <1>3, <1>4, <1>5, <1>6 DEF text

LEMMA ReadControl ==
  ASSUME Types, Position, Running, call.op = "read"
  PROVE  /\ pos.s = "begin" =>
              /\ Access = <<"bsy", "drq0", "drdy", "READ", "alt", "alt", "alt", "alt">>[pos.n]
              /\ Go => pos' = IF pos.n < 8 THEN [pos EXCEPT !.n = pos.n + 1]
                              ELSE Part("word", 0, 0)
         /\ pos.s = "sector" =>
              /\ Access = <<"bsy", "drq1">>[pos.n]
              /\ Go => pos' = IF pos.n < 2 THEN [pos EXCEPT !.n = pos.n + 1]
                              ELSE Part("word", pos.i, 0)
         /\ pos.s = "word" =>
              /\ Access = <<"bsy", "drq1", "inw">>[pos.n]
              /\ Go => pos' = IF pos.n < 3 THEN [pos EXCEPT !.n = pos.n + 1]
                              ELSE IF pos.k + 1 < WORDS THEN Part("word", pos.i, pos.k + 1)
                              ELSE IF pos.i + 1 < call.num THEN Part("sector", pos.i + 1, 0)
                              ELSE Done
  <1> DEFINE P == Program("read")
  <1>1. Len(P.begin) = 8 /\ Len(P.sector) = 2 /\ Len(P.word) = 3 /\ Len(P.end) = 0
    BY Zenon, ReadText
  <1>2. P.sector # <<>> /\ P.word # <<>> /\ P.end = <<>>
    <2>1. <<"bsy", "drq1">> # <<>>
      BY Zenon
    <2>2. <<"bsy", "drq1", "inw">> # <<>>
      BY Zenon
    <2> QED
      BY ONLY <2>1, <2>2, ReadText, Zenon
  <1>3. Program(call.op) = P /\ Words(call.op) = WORDS
    BY Zenon DEF Words
  <1>4. CASE pos.s = "begin"
    <2>1. Program(call.op)[pos.s] = P.begin /\ Len(Program(call.op)[pos.s]) = 8
      BY Zenon, <1>1, <1>3, <1>4
    <2>2. P.begin = <<"bsy", "drq0", "drdy", "READ", "alt", "alt", "alt", "alt">>
      BY Zenon, ReadText
    <2> HIDE DEF P
    <2>3. call.num # 0
      BY DEF Position, Types, Calls
    <2>4. Following = Part("word", 0, 0)
      BY ONLY Zenon, <1>2, <1>3, <1>4, <2>3 DEF Following, FirstWord
    <2> QED
      BY ONLY Zenon, <1>4, <2>1, <2>2, <2>4 DEF Go, Access
  <1>5. CASE pos.s = "sector"
    <2>1. Program(call.op)[pos.s] = P.sector /\ Len(Program(call.op)[pos.s]) = 2
      BY Zenon, <1>1, <1>3, <1>5
    <2>2. P.sector = <<"bsy", "drq1">>
      BY Zenon, ReadText
    <2> HIDE DEF P
    <2>3. Following = Part("word", pos.i, 0)
      BY ONLY Zenon, <1>2, <1>3, <1>5 DEF Following, FirstWord
    <2> QED
      BY ONLY Zenon, <1>5, <2>1, <2>2, <2>3 DEF Go, Access
  <1>6. CASE pos.s = "word"
    <2>1. Program(call.op)[pos.s] = P.word /\ Len(Program(call.op)[pos.s]) = 3
      BY Zenon, <1>1, <1>3, <1>6
    <2>2. P.word = <<"bsy", "drq1", "inw">>
      BY Zenon, ReadText
    <2> HIDE DEF P
    <2>3. Following = IF pos.k + 1 < WORDS THEN Part("word", pos.i, pos.k + 1)
                      ELSE IF pos.i + 1 < call.num THEN Part("sector", pos.i + 1, 0)
                      ELSE Done
      BY ONLY Zenon, <1>2, <1>3, <1>6 DEF Following, NextSector, Ending, FirstWord
    <2> QED
      BY ONLY Zenon, <1>6, <2>1, <2>2, <2>3 DEF Go, Access
  <1> QED
    BY ONLY Zenon, <1>4, <1>5, <1>6

LEMMA WriteControl ==
  ASSUME Types, Position, Running, call.op = "write"
  PROVE  /\ pos.s = "begin" =>
              /\ Access = <<"bsy", "drq0", "drdy", "WRITE", "alt", "alt", "alt", "alt">>[pos.n]
              /\ Go => pos' = IF pos.n < 8 THEN [pos EXCEPT !.n = pos.n + 1]
                              ELSE IF call.num = 0 THEN Part("end", 0, 0)
                              ELSE Part("word", 0, 0)
         /\ pos.s = "sector" =>
              /\ Access = <<"alt", "bsy", "drq1">>[pos.n]
              /\ Go => pos' = IF pos.n < 3 THEN [pos EXCEPT !.n = pos.n + 1]
                              ELSE Part("word", pos.i, 0)
         /\ pos.s = "word" =>
              /\ Access = <<"bsy", "drq1", "outw">>[pos.n]
              /\ Go => pos' = IF pos.n < 3 THEN [pos EXCEPT !.n = pos.n + 1]
                              ELSE IF pos.k + 1 < WORDS THEN Part("word", pos.i, pos.k + 1)
                              ELSE IF pos.i + 1 < call.num THEN Part("sector", pos.i + 1, 0)
                              ELSE Part("end", 0, 0)
         /\ pos.s = "end" =>
              /\ Access = <<"alt", "bsy", "drq0", "drdy", "FLUSH", "alt", "alt", "alt",
                          "alt", "bsy", "drq0">>[pos.n]
              /\ Go => pos' = IF pos.n < 11 THEN [pos EXCEPT !.n = pos.n + 1]
                              ELSE Done
  <1> DEFINE P == Program("write")
  <1>1. Len(P.begin) = 8 /\ Len(P.sector) = 3 /\ Len(P.word) = 3 /\ Len(P.end) = 11
    BY Zenon, WriteText
  <1>2. P.sector # <<>> /\ P.word # <<>> /\ P.end # <<>>
    <2>1. <<"alt", "bsy", "drq1">> # <<>>
      BY Zenon
    <2>2. <<"bsy", "drq1", "outw">> # <<>>
      BY Zenon
    <2>3. <<"alt", "bsy", "drq0", "drdy", "FLUSH", "alt", "alt", "alt", "alt", "bsy", "drq0">> # <<>>
      BY Zenon
    <2> QED
      BY ONLY <2>1, <2>2, <2>3, WriteText, Zenon
  <1>3. Program(call.op) = P /\ Words(call.op) = WORDS
    BY Zenon DEF Words
  <1>4. CASE pos.s = "begin"
    <2>1. Program(call.op)[pos.s] = P.begin /\ Len(Program(call.op)[pos.s]) = 8
      BY Zenon, <1>1, <1>3, <1>4
    <2>2. P.begin = <<"bsy", "drq0", "drdy", "WRITE", "alt", "alt", "alt", "alt">>
      BY Zenon, WriteText
    <2> HIDE DEF P
    <2>3. Following = IF call.num = 0 THEN Part("end", 0, 0) ELSE Part("word", 0, 0)
      BY ONLY Zenon, <1>2, <1>3, <1>4 DEF Following, FirstWord, Ending
    <2> QED
      BY ONLY Zenon, <1>4, <2>1, <2>2, <2>3 DEF Go, Access
  <1>5. CASE pos.s = "sector"
    <2>1. Program(call.op)[pos.s] = P.sector /\ Len(Program(call.op)[pos.s]) = 3
      BY Zenon, <1>1, <1>3, <1>5
    <2>2. P.sector = <<"alt", "bsy", "drq1">>
      BY Zenon, WriteText
    <2> HIDE DEF P
    <2>3. Following = Part("word", pos.i, 0)
      BY ONLY Zenon, <1>2, <1>3, <1>5 DEF Following, FirstWord
    <2> QED
      BY ONLY Zenon, <1>5, <2>1, <2>2, <2>3 DEF Go, Access
  <1>6. CASE pos.s = "word"
    <2>1. Program(call.op)[pos.s] = P.word /\ Len(Program(call.op)[pos.s]) = 3
      BY Zenon, <1>1, <1>3, <1>6
    <2>2. P.word = <<"bsy", "drq1", "outw">>
      BY Zenon, WriteText
    <2> HIDE DEF P
    <2>3. Following = IF pos.k + 1 < WORDS THEN Part("word", pos.i, pos.k + 1)
                      ELSE IF pos.i + 1 < call.num THEN Part("sector", pos.i + 1, 0)
                      ELSE Part("end", 0, 0)
      BY ONLY Zenon, <1>2, <1>3, <1>6 DEF Following, NextSector, Ending, FirstWord
    <2> QED
      BY ONLY Zenon, <1>6, <2>1, <2>2, <2>3 DEF Go, Access
  <1>7. CASE pos.s = "end"
    <2>1. Program(call.op)[pos.s] = P.end /\ Len(Program(call.op)[pos.s]) = 11
      BY Zenon, <1>1, <1>3, <1>7
    <2>2. P.end = <<"alt", "bsy", "drq0", "drdy", "FLUSH", "alt", "alt", "alt",
              "alt", "bsy", "drq0">>
      BY Zenon, WriteText
    <2> HIDE DEF P
    <2>3. Following = Done
      BY ONLY Zenon, <1>2, <1>3, <1>7 DEF Following
    <2> QED
      BY ONLY Zenon, <1>7, <2>1, <2>2, <2>3 DEF Go, Access
  <1> QED
    BY ONLY Zenon, <1>4, <1>5, <1>6, <1>7

LEMMA DetectControl ==
  ASSUME Types, Arguments, Position, Running, call.op = "detect"
  PROVE  /\ pos.s = "begin" =>
              /\ Access = <<"bsy", "drq0", "drdy", "IDENTIFY", "alt", "alt", "alt", "alt",
                          "status", "bsy", "drq0">>[pos.n]
              /\ Go => pos' = IF pos.n < 11 THEN [pos EXCEPT !.n = pos.n + 1]
                              ELSE Part("word", 0, 0)
         /\ pos.s = "word" =>
              /\ Access = <<"bsy", "drq1", "inw">>[pos.n]
              /\ Go => pos' = IF pos.n < 3 THEN [pos EXCEPT !.n = pos.n + 1]
                              ELSE IF pos.k + 1 < WORDS \div 2 THEN Part("word", pos.i, pos.k + 1)
                              ELSE Part("end", 0, 0)
         /\ pos.s = "end" =>
              /\ Access = <<"parse", "alt", "alt", "alt", "alt">>[pos.n]
              /\ Go => pos' = IF pos.n < 5 THEN [pos EXCEPT !.n = pos.n + 1]
                              ELSE Done
  <1> DEFINE P == Program("detect")
  <1>1. Len(P.begin) = 11 /\ Len(P.sector) = 0 /\ Len(P.word) = 3 /\ Len(P.end) = 5
    BY Zenon, DetectText
  <1>2. P.sector = <<>> /\ P.word # <<>> /\ P.end # <<>>
    <2>1. <<"bsy", "drq1", "inw">> # <<>>
      BY Zenon
    <2>2. <<"parse", "alt", "alt", "alt", "alt">> # <<>>
      BY Zenon
    <2> QED
      BY ONLY <2>1, <2>2, DetectText, Zenon
  <1>3. Program(call.op) = P /\ Words(call.op) = WORDS \div 2
    BY Zenon DEF Words
  <1>4. CASE pos.s = "begin"
    <2>1. Program(call.op)[pos.s] = P.begin /\ Len(Program(call.op)[pos.s]) = 11
      BY Zenon, <1>1, <1>3, <1>4
    <2>2. P.begin = <<"bsy", "drq0", "drdy", "IDENTIFY", "alt", "alt", "alt", "alt",
              "status", "bsy", "drq0">>
      BY Zenon, DetectText
    <2> HIDE DEF P
    <2>3. call.num # 0
      BY DEF Position, Types, Calls
    <2>4. Following = Part("word", 0, 0)
      BY ONLY Zenon, <1>2, <1>3, <1>4, <2>3 DEF Following, FirstWord
    <2> QED
      BY ONLY Zenon, <1>4, <2>1, <2>2, <2>4 DEF Go, Access
  <1>5. CASE pos.s = "word"
    <2>1. Program(call.op)[pos.s] = P.word /\ Len(Program(call.op)[pos.s]) = 3
      BY Zenon, <1>1, <1>3, <1>5
    <2>2. P.word = <<"bsy", "drq1", "inw">>
      BY Zenon, DetectText
    <2>3. ~(pos.i + 1 < call.num)
      BY <1>5 DEF Position, Arguments, Types, Places, Calls
    <2> HIDE DEF P
    <2>4. Following = IF pos.k + 1 < WORDS \div 2 THEN Part("word", pos.i, pos.k + 1)
                      ELSE Part("end", 0, 0)
      BY ONLY Zenon, <1>2, <1>3, <1>5, <2>3 DEF Following, NextSector, Ending, FirstWord
    <2> QED
      BY ONLY Zenon, <1>5, <2>1, <2>2, <2>4 DEF Go, Access
  <1>6. CASE pos.s = "end"
    <2>1. Program(call.op)[pos.s] = P.end /\ Len(Program(call.op)[pos.s]) = 5
      BY Zenon, <1>1, <1>3, <1>6
    <2>2. P.end = <<"parse", "alt", "alt", "alt", "alt">>
      BY Zenon, DetectText
    <2> HIDE DEF P
    <2>3. Following = Done
      BY ONLY Zenon, <1>2, <1>3, <1>6 DEF Following
    <2> QED
      BY ONLY Zenon, <1>6, <2>1, <2>2, <2>3 DEF Go, Access
  <1> QED
    BY ONLY Zenon, <1>4, <1>5, <1>6


LEMMA ResetControl ==
  ASSUME Types, Position, Running, call.op = "reset"
  PROVE  /\ pos.s = "begin"
         /\ pos.n \in {1, 3, 28, 29} => Access = "bsy"
         /\ pos.n \in {2, 4} => Access = "err"
         /\ pos.n = 5 => Access = "SRST"
         /\ pos.n \in 6 .. 27 => Access = "alt"
         /\ pos.n = 30 => Access = "drq0"
         /\ Go => pos' = IF pos.n < 30 THEN [pos EXCEPT !.n = pos.n + 1] ELSE Done
  <1>1. pos.s = "begin"
    BY Zenon DEF Types, Places, Position, Running, Returned
  <1>2. /\ Program(call.op)[pos.s] = Program("reset").begin
        /\ Program(call.op).word = <<>> /\ Program(call.op).end = <<>>
    BY Zenon, <1>1, ResetText
  <1>3. Following = Done
    BY ONLY Zenon, <1>1, <1>2 DEF Following, FirstWord, Ending
  <1>4. Access = Program("reset").begin[pos.n]
    BY ONLY Zenon, <1>2 DEF Access
  <1> DEFINE text == Program("reset").begin
  <1>5. Len(text) = 30 /\ Program(call.op)[pos.s] = text
    BY ONLY Zenon, <1>2, ResetText
  <1>6. /\ pos.n \in {1, 3, 28, 29} => text[pos.n] = "bsy"
        /\ pos.n \in {2, 4} => text[pos.n] = "err"
        /\ pos.n = 5 => text[pos.n] = "SRST"
        /\ pos.n = 30 => text[pos.n] = "drq0"
    BY ONLY ZenonT(30), ResetText
  <1>7. pos.n \in 6 .. 27 => text[pos.n] = "alt"
    BY ONLY Zenon, ResetText
  <1> HIDE DEF text
  <1>8. Go => pos' = IF pos.n < 30 THEN [pos EXCEPT !.n = pos.n + 1] ELSE Done
    BY ONLY Zenon, <1>3, <1>5 DEF Go
  <1> QED
    BY ONLY Zenon, <1>1, <1>4, <1>6, <1>7, <1>8 DEF text

\* The loops stay within their bounds.
LEMMA GoPosition ==
  ASSUME Types, Arguments, Position, Running, Go, UNCHANGED call
  PROVE  Position' /\ pos' \in Places /\ mode' = "run"
  <1>1. mode' = "run" /\ mode = "run" /\ pos.s # "none"
    BY Zenon DEF Running, Returned, Go
  <1>2. /\ call.op \in {"read", "write", "detect", "reset"} /\ call.num \in Nat
        /\ call.op # "write" => call.num > 0
    BY AtaAssumption DEF Position, Types, Calls
  <1>3. pos \in Places /\ WORDS \in Nat \ {0} /\ WORDS \div 2 \in Nat \ {0}
    BY AtaAssumption DEF Types
  <1>4. CASE call.op = "read"
    <2>1. CASE pos.s = "begin"
      BY <1>1, <1>2, <1>3, <1>4, <2>1, ReadControl DEF Position, Running, Returned, Part, Places, Words
    <2>2. CASE pos.s = "sector"
      BY <1>1, <1>2, <1>3, <1>4, <2>2, ReadControl DEF Position, Running, Returned, Part, Places, Words
    <2>3. CASE pos.s = "word"
      BY <1>1, <1>2, <1>3, <1>4, <2>3, ReadControl
         DEF Position, Running, Returned, Part, Done, Places, Words
    <2> QED
      BY Zenon, <1>1, <1>3, <1>4, <2>1, <2>2, <2>3 DEF Position, Places
  <1>5. CASE call.op = "write"
    <2>1. CASE pos.s = "begin"
      BY <1>1, <1>2, <1>3, <1>5, <2>1, WriteControl DEF Position, Running, Returned, Part, Places, Words
    <2>2. CASE pos.s = "sector"
      BY SMTT(30), <1>1, <1>2, <1>3, <1>5, <2>2, WriteControl DEF Position, Running, Returned, Part, Places, Words
    <2>3. CASE pos.s = "word"
      BY <1>1, <1>2, <1>3, <1>5, <2>3, WriteControl
         DEF Position, Running, Returned, Part, Places, Words
    <2>4. CASE pos.s = "end"
      BY SMTT(30), <1>1, <1>2, <1>3, <1>5, <2>4, WriteControl DEF Position, Running, Returned, Done, Places
    <2> QED
      BY Zenon, <1>1, <1>3, <1>5, <2>1, <2>2, <2>3, <2>4 DEF Places
  <1>6. CASE call.op = "detect"
    <2>1. CASE pos.s = "begin"
      BY <1>1, <1>2, <1>3, <1>6, <2>1, DetectControl DEF Position, Running, Returned, Part, Places, Words
    <2>2. CASE pos.s = "word"
      BY <1>1, <1>2, <1>3, <1>6, <2>2, DetectControl
         DEF Position, Running, Returned, Part, Places, Words
    <2>3. CASE pos.s = "end"
      BY <1>1, <1>2, <1>3, <1>6, <2>3, DetectControl DEF Position, Running, Returned, Done, Places
    <2> QED
      BY Zenon, <1>1, <1>3, <1>6, <2>1, <2>2, <2>3 DEF Position, Places
  <1>7. CASE call.op = "reset"
    BY <1>1, <1>2, <1>3, <1>7, ResetControl DEF Position, Running, Returned, Done, Places
  <1> QED
    BY ONLY Zenon, <1>2, <1>4, <1>5, <1>6, <1>7

\* Reading the status register changes nothing but the lag.
LEMMA ReadFields ==
  ASSUME Types, drive' = Read
  PROVE  /\ drive' \in Drives
         /\ drive'.cmd = drive.cmd /\ drive'.at = drive.at /\ drive'.left = drive.left
         /\ drive'.w = drive.w /\ drive'.data = drive.data
         /\ drive'.bsy = drive.bsy /\ drive'.drq = drive.drq /\ drive'.err = drive.err
         /\ drive'.lag = FALSE /\ drive'.ready = drive.ready
         /\ ~drive.lag => drive' = drive
  <1>1. drive \in Drives
    BY Zenon DEF Types
  <1> QED
    BY Zenon, <1>1 DEF Read, Drives


LEMMA ReadKeeps ==
  ASSUME Types, drive' = Read, UNCHANGED call
  PROVE  /\ Failed => Failed' /\ ~drive.bsy /\ drive.err
         /\ drive = Idle => drive' = Idle /\ ~drive.bsy /\ ~drive.err /\ drive.cmd = "NONE"
         /\ Quiet => Quiet'
         /\ \A i, k : Moving(i, k) => Moving(i, k)'
         /\ Last => Last'
         /\ Unused => Unused'
  <1>1. Failed => drive.lag = FALSE /\ ~drive.bsy /\ drive.err
    BY Zenon DEF Failed, Idle
  <1>2. drive = Idle => drive.lag = FALSE /\ ~drive.bsy /\ ~drive.err /\ drive.cmd = "NONE"
    BY DEF Idle
  <1>3. /\ Failed => Failed' /\ ~drive.bsy /\ drive.err
        /\ drive = Idle => drive' = Idle /\ ~drive.bsy /\ ~drive.err /\ drive.cmd = "NONE"
        /\ Quiet => Quiet'
        /\ \A i, k : Moving(i, k) => Moving(i, k)'
    BY Zenon, <1>1, <1>2, ReadFields DEF Failed, Quiet, Moving
  <1>4. Last => Last'
    BY Zenon, <1>3, ReadFields DEF Last
  <1>5. Unused => Unused'
    BY Zenon, <1>3, ReadFields DEF Unused
  <1> QED
    BY ONLY Zenon, <1>3, <1>4, <1>5

\* An access that reads the status, and does not end the loop of ata_poll_bsy or
\* panic unless it is to.
Polled ==
  /\ Access \in {"bsy", "err", "drq0", "drq1", "drdy", "alt", "status"}
  /\ Access = "bsy" => ~SeenBsy
  /\ Access \in {"err", "drq0", "drq1"} => ~SeenErr

\* The accesses before the first word, of all but ata_soft_reset.
LEMMA BeginPhase ==
  ASSUME Types, PhaseBegin, call.op # "reset", drive' = Read, UNCHANGED call,
         pos.n \in 1 .. 10, pos.n # 4, pos'.n = pos.n + 1, pos.n = 10 => ~drive.bsy
  PROVE  PhaseBegin'
  <1>1. CASE pos.n < 4
    <2>1. Quiet'
      BY <1>1, ReadKeeps DEF PhaseBegin, PhaseSent, PhaseReset
    <2>2. pos'.n \in Nat /\ pos'.n <= 4 /\ call'.op # "reset"
      BY <1>1
    <2> QED
      BY ONLY <2>1, <2>2 DEF PhaseBegin, PhaseSent, PhaseReset
  <1>2. CASE pos.n > 4
    <2>1. Failed \/ (Moving(0, 0) /\ drive.data = <<>>)
      BY <1>2 DEF PhaseBegin, PhaseSent, PhaseReset
    <2>2. Failed' \/ (Moving(0, 0)' /\ drive'.data = <<>>)
      BY Zenon, <2>1, ReadKeeps, ReadFields
    <2>3. pos'.n \in Nat /\ pos'.n > 4 /\ call'.op # "reset"
      BY <1>2
    <2>4. ~drive'.lag
      BY Zenon, ReadFields
    <2>5. pos'.n = 11 => ~drive'.bsy
      BY ReadFields
    <2> QED
      BY ONLY <2>2, <2>3, <2>4, <2>5 DEF PhaseBegin, PhaseSent, PhaseReset
  <1> QED
    BY ONLY <1>1, <1>2, pos.n \in 1 .. 10, pos.n # 4

\* The last access of a begin, and those between two sectors.
LEMMA FirstPhase ==
  ASSUME Types, PhaseSent, drive' = Read, UNCHANGED call, call.op \in {"read", "write"},
         pos' = Part("word", 0, 0)
  PROVE  PhaseWord'
  <1>1. Failed' \/ Moving(0, 0)'
    BY Zenon, ReadKeeps DEF PhaseSent
  <1>2. 0 < Told(call)'
    BY ToldBounds
  <1>3. ~drive'.lag /\ call'.op # "detect"
    BY Zenon, ReadFields
  <1>4. pos'.n = 1 /\ pos'.i = 0 /\ pos'.k = 0
    BY ONLY Zenon, pos' = Part("word", 0, 0) DEF Part
  <1> QED
    BY ONLY <1>1, <1>2, <1>3, <1>4 DEF PhaseWord

LEMMA BetweenPhase ==
  ASSUME Types, PhaseSector, drive' = Read, UNCHANGED call, pos'.i = pos.i
  PROVE  IF pos'.i < Told(call)' THEN Failed' \/ Moving(pos.i, 0)' ELSE Last'
  BY Zenon, ReadKeeps DEF PhaseSector

LEMMA NextPhase ==
  ASSUME Types, PhaseSector, drive' = Read, UNCHANGED call, call.op \in {"read", "write"},
         pos' = Part("word", pos.i, 0), ~SeenErr, drive.bsy => call.op = "read" /\ ~drive.lag
  PROVE  PhaseWord'
  <1>1. pos'.n = 1 /\ pos'.i = pos.i /\ pos'.k = 0
    BY ONLY Zenon, pos' = Part("word", pos.i, 0) DEF Part
  <1>2. ~drive'.lag /\ call'.op # "detect" /\ (call'.op = "write" => ~drive'.bsy)
    BY Zenon, ReadFields
  <1>3. IF pos'.i < Told(call)' THEN Failed' \/ Moving(pos.i, 0)' ELSE drive' = Idle
    <2>1. Last => drive = Idle
      BY Zenon, ReadKeeps DEF Last, SeenErr, Failed, Idle
    <2> QED
      BY Zenon, <1>1, <2>1, ReadKeeps DEF PhaseSector
  <1>4. IF pos'.i < Told(call)' THEN Failed' \/ Moving(pos.i, pos.k)' ELSE drive' = Idle
    BY ONLY Zenon, <1>1, <1>3 DEF Moving
  <1> QED
    BY ONLY <1>1, <1>2, <1>4 DEF PhaseWord

LEMMA ReadPhase ==
  ASSUME IInv, Running, call.op = "read", drive' = Read, Polled, Go, UNCHANGED call
  PROVE  Phase'
  <1>1. Types /\ Position /\ Bits /\ Phase /\ pos \in Places
    BY Zenon DEF IInv, Types
  <1>2. mode' = "run"
    BY Zenon DEF Go, Running
  <1>3. CASE pos.s = "begin"
    <2>1. pos.n \in 1 .. 8 /\ PhaseBegin
      BY <1>1, <1>3, Zenon DEF Position, Phase
    <2>2. pos.n # 4
      BY <1>1, <1>3, ReadControl DEF Polled
    <2>3. CASE pos.n < 8
      <3>1. pos'.s = "begin" /\ pos'.n = pos.n + 1
        BY Zenon, <1>1, <1>3, <2>3, ReadControl DEF Places
      <3>2. PhaseBegin'
        BY <1>1, <2>1, <2>2, <2>3, <3>1, BeginPhase
      <3> QED
        BY ONLY Zenon, <1>2, <3>1, <3>2 DEF Phase, Running, Returned, Succeeded
    <2>4. CASE pos.n = 8
      <3>1. pos' = Part("word", 0, 0)
        BY <1>1, <1>3, <2>4, ReadControl
      <3>2. PhaseWord'
        <4>1. PhaseSent
          BY <2>1, <2>4 DEF PhaseBegin
        <4> QED
          BY Zenon, <1>1, <3>1, <4>1, FirstPhase
      <3> QED
        BY ONLY Zenon, <1>2, <3>1, <3>2 DEF Phase, Running, Returned, Succeeded, Part
    <2> QED
      BY ONLY <2>1, <2>3, <2>4
  <1>4. CASE pos.s = "sector"
    <2>1. pos.n \in {1, 2} /\ PhaseSector
      BY <1>1, <1>4 DEF Position, Phase
    <2>2. CASE pos.n = 1
      <3>1. pos'.s = "sector" /\ pos'.n = 2 /\ pos'.i = pos.i
        BY <1>1, <1>4, <2>2, ReadControl DEF Places
      <3>2. PhaseSector'
        <4>1. IF pos'.i < Told(call)' THEN Failed' \/ Moving(pos.i, 0)' ELSE Last'
          BY Zenon, <1>1, <2>1, <3>1, BetweenPhase
        <4>2. ~drive'.lag /\ call' = call
          BY Zenon, <1>1, ReadFields
        <4> QED
          BY Zenon, <3>1, <4>1, <4>2 DEF PhaseSector
      <3> QED
        BY ONLY Zenon, <1>2, <3>1, <3>2 DEF Phase, Running, Returned, Succeeded
    <2>3. CASE pos.n = 2
      <3>1. pos' = Part("word", pos.i, 0) /\ Access = "drq1"
        BY <1>1, <1>4, <2>3, ReadControl
      <3>2. PhaseWord'
        <4>1. ~SeenErr /\ ~drive.lag
          BY <2>1, <2>3, <3>1 DEF Polled, PhaseSector
        <4> QED
          BY Zenon, <1>1, <2>1, <3>1, <4>1, NextPhase
      <3> QED
        BY ONLY Zenon, <1>2, <3>1, <3>2 DEF Phase, Running, Returned, Succeeded, Part
    <2> QED
      BY ONLY Zenon, <2>1, <2>2, <2>3
  <1>5. CASE pos.s = "word"
    BY <1>1, <1>2, <1>5, ReadControl, ReadKeeps, ReadFields
       DEF Position, Bits, Phase, PhaseWord, Polled, SeenBsy, SeenErr, Running, Returned,
           Succeeded, Places, Moving
  <1> QED
    BY Zenon, <1>1, <1>3, <1>4, <1>5 DEF Position, Places, Running, Returned


LEMMA WritePhase ==
  ASSUME IInv, Running, call.op = "write", drive' = Read, Polled, Go, UNCHANGED call
  PROVE  Phase'
  <1>1. Types /\ Position /\ Bits /\ Phase /\ pos \in Places
    BY Zenon DEF IInv, Types
  <1>2. mode' = "run"
    BY Zenon DEF Go, Running
  <1>3. CASE pos.s = "begin"
    <2>1. pos.n \in 1 .. 8 /\ PhaseBegin
      BY <1>1, <1>3, Zenon DEF Position, Phase
    <2>2. pos.n # 4
      BY <1>1, <1>3, WriteControl DEF Polled
    <2>3. CASE pos.n < 8
      <3>1. pos'.s = "begin" /\ pos'.n = pos.n + 1
        BY Zenon, <1>1, <1>3, <2>3, WriteControl DEF Places
      <3>2. PhaseBegin'
        BY <1>1, <2>1, <2>2, <2>3, <3>1, BeginPhase
      <3> QED
        BY ONLY Zenon, <1>2, <3>1, <3>2 DEF Phase, Running, Returned, Succeeded
    <2>4. CASE pos.n = 8
      <3>1. PhaseSent
        BY <2>1, <2>4 DEF PhaseBegin
      <3>2. CASE call.num = 0
        <4>1. pos' = Part("end", 0, 0)
          BY <1>1, <1>3, <2>4, <3>2, WriteControl
        <4>2. pos'.s = "end" /\ pos'.n = 1
          BY ONLY Zenon, <4>1 DEF Part
        <4>3. Last' \/ Unused'
          BY Zenon, <1>1, <3>1, <3>2, ReadKeeps DEF PhaseSent, Last, Unused
        <4>4. ~drive'.lag /\ call'.op = "write"
          BY Zenon, <1>1, ReadFields
        <4>5. PhaseEnd'
          BY ONLY <4>2, <4>3, <4>4 DEF PhaseEnd
        <4> QED
          BY ONLY Zenon, <1>2, <4>2, <4>5 DEF Phase, Running, Returned, Succeeded
      <3>3. CASE call.num # 0
        <4>1. pos' = Part("word", 0, 0)
          BY <1>1, <1>3, <2>4, <3>3, WriteControl
        <4>2. PhaseWord'
          BY Zenon, <1>1, <3>1, <4>1, FirstPhase
        <4> QED
          BY ONLY Zenon, <1>2, <4>1, <4>2 DEF Phase, Running, Returned, Succeeded, Part
      <3> QED
        BY ONLY Zenon, <3>2, <3>3
    <2> QED
      BY ONLY <2>1, <2>3, <2>4
  <1>4. CASE pos.s = "sector"
    <2>1. pos.n \in {1, 2, 3} /\ PhaseSector
      BY <1>1, <1>4 DEF Position, Phase
    <2>2. CASE pos.n \in {1, 2}
      <3>1. pos'.s = "sector" /\ pos'.n = pos.n + 1 /\ pos'.i = pos.i
        BY <1>1, <1>4, <2>2, WriteControl DEF Places
      <3>2. pos.n = 2 => ~drive.bsy
        BY <1>1, <1>4, <2>1, WriteControl DEF Polled, SeenBsy, PhaseSector
      <3>3. PhaseSector'
        <4>1. IF pos'.i < Told(call)' THEN Failed' \/ Moving(pos.i, 0)' ELSE Last'
          BY Zenon, <1>1, <2>1, <3>1, BetweenPhase
        <4>2. ~drive'.lag /\ (pos.n = 2 => ~drive'.bsy)
          BY Zenon, <1>1, <3>2, ReadFields
        <4>3. pos'.n = 3 => pos.n = 2
          BY ONLY <2>2, <3>1
        <4> QED
          BY ONLY Zenon, <4>1, <4>2, <4>3 DEF PhaseSector
      <3> QED
        BY ONLY Zenon, <1>2, <3>1, <3>3 DEF Phase, Running, Returned, Succeeded
    <2>3. CASE pos.n = 3
      <3>1. pos' = Part("word", pos.i, 0) /\ Access = "drq1"
        BY <1>1, <1>4, <2>3, WriteControl
      <3>2. PhaseWord'
        <4>1. ~SeenErr /\ ~drive.bsy
          BY Zenon, <2>1, <2>3, <3>1 DEF Polled, PhaseSector
        <4> QED
          BY Zenon, <1>1, <2>1, <3>1, <4>1, NextPhase
      <3> QED
        BY ONLY Zenon, <1>2, <3>1, <3>2 DEF Phase, Running, Returned, Succeeded, Part
    <2> QED
      BY ONLY Zenon, <2>1, <2>2, <2>3
  <1>5. CASE pos.s = "word"
    <2>1. pos.n \in {1, 2} /\ PhaseWord
      BY <1>1, <1>5, WriteControl DEF Position, Phase, Polled
    <2>2. pos'.s = "word" /\ pos'.n = pos.n + 1 /\ pos'.i = pos.i /\ pos'.k = pos.k
      BY <1>1, <1>5, <2>1, WriteControl DEF Places
    <2>3. ~drive.bsy
      BY <1>1, <1>5, <2>1, WriteControl DEF Polled, SeenBsy, PhaseWord
    <2>4. pos.n = 2 /\ pos.i < Told(call) => drive.drq
      BY <1>1, <1>5, <2>1, <2>3, WriteControl, ReadKeeps
         DEF Polled, SeenErr, PhaseWord, Moving
    <2>5. PhaseWord'
      BY <1>1, <2>1, <2>2, <2>3, <2>4, ReadKeeps, ReadFields DEF PhaseWord
    <2> QED
      BY ONLY Zenon, <1>2, <2>2, <2>5 DEF Phase, Running, Returned, Succeeded
  <1>6. CASE pos.s = "end"
    <2>1. pos.n \in 1 .. 11 /\ PhaseEnd
      BY <1>1, <1>6, Zenon DEF Position, Phase
    <2>2. pos.n # 5 /\ (pos.n \in {2, 10} => ~SeenBsy) /\ (pos.n \in {3, 11} => ~SeenErr)
      BY <1>1, <1>6, WriteControl DEF Polled
    <2>3. CASE pos.n < 11
      <3>1. pos'.s = "end" /\ pos'.n = pos.n + 1
        BY Zenon, <1>1, <1>6, <2>3, WriteControl DEF Places
      <3>2. PhaseEnd'
        <4>1. call'.op = "write" /\ ~drive'.lag
          BY Zenon, <1>1, ReadFields
        <4>2. CASE pos.n \in {1, 2}
          <5>1. Last' \/ Unused'
            BY <1>1, <2>1, <4>2, ReadKeeps, ReadFields DEF PhaseEnd
          <5>2. pos'.n = 3 => ~drive'.bsy
            BY <1>1, <2>1, <2>2, <3>1, <4>2, ReadFields DEF PhaseEnd, SeenBsy
          <5> QED
            BY ONLY <3>1, <4>1, <4>2, <5>1, <5>2 DEF PhaseEnd
        <4>3. CASE pos.n \in {3, 4}
          <5>1. drive = Idle \/ (Unused /\ ~drive.bsy)
            BY <1>1, <2>1, <2>2, <4>3, ReadKeeps DEF PhaseEnd, SeenErr, Failed, Idle, Last
          <5>2. drive' = Idle \/ (Unused' /\ ~drive'.bsy)
            BY Zenon, <1>1, <5>1, ReadKeeps, ReadFields
          <5>3. pos'.n \in {4, 5}
            BY ONLY <3>1, <4>3
          <5> QED
            BY ONLY SMTT(30), <4>1, <5>2, <5>3 DEF PhaseEnd
        <4>4. CASE pos.n \in 6 .. 10
          <5>1. Failed' \/ drive' = Idle \/ (drive'.cmd = "FLUSH" /\ drive'.bsy)
            BY <1>1, <2>1, <4>4, ReadKeeps, ReadFields DEF PhaseEnd
          <5>2. pos'.n = 11 => ~drive'.bsy
            BY <1>1, <2>1, <2>2, <3>1, <4>4, ReadFields DEF PhaseEnd, SeenBsy
          <5> QED
            BY ONLY SMTT(30), <3>1, <4>1, <4>4, <5>1, <5>2 DEF PhaseEnd
        <4> QED
          BY ONLY <2>1, <2>2, <2>3, <4>2, <4>3, <4>4
      <3> QED
        BY ONLY Zenon, <1>2, <3>1, <3>2 DEF Phase, Running, Returned, Succeeded
    <2>4. CASE pos.n = 11
      <3>1. pos' = Done
        BY SMTT(30), <1>1, <1>6, <2>4, WriteControl
      <3>2. Quiet'
        BY <1>1, <2>1, <2>2, <2>4, ReadKeeps, ReadFields DEF PhaseEnd, SeenErr, Quiet
      <3> QED
        BY ONLY Zenon, <1>2, <3>1, <3>2 DEF Phase, Running, Returned, Succeeded, Done
    <2> QED
      BY ONLY <2>1, <2>3, <2>4
  <1> QED
    BY Zenon, <1>1, <1>3, <1>4, <1>5, <1>6 DEF Places, Running, Returned


LEMMA DetectPhase ==
  ASSUME IInv, Running, call.op = "detect", drive' = Read, Polled, Go, UNCHANGED call
  PROVE  Phase'
  <1>1. Types /\ Arguments /\ Position /\ Bits /\ Phase /\ pos \in Places
    BY Zenon DEF IInv, Types
  <1>2. mode' = "run"
    BY Zenon DEF Go, Running
  <1>3. CASE pos.s = "begin"
    <2>1. pos.n \in 1 .. 11 /\ PhaseBegin
      BY <1>1, <1>3, Zenon DEF Position, Phase
    <2>2. pos.n # 4 /\ (pos.n = 10 => ~SeenBsy) /\ (pos.n = 11 => ~SeenErr)
      BY <1>1, <1>3, DetectControl DEF Polled
    <2>3. CASE pos.n < 11
      <3>1. pos'.s = "begin" /\ pos'.n = pos.n + 1
        BY Zenon, <1>1, <1>3, <2>3, DetectControl DEF Places
      <3>2. pos.n = 10 => ~drive.bsy
        BY <2>1, <2>2 DEF PhaseBegin, PhaseSent, PhaseReset, SeenBsy
      <3>3. PhaseBegin'
        BY SMTT(30), <1>1, <2>1, <2>2, <2>3, <3>1, <3>2, BeginPhase
      <3> QED
        BY ONLY Zenon, <1>2, <3>1, <3>3 DEF Phase, Running, Returned, Succeeded
    <2>4. CASE pos.n = 11
      <3>1. pos' = Part("word", 0, 0)
        BY <1>1, <1>3, <2>4, DetectControl
      <3>2. ~drive.bsy /\ Moving(0, 0)
        BY <1>1, <2>1, <2>2, <2>4, ReadKeeps DEF PhaseBegin, PhaseSent, PhaseReset, SeenErr
      <3>3. Moving(0, 0)' /\ drive'.drq /\ ~drive'.lag /\ ~drive'.bsy
        BY Zenon, <1>1, <3>2, ReadKeeps, ReadFields DEF Moving
      <3>4. 0 < Told(call)'
        BY <1>1, ToldBounds
      <3>5. PhaseWord'
        BY ONLY Zenon, <3>1, <3>3, <3>4 DEF PhaseWord, Part
      <3> QED
        BY ONLY Zenon, <1>2, <3>1, <3>5 DEF Phase, Running, Returned, Succeeded, Part
    <2> QED
      BY ONLY <2>1, <2>3, <2>4
  <1>4. CASE pos.s = "word"
    <2>1. pos.n \in {1, 2} /\ PhaseWord
      BY <1>1, <1>4, DetectControl DEF Position, Phase, Polled
    <2>2. pos'.s = "word" /\ pos'.n = pos.n + 1 /\ pos'.i = pos.i /\ pos'.k = pos.k
      BY <1>1, <1>4, <2>1, DetectControl DEF Places
    <2>3. pos.i < Told(call)
      BY <1>1, <1>4, ToldBounds DEF Position, Arguments
    <2>4. drive.drq /\ ~drive.bsy /\ Moving(pos.i, pos.k)
      BY Zenon, <1>1, <2>1, <2>3, ReadKeeps DEF PhaseWord, Bits
    <2>5. PhaseWord'
      BY Zenon, <1>1, <2>1, <2>2, <2>3, <2>4, ReadKeeps, ReadFields DEF PhaseWord
    <2> QED
      BY ONLY Zenon, <1>2, <2>2, <2>5 DEF Phase, Running, Returned, Succeeded
  <1>5. CASE pos.s = "end"
    <2>1. Quiet' /\ pos.n \in 1 .. 5
      BY Zenon, <1>1, <1>5, ReadKeeps DEF Phase, PhaseEnd, Position
    <2>2. pos'.s \in {"end", "none"}
      BY <1>1, <1>5, DetectControl DEF Places, Done
    <2> QED
      BY Zenon, <1>2, <2>1, <2>2 DEF Phase, PhaseEnd, Running, Returned, Succeeded
  <1> QED
    BY Zenon, <1>1, <1>3, <1>4, <1>5 DEF Position, Places, Running, Returned

LEMMA ResetPhase ==
  ASSUME IInv, Running, call.op = "reset", drive' = Read, Polled, Go, UNCHANGED call
  PROVE  Phase'
  <1>1. Types /\ Position /\ Bits /\ Phase /\ pos \in Places /\ pos.s = "begin"
    BY Zenon, ResetControl DEF IInv, Types
  <1>2. mode' = "run"
    BY Zenon DEF Go, Running
  <1>3. pos.n \in 1 .. 30 /\ PhaseBegin
    BY Zenon, <1>1 DEF Position, Phase
  <1>4. pos.n # 5 /\ (pos.n = 29 => ~SeenBsy) /\ (pos.n = 30 => ~SeenErr)
    BY Zenon, <1>1, ResetControl DEF Polled
  <1>5. CASE pos.n < 30
    <2>1. pos'.s = "begin" /\ pos'.n = pos.n + 1 /\ call'.op = "reset"
      BY Zenon, <1>1, <1>5, ResetControl DEF Places
    <2>2. CASE pos.n < 5
      <3>1. Quiet'
        BY <1>1, <1>3, <2>2, ReadKeeps DEF PhaseBegin, PhaseSent, PhaseReset
      <3>2. pos'.n \in Nat /\ pos'.n <= 5
        BY <1>3, <2>1, <2>2
      <3>3. PhaseBegin'
        BY ONLY <2>1, <3>1, <3>2 DEF PhaseBegin, PhaseSent, PhaseReset
      <3> QED
        BY ONLY Zenon, <1>2, <2>1, <3>3 DEF Phase, Running, Returned, Succeeded
    <2>3. CASE pos.n > 5
      <3>1. Failed' \/ drive' = Idle \/ (drive'.cmd = "SRST" /\ drive'.bsy)
        BY <1>1, <1>3, <2>3, ReadKeeps, ReadFields DEF PhaseBegin, PhaseSent, PhaseReset
      <3>2. ~drive'.lag
        BY Zenon, <1>1, ReadFields
      <3>3. pos.n = 29 => ~drive.lag
        BY <1>3 DEF PhaseBegin, PhaseSent, PhaseReset
      <3>4. pos.n = 29 => ~drive'.bsy
        BY Zenon, <1>1, <1>4, <3>3, ReadFields DEF SeenBsy
      <3>5. pos'.n \in Nat /\ pos'.n > 5 /\ (pos'.n = 30 => pos.n = 29)
        BY <1>3, <2>1, <2>3
      <3>6. PhaseBegin'
        BY ONLY <2>1, <3>1, <3>2, <3>4, <3>5 DEF PhaseBegin, PhaseSent, PhaseReset
      <3> QED
        BY ONLY Zenon, <1>2, <2>1, <3>6 DEF Phase, Running, Returned, Succeeded
    <2> QED
      BY ONLY <1>3, <1>4, <2>2, <2>3
  <1>6. CASE pos.n = 30
    <2>1. pos' = Done
      BY <1>1, <1>6, ResetControl
    <2>2. drive = Idle
      BY <1>1, <1>3, <1>4, <1>6, ReadKeeps DEF PhaseBegin, PhaseSent, PhaseReset, SeenErr, Failed, Idle
    <2>3. drive' = Idle
      BY Zenon, <1>1, <2>2, ReadKeeps
    <2>4. Quiet'
      BY ONLY Zenon, <2>3 DEF Quiet, Idle
    <2> QED
      BY ONLY Zenon, <1>2, <2>1, <2>4 DEF Phase, Running, Returned, Succeeded, Done
  <1> QED
    BY ONLY <1>3, <1>5, <1>6


\* Where an access that reads the status leads.
LEMMA PolledMoves ==
  ASSUME Types, Arguments, Position, Running, Polled, Go
  PROVE  \/ /\ pos' = [pos EXCEPT !.n = pos.n + 1]
            /\ call.op = "write" /\ pos.s = "end" => pos.n # 5
         \/ pos.s \in {"begin", "sector"} /\ pos' = Part("word", pos.i, 0)
         \/ /\ pos.s = "begin" /\ pos.n = 8 /\ pos' = Part("end", 0, 0)
            /\ call.op = "write" /\ call.num = 0
         \/ pos' = Done /\ call.op \in {"detect", "reset"}
         \/ pos' = Done /\ call.op = "write" /\ pos.s = "end" /\ pos.n = 11
  <1>1. pos.s \in {"begin", "sector", "word", "end"} /\ pos.n \in Nat
    BY Zenon DEF Running, Returned, Types, Places
  <1>2. call.op \in {"read", "write", "detect", "reset"}
    BY Zenon DEF Types, Calls, Position
  <1>3. pos.s = "begin" => pos.i = 0
    BY Zenon DEF Position
  <1>4. CASE call.op = "read"
    <2>1. pos.s = "word" => pos.n \in {1, 2}
      BY <1>4, ReadControl DEF Position, Polled
    <2> QED
      BY <1>1, <1>3, <1>4, <2>1, ReadControl DEF Position
  <1>5. CASE call.op = "write"
    <2>1. pos.s = "word" => pos.n \in {1, 2}
      BY <1>5, WriteControl DEF Position, Polled
    <2>2. pos.s = "end" => pos.n \in 1 .. 11 /\ pos.n # 5
      BY <1>5, WriteControl DEF Position, Polled
    <2>3. pos.s = "begin" => pos.n \in 1 .. 8
      BY <1>5 DEF Position
    <2> QED
      BY <1>1, <1>3, <1>5, <2>1, <2>2, <2>3, WriteControl
  <1>6. CASE call.op = "detect"
    <2>1. pos.s = "word" => pos.n \in {1, 2}
      BY <1>6, DetectControl DEF Position, Polled
    <2> QED
      BY <1>1, <1>3, <1>6, <2>1, DetectControl DEF Position
  <1>7. CASE call.op = "reset"
    BY Zenon, <1>1, <1>7, ResetControl
  <1> QED
    BY ONLY Zenon, <1>2, <1>4, <1>5, <1>6, <1>7

\* What the buffer and the disk hold is not touched.
LEMMA PolledFilled ==
  ASSUME IInv, Running, Polled, Go, UNCHANGED <<call, buf>>,
         call.op = "read" => want' = want
  PROVE  Filled'
  <1>1. Types /\ Arguments /\ Position /\ Filled
    BY Zenon DEF IInv
  <1>2. mode' = "run" /\ mode = "run" /\ pos.s # "none" /\ pos \in Places
    BY Zenon, <1>1 DEF Go, Running, Returned, Types
  <1>3. CASE pos' = [pos EXCEPT !.n = pos.n + 1]
    <2>1. pos'.s = pos.s /\ pos'.i = pos.i /\ pos'.k = pos.k
      BY Zenon, <1>2, <1>3 DEF Places
    <2> QED
      BY Zenon, <1>1, <1>2, <2>1 DEF Filled, Remaining, Arrived, Complete, Running, Returned, Succeeded
  <1>4. CASE pos.s \in {"begin", "sector"} /\ pos' = Part("word", pos.i, 0)
    <2>1. pos'.s = "word" /\ pos'.i = pos.i /\ pos'.k = 0
      BY Zenon, <1>4 DEF Part
    <2> QED
      BY <1>1, <1>2, <1>4, <2>1 DEF Filled, Remaining, Arrived, Complete, Running, Returned, Succeeded
  <1>5. CASE pos' = Done /\ call.op # "read"
    BY Zenon, <1>2, <1>5 DEF Filled, Remaining, Arrived, Complete, Running, Returned, Succeeded, Done
  <1>6. CASE pos' = Part("end", 0, 0) /\ call.op # "read"
    BY Zenon, <1>2, <1>6 DEF Filled, Running, Returned, Succeeded, Part
  <1> QED
    BY <1>1, <1>3, <1>4, <1>5, <1>6, PolledMoves, Zenon


\* The sectors wanted after an access: ata_write_sector may return.
Wanted ==
  want' = IF pos'.s = "none" /\ mode' = "run" /\ call.op = "write"
          THEN [l \in LBA |-> IF l \in Sectors(call) THEN SectorOf(call, l) ELSE want[l]]
          ELSE want

LEMMA WritingKept ==
  ASSUME Types, Bits, Writing, drive' = Read, UNCHANGED <<media, cache, call>>,
         Past' => Past \/ Taken(Served(call)),
         pos'.s = "end" /\ pos'.n >= 6 => pos.s = "end" /\ pos.n >= 6
  PROVE  Writing'
  <1>1. \A l : Stored(l)' = Stored(l)
    BY Zenon DEF Stored
  <1>2. \A n : Taken(n) => Taken(n)'
    BY Zenon, <1>1 DEF Taken, SectorOf, Data
  <1>3. ASSUME drive' = Idle
        PROVE  drive = Idle
    <2>1. ~drive'.bsy
      BY ONLY Zenon, <1>3 DEF Idle
    <2>2. ~drive.lag
      BY Zenon, <2>1, ReadFields DEF Bits
    <2> QED
      BY Zenon, <1>3, <2>2, ReadFields
  <1>4. Receiving => Receiving'
    BY Zenon, <1>2, ReadFields DEF Receiving, Data
  <1>5. Holding => Holding'
    BY Zenon, <1>2, ReadFields DEF Holding, SectorOf, Data
  <1>6. drive'.cmd = "WRITE" => IF drive'.left = Told(call)' \/ drive'.drq THEN Receiving' ELSE Holding'
    BY Zenon, <1>4, <1>5, ReadFields DEF Writing
  <1>7. Past' /\ ~drive'.err /\ drive'.cmd # "WRITE" => Taken(Served(call))'
    BY Zenon, <1>2, ReadFields DEF Writing
  <1>8. pos'.s = "end" /\ pos'.n >= 6 /\ drive' = Idle => DOMAIN cache' = {}
    BY Zenon, <1>3 DEF Writing
  <1> QED
    BY ONLY Zenon, <1>6, <1>7, <1>8 DEF Writing

LEMMA PolledDisk ==
  ASSUME IInv, Running, Polled, Go, drive' = Read, UNCHANGED <<media, cache, call>>, Wanted
  PROVE  Disk'
  <1>1. Types /\ Arguments /\ Position /\ Bits /\ Phase /\ Disk
    BY Zenon DEF IInv
  <1>2. mode' = "run" /\ mode = "run" /\ pos.s # "none" /\ pos \in Places
    BY Zenon, <1>1 DEF Go, Running, Returned, Types
  <1>3. \A l : Stored(l)' = Stored(l)
    BY Zenon DEF Stored
  <1>4. Told(call) \in Nat \ {0} /\ (call.num = 0 => Served(call) = 0) /\ call.lba \in Nat
    BY <1>1, ToldBounds DEF Served, Types, Calls
  <1>5. ASSUME pos'.s # "none",
               call.op = "write" => (Past' => Past \/ Taken(Served(call))),
               call.op = "write" => (pos'.s = "end" /\ pos'.n >= 6 => pos.s = "end" /\ pos.n >= 6)
        PROVE  Disk'
    <2>1. want' = want /\ ~Succeeded'
      BY Zenon, <1>5 DEF Wanted, Succeeded, Returned
    <2>2. ASSUME call.op = "write"
          PROVE  Writing'
      <3>1. Writing
        BY Zenon, <1>1, <2>2 DEF Disk
      <3> QED
        BY Zenon, <1>1, <1>5, <2>2, <3>1, WritingKept
    <2> QED
      BY Zenon, <1>1, <1>3, <2>1, <2>2 DEF Disk, Sectors, SectorOf, Data
  <1>6. CASE pos' = [pos EXCEPT !.n = pos.n + 1]
             /\ (call.op = "write" /\ pos.s = "end" => pos.n # 5)
    <2>1. pos'.s = pos.s /\ pos'.n = pos.n + 1 /\ pos.n \in Nat /\ pos'.i = pos.i
      BY Zenon, <1>2, <1>6 DEF Places
    <2>2. Past' => Past
      BY Zenon, <2>1 DEF Past
    <2>3. call.op = "write" => (pos'.s = "end" /\ pos'.n >= 6 => pos.s = "end" /\ pos.n >= 6)
      BY <1>6, <2>1
    <2> QED
      BY Zenon, <1>2, <1>5, <2>1, <2>2, <2>3
  <1>7. CASE pos.s \in {"begin", "sector"} /\ pos' = Part("word", pos.i, 0)
    <2>1. pos'.s = "word" /\ pos'.i = pos.i
      BY Zenon, <1>7 DEF Part
    <2>2. Past' => Past
      <3>1. CASE pos.s = "begin"
        <4>1. pos.i = 0
          BY Zenon, <1>1, <3>1 DEF Position
        <4> QED
          BY <1>4, <2>1, <4>1 DEF Past
      <3>2. CASE pos.s = "sector"
        BY Zenon, <2>1, <3>2 DEF Past
      <3> QED
        BY Zenon, <1>7, <3>1, <3>2
    <2> QED
      BY Zenon, <1>5, <2>1, <2>2
  <1>8. CASE pos' = Done /\ call.op # "write"
    <2>1. want' = want /\ call'.op # "write"
      BY Zenon, <1>8 DEF Wanted
    <2> QED
      BY Zenon, <1>1, <1>3, <1>8, <2>1 DEF Disk
  <1>9. CASE pos' = Done /\ call.op = "write" /\ pos.s = "end" /\ pos.n = 11
    <2>1. PhaseEnd /\ Writing
      BY Zenon, <1>1, <1>9 DEF Phase, Disk, Running
    <2>2. ~SeenErr
      BY <1>1, <1>9, WriteControl DEF Polled
    <2>3. drive = Idle
      BY <1>1, <1>9, <2>1, <2>2, ReadKeeps DEF PhaseEnd, SeenErr, Failed, Idle
    <2>4. DOMAIN cache = {} /\ Taken(Served(call))
      BY <1>1, <1>9, <2>1, <2>3, ReadKeeps DEF Writing, Past
    <2>5. want' = [l \in LBA |-> IF l \in Sectors(call) THEN SectorOf(call, l) ELSE want[l]]
      BY Zenon, <1>2, <1>9 DEF Wanted, Done
    <2>6. \A l \in LBA : Stored(l) = want'[l]
      BY Zenon, <1>1, <2>4, <2>5 DEF Disk, Taken, Sectors
    <2>7. media = want'
      BY Zenon, <1>1, <2>4, <2>5, <2>6 DEF Stored, Types
    <2>8. ~Running'
      BY Zenon, <1>9 DEF Running, Returned, Done
    <2> QED
      BY Zenon, <1>3, <2>4, <2>6, <2>7, <2>8 DEF Disk
  <1>10. CASE pos' = Part("end", 0, 0) /\ call.num = 0
    <2>1. pos'.s = "end" /\ pos'.n = 1
      BY Zenon, <1>10 DEF Part
    <2>2. Taken(Served(call))
      BY <1>4, <1>10 DEF Taken
    <2>3. ~(pos'.n >= 6)
      BY ONLY <2>1
    <2> QED
      BY Zenon, <1>5, <2>1, <2>2, <2>3
  <1> QED
    BY <1>1, <1>6, <1>7, <1>8, <1>9, <1>10, PolledMoves, Zenon


LEMMA SectorType ==
  ASSUME Types
  PROVE  \A l \in Sectors(call) : SectorOf(call, l) \in Sector
  <1>1. call.lba \in Nat /\ call.num \in Nat /\ call.nb \in 0 .. MaxOps
    BY AtaAssumption DEF Types, Calls
  <1> QED
    BY <1>1 DEF Sectors, SectorOf, Sector, Data

LEMMA WantedType ==
  ASSUME Types, Wanted
  PROVE  want' \in [LBA -> Sector]
  BY Zenon, SectorType DEF Wanted, Types

LEMMA PanicIInv ==
  ASSUME IInv, Panic, drive' \in Drives,
         ~drive'.bsy /\ ~drive'.lag /\ (drive'.drq => ~drive'.err),
         UNCHANGED <<media, cache, call, buf, want>>
  PROVE  IInv'
  <1>1. Types /\ Arguments /\ Disk
    BY Zenon DEF IInv
  <1>2. ~Running' /\ ~Succeeded' /\ mode' = "panic" /\ pos' \in Places
    BY Zenon DEF Panic, Running, Succeeded, Done, Places
  <1>3. Types' /\ Arguments'
    BY Zenon, <1>1, <1>2 DEF Types, Arguments
  <1>4. Position' /\ Phase' /\ Filled'
    BY Zenon, <1>2 DEF Position, Phase, Filled, Remaining, Arrived, Complete
  <1>5. Bits'
    BY Zenon, <1>2 DEF Bits
  <1>6. Disk'
    BY Zenon, <1>1, <1>2 DEF Disk, Stored, Sectors, SectorOf, Data
  <1> QED
    BY ONLY Zenon, <1>3, <1>4, <1>5, <1>6 DEF IInv

\* A round of a polling loop.
LEMMA AgainIInv ==
  ASSUME IInv, Running, Again, drive' = Read, UNCHANGED <<media, cache, call, buf, want>>
  PROVE  IInv'
  <1>1. Types /\ Arguments /\ Position /\ Bits /\ Phase /\ Filled /\ Disk
    BY Zenon DEF IInv
  <1>2. pos' = pos /\ mode' = mode /\ (Running' <=> Running) /\ (Succeeded' <=> Succeeded)
    BY Zenon DEF Again, Running, Succeeded, Returned
  <1>3. Types' /\ Arguments'
    BY Zenon, <1>1, <1>2, ReadFields DEF Types, Arguments
  <1>4. Position' /\ Filled'
    BY Zenon, <1>1, <1>2 DEF Position, Filled, Remaining, Arrived, Complete, Words
  <1>5. Bits'
    BY Zenon, <1>1, <1>2, ReadFields DEF Bits
  <1>6. Phase'
    <2>1. CASE pos.s = "begin"
      BY <1>1, <1>2, <2>1, ReadKeeps, ReadFields DEF Phase, PhaseBegin, PhaseSent, PhaseReset, Succeeded, Returned
    <2>2. CASE pos.s = "sector"
      BY Zenon, <1>1, <1>2, <2>2, ReadKeeps, ReadFields DEF Phase, PhaseSector, Succeeded, Returned
    <2>3. CASE pos.s = "word"
      BY Zenon, <1>1, <1>2, <2>3, ReadKeeps, ReadFields DEF Phase, PhaseWord, Succeeded, Returned
    <2>4. CASE pos.s = "end"
      BY Zenon, <1>1, <1>2, <2>4, ReadKeeps, ReadFields DEF Phase, PhaseEnd, Succeeded, Returned
    <2> QED
      BY Zenon, <1>1, <2>1, <2>2, <2>3, <2>4 DEF Types, Places, Running, Returned
  <1>7. Disk'
    <2>1. \A l : Stored(l)' = Stored(l)
      BY Zenon DEF Stored
    <2>2. Past' => Past
      BY Zenon, <1>2 DEF Past
    <2>3. Writing => Writing'
      BY Zenon, <1>1, <1>2, <2>2, WritingKept
    <2> QED
      BY Zenon, <1>1, <1>2, <2>1, <2>3 DEF Disk, Sectors, SectorOf, Data
  <1> QED
    BY ONLY Zenon, <1>3, <1>4, <1>5, <1>6, <1>7 DEF IInv

LEMMA PolledIInv ==
  ASSUME IInv, Running, Polled, Go, drive' = Read, UNCHANGED <<media, cache, call, buf>>, Wanted
  PROVE  IInv'
  <1>1. Types /\ Arguments /\ Position /\ Bits
    BY Zenon DEF IInv
  <1>2. Position' /\ pos' \in Places /\ mode' = "run"
    BY Zenon, <1>1, GoPosition
  <1>3. Types'
    BY Zenon, <1>1, <1>2, WantedType, ReadFields DEF Types
  <1>4. Arguments'
    BY Zenon, <1>1 DEF Arguments
  <1>5. Bits'
    BY Zenon, <1>1, <1>2, ReadFields DEF Bits
  <1>6. Phase'
    <2>1. call.op \in {"read", "write", "detect", "reset"}
      BY Zenon, <1>1 DEF Types, Calls, Position
    <2> QED
      BY Zenon, <2>1, ReadPhase, WritePhase, DetectPhase, ResetPhase
  <1>7. Filled'
    <2>1. call.op = "read" => want' = want
      BY Zenon DEF Wanted
    <2> QED
      BY Zenon, <2>1, PolledFilled
  <1>8. Disk'
    BY Zenon, PolledDisk
  <1> QED
    BY ONLY Zenon, <1>2, <1>3, <1>4, <1>5, <1>6, <1>7, <1>8 DEF IInv

\* The status that ata_detect tests.
LEMMA StatusPlace ==
  ASSUME IInv, Running, Access = "status"
  PROVE  call.op = "detect" /\ pos.s = "begin" /\ pos.n = 9
  <1>1. Types /\ Arguments /\ Position
    BY Zenon DEF IInv
  <1>2. pos.s \in {"begin", "sector", "word", "end"}
    BY Zenon, <1>1 DEF Running, Returned, Types, Places
  <1>3. call.op \in {"read", "write", "detect", "reset"}
    BY Zenon, <1>1 DEF Types, Calls, Position
  <1>4. call.op # "read"
    BY <1>1, <1>2, ReadControl DEF Position
  <1>5. call.op # "write"
    BY <1>1, <1>2, WriteControl DEF Position
  <1>6. call.op # "reset"
    BY <1>1, <1>2, ResetControl DEF Position
  <1>7. call.op = "detect"
    BY Zenon, <1>3, <1>4, <1>5, <1>6
  <1> QED
    BY <1>1, <1>2, <1>7, DetectControl DEF Position

\* Every read of a status register preserves the invariant.
LEMMA StatusIInv ==
  ASSUME IInv, Running, UNCHANGED <<media, cache, call>>, Wanted,
         PollBsy \/ PollErr \/ ata_poll_drdy \/ Ignore \/ Status
  PROVE  IInv'
  <1>1. Types /\ Arguments /\ Position /\ Bits /\ Phase
    BY Zenon DEF IInv
  <1>2. drive' = Read /\ buf' = buf
    BY Zenon DEF PollBsy, PollErr, ata_poll_drdy, Ignore, Status
  <1>3. (Go /\ Polled) \/ Again \/ (Panic /\ ~drive.bsy)
    <2>1. CASE PollBsy
      BY Zenon, <2>1 DEF PollBsy, Polled
    <2>2. CASE PollErr
      <3>1. SeenErr => ~drive.bsy
        BY Zenon, <1>1 DEF SeenErr, Bits
      <3> QED
        BY Zenon, <2>2, <3>1 DEF PollErr, Polled
    <2>3. CASE ata_poll_drdy \/ Ignore
      BY Zenon, <2>3 DEF ata_poll_drdy, Ignore, Polled
    <2>4. CASE Status
      <3>1. drive.bsy => drive.ready
        <4>1. call.op = "detect" /\ pos.s = "begin" /\ pos.n = 9
          BY Zenon, <2>4, StatusPlace DEF Status
        <4>2. Failed \/ Moving(0, 0)
          BY <1>1, <4>1 DEF Phase, PhaseBegin, PhaseSent, PhaseReset
        <4> QED
          BY Zenon, <4>2 DEF Failed, Idle, Moving
      <3> QED
        BY Zenon, <2>4, <3>1 DEF Status, Polled
    <2> QED
      BY Zenon, <2>1, <2>2, <2>3, <2>4
  <1>4. CASE Go /\ Polled
    BY Zenon, <1>2, <1>4, PolledIInv
  <1>5. CASE Again
    <2>1. want' = want
      BY Zenon, <1>5 DEF Wanted, Again, Running, Returned
    <2> QED
      BY Zenon, <1>2, <1>5, <2>1, AgainIInv
  <1>6. CASE Panic /\ ~drive.bsy
    <2>1. want' = want
      BY Zenon, <1>6 DEF Wanted, Panic
    <2>2. drive' \in Drives /\ ~drive'.bsy /\ ~drive'.lag /\ (drive'.drq => ~drive'.err)
      BY Zenon, <1>1, <1>2, <1>6, ReadFields DEF Bits
    <2> QED
      BY Zenon, <1>2, <1>6, <2>1, <2>2, PanicIInv
  <1> QED
    BY Zenon, <1>3, <1>4, <1>5, <1>6


-----------------------------------------------------------------------------
(* The commands and the words. *)

LEMMA CommandPlace ==
  ASSUME IInv, Running, Access \in {"READ", "WRITE", "FLUSH", "IDENTIFY", "SRST"}, Go
  PROVE  /\ pos' = [pos EXCEPT !.n = pos.n + 1]
         /\ \/ pos.s = "begin" /\ pos.n = 4 /\ call.op # "reset" /\ Access = cmd(call.op)
            \/ pos.s = "begin" /\ pos.n = 5 /\ call.op = "reset" /\ Access = "SRST"
            \/ pos.s = "end" /\ pos.n = 5 /\ call.op = "write" /\ Access = "FLUSH"
  <1>1. Types /\ Arguments /\ Position
    BY Zenon DEF IInv
  <1>2. pos.s \in {"begin", "sector", "word", "end"}
    BY Zenon, <1>1 DEF Running, Returned, Types, Places
  <1>3. call.op \in {"read", "write", "detect", "reset"}
    BY Zenon, <1>1 DEF Types, Calls, Position
  <1>4. CASE call.op = "read"
    BY <1>1, <1>2, <1>4, ReadControl DEF Position, cmd
  <1>5. CASE call.op = "write"
    BY <1>1, <1>2, <1>5, WriteControl DEF Position, cmd
  <1>6. CASE call.op = "detect"
    BY <1>1, <1>2, <1>6, DetectControl DEF Position, cmd
  <1>7. CASE call.op = "reset"
    BY SMTT(30), <1>1, <1>2, <1>7, ResetControl DEF Position
  <1> QED
    BY ONLY Zenon, <1>3, <1>4, <1>5, <1>6, <1>7

LEMMA CommandFields ==
  ASSUME Types, NEW c \in {"READ", "WRITE", "FLUSH", "IDENTIFY", "SRST"}, ~drive.bsy,
         drive' = Command(c)
  PROVE  /\ drive' \in Drives
         /\ drive'.cmd = c /\ drive'.at = call.lba /\ drive'.left = Told(call)
         /\ drive'.w = 0 /\ drive'.data = <<>>
         /\ drive'.bsy = TRUE /\ drive'.drq = FALSE /\ drive'.err = FALSE
         /\ drive'.lag = call.lags /\ drive'.ready = TRUE
  <1>1. call.lba \in Nat /\ call.lags \in BOOLEAN
    BY Zenon DEF Types, Calls
  <1>2. 0 \in 0 .. WORDS - 1 /\ Told(call) \in 0 .. COUNT
    BY ToldBounds, AtaAssumption
  <1>3. <<>> \in Seq(Item)
    OBVIOUS
  <1>4. drive' = [cmd |-> c, at |-> call.lba, left |-> Told(call), w |-> 0, data |-> <<>>,
                  bsy |-> TRUE, drq |-> FALSE, err |-> FALSE, lag |-> call.lags, ready |-> TRUE]
    BY Zenon DEF Command, Idle
  <1> QED
    BY ONLY Zenon, <1>1, <1>2, <1>3, <1>4 DEF Drives

LEMMA SendCommandIInv ==
  ASSUME IInv, Running, UNCHANGED <<media, cache, call>>, Wanted, SendCommand
  PROVE  IInv'
  <1>1. Types /\ Arguments /\ Position /\ Bits /\ Phase /\ Filled /\ Disk
    BY Zenon DEF IInv
  <1>2. Go /\ drive' = Command(Access) /\ buf' = buf
        /\ Access \in {"READ", "WRITE", "FLUSH", "IDENTIFY", "SRST"}
    BY Zenon DEF SendCommand
  <1>3. pos \in Places /\ pos.s # "none" /\ mode = "run"
    BY Zenon, <1>1 DEF Types, Running, Returned
  <1>4. Position' /\ pos' \in Places /\ mode' = "run"
    BY Zenon, <1>1, <1>2, GoPosition
  <1>5. pos'.s = pos.s /\ pos'.n = pos.n + 1 /\ pos'.i = pos.i /\ pos'.k = pos.k
    BY Zenon, <1>2, <1>3, CommandPlace DEF Places
  <1>6. want' = want /\ Running' /\ ~Succeeded'
    BY Zenon, <1>3, <1>4, <1>5 DEF Wanted, Running, Returned, Succeeded
  <1>7. ~drive.bsy
    <2>1. Quiet \/ drive = Idle \/ ~drive.bsy
      BY SMTT(30), <1>1, <1>2, <1>3, CommandPlace DEF Phase, PhaseBegin, PhaseSent, PhaseReset, PhaseEnd
    <2> QED
      BY <2>1 DEF Quiet, Idle
  <1>8. Types'
    BY Zenon, <1>1, <1>2, <1>4, <1>6, <1>7, CommandFields DEF Types
  <1>9. Arguments'
    BY Zenon, <1>1 DEF Arguments
  <1>10. Bits'
    BY Zenon, <1>1, <1>2, <1>4, <1>7, CommandFields DEF Bits
  <1>11. Filled'
    <2>1. /\ call' = call /\ buf' = buf /\ want' = want /\ pos'.i = pos.i /\ pos'.k = pos.k
          /\ pos'.s = pos.s /\ Running
      BY Zenon, <1>1, <1>2, <1>3, <1>4, <1>5, <1>6
    <2> QED
      BY ONLY Zenon, <1>1, <1>6, <2>1 DEF Filled, Remaining, Arrived, Complete
  <1>12. CASE pos.s = "begin" /\ pos.n = 4 /\ call.op # "reset" /\ Access = cmd(call.op)
    <2> DEFINE c == Access
    <2>1. c \in {"READ", "WRITE", "FLUSH", "IDENTIFY", "SRST"} /\ drive' = Command(c)
          /\ c = cmd(call.op)
      BY Zenon, <1>2, <1>12
    <2> HIDE DEF c
    <2>2. drive'.cmd = c /\ drive'.at = call.lba /\ drive'.left = Told(call) /\ drive'.w = 0
          /\ drive'.data = <<>> /\ drive'.bsy = TRUE /\ drive'.ready = TRUE
      BY ONLY Zenon, <1>1, <1>7, <2>1, CommandFields
    <2>3. call.lba \in Nat /\ Told(call) \in Nat \ {0} /\ call' = call
      BY <1>1, ToldBounds DEF Types, Calls
    <2>4. Moving(0, 0)' /\ drive'.data = <<>>
      BY ONLY <2>1, <2>2, <2>3 DEF Moving, cmd
    <2>5. PhaseBegin'
      <3>1. pos'.n = 5 /\ call'.op # "reset"
        BY ONLY <1>5, <1>12, <2>3
      <3>2. PhaseSent'
        BY ONLY SMTT(30), <2>4, <3>1 DEF PhaseSent
      <3> QED
        BY ONLY <3>1, <3>2 DEF PhaseBegin
    <2>6. Phase'
      BY Zenon, <1>5, <1>6, <1>12, <2>5 DEF Phase
    <2>7. ASSUME call.op = "write"
          PROVE  Writing'
      <3>1. Taken(Told(call) - drive.left)'
        BY ONLY <2>2, <2>3 DEF Taken
      <3>2. Len(drive'.data) = 0
        BY ONLY Zenon, <2>2
      <3>3. Receiving'
        BY ONLY <2>2, <3>1, <3>2 DEF Receiving
      <3>4. pos'.s # "end" /\ ~Past'
        BY Zenon, <1>5, <1>12 DEF Past
      <3>5. drive'.left = Told(call)'
        BY ONLY Zenon, <2>2, <2>3
      <3> QED
        BY ONLY Zenon, <3>3, <3>4, <3>5 DEF Writing
    <2>8. Disk'
      BY Zenon, <1>1, <1>6, <2>7 DEF Disk, Stored, Sectors, SectorOf, Data
    <2> QED
      BY ONLY Zenon, <1>4, <1>8, <1>9, <1>10, <1>11, <2>6, <2>8 DEF IInv
  <1>13. CASE pos.s = "begin" /\ pos.n = 5 /\ call.op = "reset" /\ Access = "SRST"
    <2>1. drive'.cmd = "SRST" /\ drive'.bsy
      BY Zenon, <1>1, <1>2, <1>7, <1>13, CommandFields
    <2>2. PhaseBegin'
      BY <1>5, <1>13, <2>1 DEF PhaseBegin, PhaseSent, PhaseReset
    <2>3. Phase'
      BY Zenon, <1>5, <1>6, <1>13, <2>2 DEF Phase
    <2>4. Disk'
      BY Zenon, <1>1, <1>6, <1>13 DEF Disk, Stored
    <2> QED
      BY ONLY Zenon, <1>4, <1>8, <1>9, <1>10, <1>11, <2>3, <2>4 DEF IInv
  <1>14. CASE pos.s = "end" /\ pos.n = 5 /\ call.op = "write" /\ Access = "FLUSH"
    <2>1. drive'.cmd = "FLUSH" /\ drive'.bsy
      BY Zenon, <1>1, <1>2, <1>7, <1>14, CommandFields
    <2>2. PhaseEnd'
      BY <1>5, <1>14, <2>1 DEF PhaseEnd
    <2>3. Phase'
      BY Zenon, <1>5, <1>6, <1>14, <2>2 DEF Phase
    <2>4. (drive = Idle \/ Unused) /\ Writing
      BY Zenon, <1>1, <1>14 DEF Phase, PhaseEnd, Disk
    <2>5. Taken(Served(call))
      <3>1. CASE drive = Idle
        BY Zenon, <1>14, <2>4, <3>1 DEF Writing, Past, Idle
      <3>2. CASE Unused
        <4>1. Served(call) = 0 /\ call.lba \in Nat
          BY Zenon, <1>1, <3>2 DEF Unused, Served, Types, Calls
        <4> QED
          BY ONLY <4>1 DEF Taken
      <3> QED
        BY ONLY Zenon, <2>4, <3>1, <3>2
    <2>6. Writing'
      <3>1. Taken(Served(call))'
        BY Zenon, <2>5 DEF Taken, Stored, SectorOf, Data
      <3>2. drive' # Idle
        BY <2>1 DEF Idle
      <3> QED
        BY ONLY Zenon, <2>1, <3>1, <3>2 DEF Writing
    <2>7. Disk'
      BY Zenon, <1>1, <1>6, <2>6 DEF Disk, Stored, Sectors, SectorOf, Data
    <2> QED
      BY ONLY Zenon, <1>4, <1>8, <1>9, <1>10, <1>11, <2>3, <2>7 DEF IInv
  <1> QED
    BY Zenon, <1>2, <1>12, <1>13, <1>14, CommandPlace

\* A buffer that holds the first words of f, and one that holds them all.
LEMMA Extended ==
  ASSUME NEW S, NEW s \in Seq(S), NEW e \in S, NEW f,
         \A m \in 1 .. Len(s) : s[m] = f[m], e = f[Len(s) + 1]
  PROVE  /\ Append(s, e) \in Seq(S) /\ Len(Append(s, e)) = Len(s) + 1
         /\ \A m \in 1 .. Len(s) + 1 : Append(s, e)[m] = f[m]
  OBVIOUS

LEMMA Whole ==
  ASSUME NEW S, NEW s \in Seq(S), NEW T, NEW f \in [1 .. Len(s) -> T],
         \A m \in 1 .. Len(s) : s[m] = f[m]
  PROVE  s = f
  <1>1. DOMAIN s = 1 .. Len(s) /\ s = [m \in 1 .. Len(s) |-> s[m]]
    OBVIOUS
  <1> QED
    BY Zenon, <1>1

\* The data port is touched only while the drive has a word to give or to take, or
\* has moved all the sectors it was told of.
LEMMA WordPlace ==
  ASSUME IInv, Running, Access \in {"inw", "outw"}
  PROVE  /\ pos.s = "word" /\ pos.n = 3 /\ pos.i \in 0 .. call.num - 1
         /\ pos.k \in 0 .. Words(call.op) - 1 /\ Words(call.op) \in 1 .. WORDS
         /\ (Access = "outw") <=> (call.op = "write")
         /\ call.op \in {"read", "write", "detect"}
         /\ ~drive.bsy /\ ~drive.err /\ ~drive.lag
         /\ IF pos.i < Told(call) THEN drive.drq /\ Moving(pos.i, pos.k) ELSE drive = Idle
         /\ Len(buf[pos.i]) = pos.k
  <1>1. Types /\ Arguments /\ Position /\ Bits /\ Phase /\ Filled
    BY Zenon DEF IInv
  <1>2. pos.s \in {"begin", "sector", "word", "end"} /\ pos \in Places
    BY Zenon, <1>1 DEF Running, Returned, Types, Places
  <1>3. call.op \in {"read", "write", "detect", "reset"}
    BY Zenon, <1>1 DEF Types, Calls, Position
  <1>4. pos.s = "word" /\ pos.n = 3 /\ call.op # "reset" /\ (Access = "outw" <=> call.op = "write")
    <2>1. CASE call.op = "read"
      BY <1>1, <1>2, <2>1, ReadControl DEF Position
    <2>2. CASE call.op = "write"
      BY <1>1, <1>2, <2>2, WriteControl DEF Position
    <2>3. CASE call.op = "detect"
      BY <1>1, <1>2, <2>3, DetectControl DEF Position
    <2>4. CASE call.op = "reset"
      BY <1>1, <1>2, <2>4, ResetControl DEF Position
    <2> QED
      BY ONLY Zenon, <1>3, <2>1, <2>2, <2>3, <2>4
  <1>5. pos.i \in 0 .. call.num - 1 /\ pos.k \in 0 .. Words(call.op) - 1
    BY Zenon, <1>1, <1>4 DEF Position
  <1>6. Words(call.op) \in 1 .. WORDS
    BY AtaAssumption DEF Words
  <1>7. PhaseWord
    BY Zenon, <1>1, <1>4 DEF Phase
  <1>8. IF pos.i < Told(call) THEN drive.drq /\ (Failed \/ Moving(pos.i, pos.k)) ELSE drive = Idle
    BY Zenon, <1>4, <1>7 DEF PhaseWord
  <1>9. /\ ~drive.bsy /\ ~drive.err /\ ~drive.lag
        /\ IF pos.i < Told(call) THEN drive.drq /\ Moving(pos.i, pos.k) ELSE drive = Idle
    <2>1. drive = Idle => ~drive.bsy /\ ~drive.err /\ ~drive.lag
      BY DEF Idle
    <2>2. drive.drq => ~Failed
      BY Zenon DEF Failed, Idle
    <2> QED
      BY Zenon, <1>1, <1>8, <2>1, <2>2 DEF Bits
  <1>10. Len(buf[pos.i]) = pos.k
    BY <1>1, <1>2, <1>4, <1>5 DEF Filled, Remaining, Places
  <1> QED
    BY ONLY Zenon, <1>3, <1>4, <1>5, <1>6, <1>9, <1>10

LEMMA IdleType ==
  /\ Idle \in Drives /\ [Idle EXCEPT !.err = TRUE] \in Drives
  /\ [Idle EXCEPT !.ready = FALSE] \in Drives
  <1>1. 0 \in 0 .. WORDS - 1 /\ 0 \in 0 .. COUNT
    BY AtaAssumption
  <1>2. <<>> \in Seq(Item)
    OBVIOUS
  <1> QED
    BY ONLY Zenon, <1>1, <1>2 DEF Drives, Idle

LEMMA MovedType ==
  ASSUME Types, drive.drq, ~drive.bsy, drive.left > 0, NEW data \in Seq(Item),
         drive' = Moved(data)
  PROVE  drive' \in Drives
  <1>1. /\ drive \in Drives /\ WORDS \in Nat \ {0} /\ COUNT \in Nat /\ drive.w \in 0 .. WORDS - 1
        /\ drive.left \in 1 .. COUNT /\ call.lags \in BOOLEAN /\ drive.at \in Nat
    <2>1. drive \in Drives /\ call.lags \in BOOLEAN
      BY Zenon DEF Types, Calls
    <2>2. drive.w \in 0 .. WORDS - 1 /\ drive.left \in 0 .. COUNT /\ drive.at \in Nat
      BY ONLY Zenon, <2>1 DEF Drives
    <2> QED
      BY <2>1, <2>2, AtaAssumption
  <1>2. CASE drive.w + 1 < WORDS
    <2>1. drive' = [drive EXCEPT !.w = drive.w + 1, !.data = data]
      BY Zenon, <1>2 DEF Moved
    <2>2. drive.w + 1 \in 0 .. WORDS - 1
      BY <1>1, <1>2
    <2> QED
      BY ONLY Zenon, <1>1, <2>1, <2>2, data \in Seq(Item) DEF Drives
  <1>3. CASE ~(drive.w + 1 < WORDS) /\ drive.cmd # "WRITE" /\ drive.left <= 1
    BY Zenon, <1>3, IdleType DEF Moved
  <1>4. CASE ~(drive.w + 1 < WORDS) /\ ~(drive.cmd # "WRITE" /\ drive.left <= 1)
    <2>1. drive' = [drive EXCEPT !.w = 0, !.data = data, !.drq = FALSE, !.bsy = TRUE,
                                 !.lag = call.lags, !.left = drive.left - 1, !.at = drive.at + 1]
      BY Zenon, <1>4 DEF Moved
    <2>2. drive.left - 1 \in 0 .. COUNT /\ drive.at + 1 \in Nat /\ 0 \in 0 .. WORDS - 1
      BY <1>1
    <2> QED
      BY ONLY Zenon, <1>1, <2>1, <2>2, data \in Seq(Item) DEF Drives
  <1> QED
    BY ONLY Zenon, <1>2, <1>3, <1>4

LEMMA MovedFields ==
  ASSUME Types, drive.drq, ~drive.bsy, NEW data \in Seq(Item), drive' = Moved(data)
  PROVE  /\ drive.w + 1 < WORDS =>
              /\ drive'.w = drive.w + 1 /\ drive'.data = data /\ drive'.cmd = drive.cmd
              /\ drive'.at = drive.at /\ drive'.left = drive.left /\ drive'.bsy = drive.bsy
              /\ drive'.drq = drive.drq /\ drive'.err = drive.err /\ drive'.lag = drive.lag
              /\ drive'.ready = drive.ready
         /\ drive.w + 1 >= WORDS /\ drive.cmd # "WRITE" /\ drive.left <= 1 => drive' = Idle
         /\ drive.w + 1 >= WORDS /\ (drive.cmd = "WRITE" \/ drive.left > 1) =>
              /\ drive'.w = 0 /\ drive'.data = data /\ drive'.cmd = drive.cmd
              /\ drive'.at = drive.at + 1 /\ drive'.left = drive.left - 1 /\ drive'.bsy = TRUE
              /\ drive'.drq = FALSE /\ drive'.err = drive.err /\ drive'.lag = call.lags
              /\ drive'.ready = drive.ready
  <1>1. drive \in Drives /\ WORDS \in Nat /\ drive.w \in Nat /\ drive.left \in Nat
    BY AtaAssumption DEF Types, Drives
  <1>2. ASSUME drive.w + 1 < WORDS
        PROVE  /\ drive'.w = drive.w + 1 /\ drive'.data = data /\ drive'.cmd = drive.cmd
               /\ drive'.at = drive.at /\ drive'.left = drive.left /\ drive'.bsy = drive.bsy
               /\ drive'.drq = drive.drq /\ drive'.err = drive.err /\ drive'.lag = drive.lag
               /\ drive'.ready = drive.ready
    <2>1. drive' = [drive EXCEPT !.w = drive.w + 1, !.data = data]
      BY Zenon, <1>2 DEF Moved
    <2> QED
      BY ONLY Zenon, <1>1, <2>1 DEF Drives
  <1>3. ASSUME drive.w + 1 >= WORDS, drive.cmd # "WRITE", drive.left <= 1
        PROVE  drive' = Idle
    BY <1>1, <1>3 DEF Moved
  <1>4. ASSUME drive.w + 1 >= WORDS, drive.cmd = "WRITE" \/ drive.left > 1
        PROVE  /\ drive'.w = 0 /\ drive'.data = data /\ drive'.cmd = drive.cmd
               /\ drive'.at = drive.at + 1 /\ drive'.left = drive.left - 1 /\ drive'.bsy = TRUE
               /\ drive'.drq = FALSE /\ drive'.err = drive.err /\ drive'.lag = call.lags
               /\ drive'.ready = drive.ready
    <2>1. drive' = [drive EXCEPT !.w = 0, !.data = data, !.drq = FALSE, !.bsy = TRUE,
                                 !.lag = call.lags, !.left = drive.left - 1, !.at = drive.at + 1]
      BY <1>1, <1>4 DEF Moved
    <2> QED
      BY ONLY Zenon, <1>1, <2>1 DEF Drives
  <1> QED
    BY ONLY Zenon, <1>2, <1>3, <1>4


\* The buffer after a word is moved.
LEMMA BufferGrows ==
  ASSUME Types, pos.i \in 0 .. call.num - 1, NEW word \in Item,
         buf' = [buf EXCEPT ![pos.i] = Append(@, word)], UNCHANGED call
  PROVE  /\ buf' \in [0 .. call'.num - 1 -> Seq(Item)]
         /\ buf'[pos.i] = Append(buf[pos.i], word) /\ Len(buf'[pos.i]) = Len(buf[pos.i]) + 1
         /\ \A j \in 0 .. call.num - 1 : j # pos.i => buf'[j] = buf[j]
  <1>1. buf \in [0 .. call.num - 1 -> Seq(Item)] /\ buf[pos.i] \in Seq(Item)
    BY Zenon DEF Types
  <1>2. Append(buf[pos.i], word) \in Seq(Item)
        /\ Len(Append(buf[pos.i], word)) = Len(buf[pos.i]) + 1
    BY <1>1
  <1> QED
    BY Zenon, <1>1, <1>2

\* The sectors of a call are on the disk.
LEMMA InDisk ==
  ASSUME Types, Arguments, call.op \in {"read", "write"}, NEW i \in 0 .. call.num - 1
  PROVE  call.lba + i \in LBA
  <1>1. call.lba \in Nat /\ call.num \in 0 .. MaxNum /\ call.lba + call.num <= NSectors
    BY Zenon DEF Types, Calls, Arguments
  <1>2. NSectors \in Nat /\ MaxNum \in Nat
    BY Zenon, AtaAssumption
  <1> QED
    BY ONLY <1>1, <1>2, i \in 0 .. call.num - 1 DEF LBA

\* The word read is the next one of the sector.
LEMMA WordRead ==
  ASSUME IInv, Running, Access = "inw"
  PROVE  /\ Word \in Item
         /\ call.op = "read" /\ pos.i < Told(call) => Word = want[call.lba + pos.i][pos.k + 1]
  <1>1. Types /\ Arguments /\ Disk
    BY Zenon DEF IInv
  <1>2. /\ IF pos.i < Told(call) THEN drive.drq /\ Moving(pos.i, pos.k) ELSE drive = Idle
        /\ ~drive.bsy /\ pos.i \in 0 .. call.num - 1
        /\ pos.k \in 0 .. Words(call.op) - 1 /\ call.op \in {"read", "detect"}
    BY Zenon, WordPlace
  <1>3. CASE call.op = "read" /\ pos.i < Told(call)
    <2>1. Word = Stored(call.lba + pos.i)[pos.k + 1]
      BY Zenon, <1>2, <1>3 DEF Word, Moving, cmd
    <2>2. call.lba + pos.i \in LBA
      BY Zenon, <1>1, <1>2, <1>3, InDisk
    <2>3. Stored(call.lba + pos.i) = want[call.lba + pos.i]
      BY Zenon, <1>1, <1>3, <2>2 DEF Disk
    <2>4. pos.k + 1 \in 1 .. WORDS
      BY SMTT(30), <1>2, <1>3, AtaAssumption DEF Words
    <2>5. want[call.lba + pos.i][pos.k + 1] \in Item
      <3>1. want[call.lba + pos.i] \in Sector
        BY Zenon, <1>1, <2>2 DEF Types
      <3> QED
        BY ONLY Zenon, <2>4, <3>1 DEF Sector, Item
    <2> QED
      BY ONLY Zenon, <2>1, <2>3, <2>5
  <1>4. CASE call.op = "detect" \/ ~(pos.i < Told(call))
    <2>1. drive = Idle => drive.cmd # "READ"
      BY DEF Idle
    <2>2. call.op = "detect" /\ Moving(pos.i, pos.k) => drive.cmd # "READ"
      BY Zenon DEF Moving, cmd
    <2>3. Word = NULL
      BY Zenon, <1>2, <1>4, <2>1, <2>2 DEF Word
    <2> QED
      BY Zenon, <1>4, <2>3 DEF Item
  <1> QED
    BY ONLY Zenon, <1>2, <1>3, <1>4


LEMMA MovedBits ==
  ASSUME Types, Bits, drive.drq, ~drive.bsy, NEW data \in Seq(Item), drive' = Moved(data),
         mode' = "run"
  PROVE  Bits'
  <1>1. drive.w \in Nat /\ drive.left \in Nat /\ WORDS \in Nat /\ ~drive.err
    BY SMTT(30), AtaAssumption DEF Types, Drives, Bits
  <1>2. CASE drive.w + 1 < WORDS
    BY Zenon, <1>2, MovedFields DEF Bits
  <1>3. CASE drive.w + 1 >= WORDS /\ drive.cmd # "WRITE" /\ drive.left <= 1
    <2>1. drive' = Idle
      BY Zenon, <1>3, MovedFields
    <2> QED
      BY <2>1 DEF Bits, Idle
  <1>4. CASE drive.w + 1 >= WORDS /\ (drive.cmd = "WRITE" \/ drive.left > 1)
    BY Zenon, <1>1, <1>4, MovedFields DEF Bits
  <1> QED
    BY SMTT(30), <1>1, <1>2, <1>3, <1>4

LEMMA InWordIInv ==
  ASSUME IInv, Running, UNCHANGED <<media, cache, call>>, Wanted, InWord
  PROVE  IInv'
  <1>1. Types /\ Arguments /\ Position /\ Bits /\ Phase /\ Filled /\ Disk
    BY Zenon DEF IInv
  <1>2. /\ Access = "inw" /\ Go /\ drive' = Moved(<<>>)
        /\ buf' = [buf EXCEPT ![pos.i] = Append(@, Word)]
    BY Zenon DEF InWord
  <1>3. /\ pos.s = "word" /\ pos.n = 3 /\ pos.i \in 0 .. call.num - 1
        /\ pos.k \in 0 .. Words(call.op) - 1 /\ call.op \in {"read", "detect"}
        /\ Len(buf[pos.i]) = pos.k
    BY Zenon, <1>2, WordPlace
  <1>4. ~drive.bsy /\ ~drive.err /\ ~drive.lag
    BY Zenon, <1>2, WordPlace
  <1>5. /\ pos.i \in Nat /\ call.num \in Nat /\ call.lba \in Nat /\ Told(call) \in Nat \ {0}
        /\ pos.k \in Nat /\ WORDS \in Nat \ {0}
    BY Zenon, <1>1, Numbers
  <1>6. ASSUME pos.i < Told(call)
        PROVE  drive.w = pos.k /\ drive.left = Told(call) - pos.i /\ drive.at = call.lba + pos.i
               /\ drive.cmd = cmd(call.op) /\ drive.ready /\ drive.drq
    BY Zenon, <1>2, <1>6, WordPlace DEF Moving
  <1>7. Position' /\ pos' \in Places /\ mode' = "run" /\ want' = want
    BY Zenon, <1>1, <1>2, <1>3, GoPosition DEF Wanted
  <1> DEFINE none == <<>>
  <1>8. none \in Seq(Item) /\ drive' = Moved(none) /\ (pos.i < Told(call) => drive.left > 0)
    BY <1>2, <1>3, <1>5, <1>6
  <1> HIDE DEF none
  <1>9. ASSUME ~(pos.i < Told(call))
         PROVE  drive = Idle /\ drive' = Idle
    <2>1. drive = Idle
      BY Zenon, <1>2, <1>9, WordPlace
    <2> QED
      BY <1>8, <2>1 DEF Moved, Idle
  <1>10. drive' \in Drives
    <2>1. CASE pos.i < Told(call)
      BY ONLY Zenon, <1>1, <1>4, <1>6, <1>8, <2>1, MovedType
    <2> QED
      BY ONLY Zenon, <1>9, <2>1, IdleType
  <1>11. Bits'
    <2>1. CASE pos.i < Told(call)
      BY ONLY Zenon, <1>1, <1>4, <1>6, <1>7, <1>8, <2>1, MovedBits
    <2>2. CASE ~(pos.i < Told(call))
      BY ONLY Zenon, <1>1, <1>7, <1>9, <2>2 DEF Bits
    <2> QED
      BY ONLY Zenon, <2>1, <2>2
  <1>12. Word \in Item
    BY Zenon, <1>2, WordRead
  <1>13. /\ buf' \in [0 .. call'.num - 1 -> Seq(Item)]
         /\ buf'[pos.i] = Append(buf[pos.i], Word) /\ Len(buf'[pos.i]) = pos.k + 1
         /\ \A j \in 0 .. call.num - 1 : j # pos.i => buf'[j] = buf[j]
    BY Zenon, <1>1, <1>2, <1>3, <1>12, BufferGrows
  <1>14. Types' /\ Arguments'
    BY Zenon, <1>1, <1>7, <1>10, <1>13 DEF Types, Arguments
  <1>15. Disk'
    BY Zenon, <1>1, <1>3, <1>7 DEF Disk, Stored
  <1>16. ASSUME call.op = "read"
         PROVE  Phase' /\ Filled'
    <2>1. buf[pos.i] \in Seq(Item)
      BY Zenon, <1>1, <1>3 DEF Types
    <2>2. ASSUME pos.i < Told(call)
          PROVE  \A m \in 1 .. pos.k + 1 : buf'[pos.i][m] = want[call.lba + pos.i][m]
      <3>1. \A m \in 1 .. pos.k : buf[pos.i][m] = want[call.lba + pos.i][m]
        BY Zenon, <1>1, <1>3, <1>16, <2>2 DEF Filled, Arrived
      <3>2. Word = want[call.lba + pos.i][pos.k + 1]
        BY Zenon, <1>2, <1>16, <2>2, WordRead
      <3> DEFINE b == buf[pos.i]
                 f == want[call.lba + pos.i]
      <3>3. b \in Seq(Item) /\ Word \in Item /\ Len(b) = pos.k /\ Word = f[Len(b) + 1]
            /\ (\A m \in 1 .. Len(b) : b[m] = f[m]) /\ buf'[pos.i] = Append(b, Word)
        BY Zenon, <1>3, <1>12, <1>13, <2>1, <3>1, <3>2
      <3> HIDE DEF b, f
      <3>4. \A m \in 1 .. pos.k + 1 : buf'[pos.i][m] = f[m]
        BY ONLY <3>3, Extended
      <3> QED
        BY ONLY Zenon, <3>4 DEF f
    <2>3. \A j \in 0 .. pos.i - 1 : j < Told(call) => buf'[j] = want[call.lba + j]
      <3>1. \A j \in 0 .. pos.i - 1 : j < Told(call) => buf[j] = want[call.lba + j]
        BY Zenon, <1>1, <1>16 DEF Filled, Arrived
      <3>2. \A j \in 0 .. pos.i - 1 : buf'[j] = buf[j]
        BY ONLY SMTT(30), <1>3, <1>5, <1>13
      <3> QED
        BY ONLY Zenon, <3>1, <3>2
    <2>4. ASSUME NEW j \in 0 .. call.num - 1, j > pos.i
          PROVE  Len(buf'[j]) = 0
      <3>1. Len(buf[j]) = 0
        <4>1. Remaining
          BY Zenon, <1>1, <1>3 DEF Filled
        <4> QED
          BY ONLY SMTT(30), <1>5, <2>4, <4>1 DEF Remaining
      <3>2. buf'[j] = buf[j]
        BY SMTT(30), <1>5, <1>13, <2>4
      <3> QED
        BY ONLY Zenon, <3>1, <3>2
    <2>5. ASSUME pos.k + 1 < WORDS
          PROVE  Phase' /\ Filled'
      <3>1. pos' = Part("word", pos.i, pos.k + 1)
        BY <1>1, <1>2, <1>3, <1>16, <2>5, ReadControl
      <3>2. pos'.s = "word" /\ pos'.n = 1 /\ pos'.i = pos.i /\ pos'.k = pos.k + 1
        BY ONLY Zenon, <3>1 DEF Part
      <3>3. Running' /\ ~Succeeded'
        BY Zenon, <1>7, <3>2 DEF Running, Returned, Succeeded
      <3>4. (IF pos.i < Told(call) THEN Moving(pos.i, pos.k)' ELSE drive' = Idle) /\ ~drive'.lag
        <4>1. CASE pos.i < Told(call)
          <5>1. /\ drive'.cmd = drive.cmd /\ drive'.at = drive.at /\ drive'.left = drive.left
                /\ drive'.w = pos.k + 1 /\ drive'.drq /\ drive'.ready /\ ~drive'.lag
            BY Zenon, <1>1, <1>4, <1>6, <1>8, <2>5, <4>1, MovedFields
          <5> QED
            BY Zenon, <1>6, <3>2, <4>1, <5>1 DEF Moving
        <4>2. CASE ~(pos.i < Told(call))
          BY <1>9, <4>2 DEF Idle
        <4> QED
          BY ONLY Zenon, <4>1, <4>2
      <3>5. PhaseWord'
        <4>1. IF pos'.i < Told(call)' THEN Moving(pos.i, pos.k)' ELSE drive' = Idle
          BY Zenon, <3>2, <3>4
        <4>2. call'.op = "read"
          BY Zenon, <1>16
        <4> QED
          BY ONLY <3>2, <3>4, <4>1, <4>2 DEF PhaseWord
      <3>6. Filled'
        <4>1. ASSUME NEW j \in 0 .. call.num - 1, j >= pos.i
              PROVE  Len(buf'[j]) = IF j = pos.i THEN pos.k + 1 ELSE 0
          <5>1. CASE j = pos.i
            BY Zenon, <1>13, <5>1
          <5>2. CASE j > pos.i
            BY <1>5, <2>4, <5>2
          <5> QED
            BY <1>5, <4>1, <5>1, <5>2
        <4> QED
          BY Zenon, <1>7, <2>2, <2>3, <3>2, <3>3, <4>1 DEF Filled, Remaining, Arrived, Complete
      <3> QED
        BY ONLY Zenon, <3>2, <3>3, <3>5, <3>6 DEF Phase
    <2>6. ASSUME ~(pos.k + 1 < WORDS)
          PROVE  Phase' /\ Filled'
      <3>1. pos.k + 1 = WORDS
        <4>1. pos.k \in 0 .. WORDS - 1
          BY ONLY Zenon, <1>3, <1>16 DEF Words
        <4> QED
          BY ONLY <1>5, <2>6, <4>1
      <3>2. ASSUME pos.i < Told(call)
            PROVE  buf'[pos.i] = want[call.lba + pos.i]
        <4>1. call.lba + pos.i \in LBA
          BY Zenon, <1>1, <1>3, <1>16, InDisk
        <4>2. want[call.lba + pos.i] \in [1 .. WORDS -> (0 .. MaxOps) \X Nat \X Nat]
          BY Zenon, <1>1, <4>1 DEF Types, Sector
        <4>3. buf'[pos.i] \in Seq(Item) /\ Len(buf'[pos.i]) = WORDS
          BY Zenon, <1>3, <1>13, <3>1
        <4> DEFINE b == buf'[pos.i]
                   f == want[call.lba + pos.i]
        <4>4. b \in Seq(Item) /\ Len(b) = WORDS
          BY ONLY Zenon, <4>3
        <4>5. f \in [1 .. Len(b) -> (0 .. MaxOps) \X Nat \X Nat]
          BY ONLY Zenon, <4>2, <4>4
        <4>6. \A m \in 1 .. Len(b) : b[m] = f[m]
          BY ONLY Zenon, <2>2, <3>1, <3>2, <4>4
        <4> HIDE DEF b, f
        <4>7. b = f
          BY ONLY Zenon, <4>4, <4>5, <4>6, Whole
        <4> QED
          BY ONLY Zenon, <4>7 DEF b, f
      <3>3. \A j \in 0 .. pos.i : j < Told(call) => buf'[j] = want[call.lba + j]
        BY <1>5, <2>3, <3>2
      <3>4. ASSUME pos.i < Told(call), pos.i + 1 >= Told(call)
            PROVE  drive' = Idle
        <4>1. drive.w + 1 >= WORDS /\ drive.cmd # "WRITE" /\ drive.left <= 1
          <5>1. drive.cmd # "WRITE"
            BY Zenon, <1>6, <1>16, <3>4 DEF cmd
          <5> QED
            BY <1>5, <1>6, <3>1, <3>4, <5>1
        <4> QED
          BY ONLY Zenon, <1>1, <1>4, <1>6, <1>8, <3>4, <4>1, MovedFields
      <3>5. CASE pos.i + 1 < call.num
        <4>1. pos' = Part("sector", pos.i + 1, 0)
          BY SMTT(30), <1>1, <1>2, <1>3, <1>16, <2>6, <3>5, ReadControl
        <4>2. pos'.s = "sector" /\ pos'.n = 1 /\ pos'.i = pos.i + 1 /\ pos'.k = 0
          BY ONLY Zenon, <4>1 DEF Part
        <4>3. Running' /\ ~Succeeded'
          BY Zenon, <1>7, <4>2 DEF Running, Returned, Succeeded
        <4>4. IF pos'.i < Told(call)' THEN Moving(pos.i, 0)' ELSE Last'
          <5>1. CASE pos.i + 1 < Told(call)
            <6>1. drive.w + 1 >= WORDS /\ drive.left > 1 /\ pos.i < Told(call)
              BY SMTT(30), <1>5, <1>6, <3>1, <5>1
            <6>2. /\ drive'.w = 0 /\ drive'.cmd = drive.cmd /\ drive'.at = drive.at + 1
                  /\ drive'.left = drive.left - 1 /\ drive'.bsy = TRUE /\ drive'.ready = drive.ready
              BY ONLY Zenon, <1>1, <1>4, <1>6, <1>8, <6>1, MovedFields
            <6>3. /\ drive'.at = call.lba + pos'.i /\ drive'.left = Told(call) - pos'.i
              BY ONLY <1>5, <1>6, <4>2, <6>1, <6>2
            <6>4. Moving(pos.i, 0)'
              BY Zenon, <1>6, <6>1, <6>2, <6>3 DEF Moving
            <6> QED
              BY Zenon, <4>2, <5>1, <6>4
          <5>2. CASE ~(pos.i + 1 < Told(call))
            <6>1. drive' = Idle
              <7>1. CASE pos.i < Told(call)
                BY <1>5, <3>4, <5>2, <7>1
              <7> QED
                BY ONLY Zenon, <1>9, <7>1
            <6> QED
              BY Zenon, <4>2, <5>2, <6>1 DEF Last
          <5> QED
            BY ONLY Zenon, <5>1, <5>2
        <4>5. PhaseSector'
          BY Zenon, <1>16, <4>2, <4>4 DEF PhaseSector
        <4>6. Filled'
          BY <1>5, <1>7, <2>4, <3>3, <4>2, <4>3 DEF Filled, Remaining, Arrived, Complete
        <4> QED
          BY ONLY Zenon, <4>2, <4>3, <4>5, <4>6 DEF Phase
      <3>6. CASE ~(pos.i + 1 < call.num)
        <4>1. pos' = Done
          BY SMTT(30), <1>1, <1>2, <1>3, <1>16, <2>6, <3>6, ReadControl
        <4>2. ~Running'
          BY Zenon, <4>1 DEF Running, Returned, Done
        <4>3. drive' = Idle
          <5>1. CASE pos.i < Told(call)
            <6>1. pos.i + 1 >= Told(call)
              <7>1. call.num > 0 => Told(call) <= call.num
                BY Zenon, <1>1, ToldBounds
              <7> QED
                BY ONLY <1>3, <1>5, <3>6, <7>1
            <6> QED
              BY ONLY Zenon, <3>4, <5>1, <6>1
          <5> QED
            BY ONLY Zenon, <1>9, <5>1
        <4>4. Quiet'
          BY ONLY Zenon, <4>3 DEF Quiet, Idle
        <4>5. Filled'
          <5>1. pos.i + 1 = call.num /\ call.num > 0
            BY ONLY <1>3, <1>5, <3>6
          <5>2. Served(call) = Told(call) /\ Told(call) <= call.num
            BY Zenon, <1>1, <5>1, ToldBounds
          <5>3. \A j \in 0 .. Served(call) - 1 : buf'[j] = want[call.lba + j]
            BY ONLY <1>5, <3>3, <5>1, <5>2
          <5>4. Complete'
            BY Zenon, <1>7, <5>3 DEF Complete
          <5> QED
            BY ONLY Zenon, <4>2, <5>4 DEF Filled
        <4> QED
          BY ONLY Zenon, <4>2, <4>4, <4>5 DEF Phase
      <3> QED
        BY ONLY Zenon, <3>5, <3>6
    <2> QED
      BY ONLY Zenon, <2>5, <2>6
  <1>17. ASSUME call.op = "detect"
         PROVE  Phase' /\ Filled'
    <2>1. pos.k + 1 < WORDS
      BY SMTT(30), <1>3, <1>5, <1>17, AtaAssumption DEF Words
    <2>2. pos.i = 0 /\ pos.i < Told(call)
      BY <1>1, <1>3, <1>5, <1>17 DEF Arguments
    <2>3. /\ drive'.w = pos.k + 1 /\ drive'.cmd = drive.cmd /\ drive'.at = drive.at
          /\ drive'.left = drive.left /\ ~drive'.bsy /\ drive'.drq /\ ~drive'.err /\ ~drive'.lag
          /\ drive'.ready
      BY Zenon, <1>1, <1>4, <1>6, <1>8, <2>1, <2>2, MovedFields
    <2>4. CASE pos.k + 1 < WORDS \div 2
      <3>1. pos' = Part("word", pos.i, pos.k + 1)
        BY <1>1, <1>2, <1>3, <1>17, <2>4, DetectControl
      <3>2. pos'.s = "word" /\ pos'.n = 1 /\ pos'.i = pos.i /\ pos'.k = pos.k + 1
        BY ONLY Zenon, <3>1 DEF Part
      <3>3. Running' /\ ~Succeeded'
        BY Zenon, <1>7, <3>2 DEF Running, Returned, Succeeded
      <3>4. PhaseWord'
        BY Zenon, <1>6, <1>17, <2>3, <2>2, <3>2 DEF PhaseWord, Moving
      <3>5. Filled'
        <4>1. call'.num = 1 /\ call'.op = "detect"
          BY Zenon, <1>1, <1>17 DEF Arguments
        <4>2. Remaining'
          BY <1>13, <2>2, <3>2, <4>1 DEF Remaining
        <4> QED
          BY ONLY Zenon, <3>3, <4>1, <4>2 DEF Filled
      <3> QED
        BY ONLY Zenon, <3>2, <3>3, <3>4, <3>5 DEF Phase
    <2>5. CASE ~(pos.k + 1 < WORDS \div 2)
      <3>1. pos' = Part("end", 0, 0)
        BY <1>1, <1>2, <1>3, <1>17, <2>5, DetectControl
      <3>2. pos'.s = "end"
        BY ONLY Zenon, <3>1 DEF Part
      <3>3. Running' /\ ~Succeeded'
        BY Zenon, <1>7, <3>2 DEF Running, Returned, Succeeded
      <3>4. PhaseEnd'
        BY Zenon, <1>6, <1>17, <2>3, <2>2 DEF PhaseEnd, Quiet, cmd
      <3>5. Filled'
        BY Zenon, <1>17, <3>2, <3>3 DEF Filled, Remaining, Arrived, Complete
      <3> QED
        BY ONLY Zenon, <3>2, <3>3, <3>4, <3>5 DEF Phase
    <2> QED
      BY ONLY Zenon, <2>4, <2>5
  <1> QED
    BY Zenon, <1>3, <1>7, <1>11, <1>14, <1>15, <1>16, <1>17 DEF IInv


LEMMA OutWordIInv ==
  ASSUME IInv, Running, UNCHANGED <<media, cache, call>>, Wanted, OutWord
  PROVE  IInv'
  <1>1. Types /\ Arguments /\ Position /\ Bits /\ Phase /\ Filled /\ Disk
    BY Zenon DEF IInv
  <1> DEFINE word == Data(call, pos.i, pos.k + 1)
             d == Append(drive.data, word)
  <1>2. /\ Access = "outw" /\ Go /\ drive' = Moved(d)
        /\ buf' = [buf EXCEPT ![pos.i] = Append(@, word)]
    BY Zenon DEF OutWord
  <1>3. /\ pos.s = "word" /\ pos.n = 3 /\ pos.i \in 0 .. call.num - 1
        /\ pos.k \in 0 .. WORDS - 1 /\ call.op = "write"
        /\ Len(buf[pos.i]) = pos.k
    BY Zenon, <1>2, WordPlace DEF Words
  <1>4. pos.s = "word" /\ call.op = "write"
    BY ONLY Zenon, <1>3
  <1>5. pos.i \in 0 .. call.num - 1 /\ pos.k \in 0 .. WORDS - 1
    BY ONLY Zenon, <1>3
  <1>6. ~drive.bsy /\ ~drive.err /\ ~drive.lag
    BY Zenon, <1>2, WordPlace
  <1>7. /\ pos.i \in Nat /\ call.num \in Nat /\ call.lba \in Nat /\ Told(call) \in Nat \ {0}
        /\ pos.k \in Nat /\ WORDS \in Nat \ {0} /\ call.nb \in 0 .. MaxOps
    BY Zenon, <1>1, Numbers
  <1>8. ASSUME pos.i < Told(call)
        PROVE  drive.w = pos.k /\ drive.left = Told(call) - pos.i /\ drive.at = call.lba + pos.i
               /\ drive.cmd = "WRITE" /\ drive.ready /\ drive.drq
    BY Zenon, <1>2, <1>4, <1>8, WordPlace DEF Moving, cmd
  <1>9. drive.data \in Seq(Item) /\ Writing
    BY Zenon, <1>1, <1>4 DEF Disk, Types, Drives
  <1>10. ASSUME pos.i < Told(call)
        PROVE  /\ Taken(pos.i) /\ Len(drive.data) = pos.k
               /\ \A m \in 1 .. pos.k : drive.data[m] = Data(call, pos.i, m)
    <2>1. Told(call) - drive.left = pos.i
      BY ONLY <1>7, <1>8, <1>10
    <2> QED
      BY Zenon, <1>8, <1>10, <1>9, <2>1 DEF Writing, Receiving
  <1>11. word \in Item
    BY <1>7 DEF Data, Item
  <1>12. /\ d \in Seq(Item)
         /\ pos.i < Told(call) =>
              Len(d) = pos.k + 1 /\ \A m \in 1 .. pos.k + 1 : d[m] = Data(call, pos.i, m)
    BY <1>10, <1>11, <1>9
  <1> HIDE DEF word, d
  <1>13. ASSUME ~(pos.i < Told(call))
         PROVE  drive = Idle /\ drive' = Idle
    <2>1. drive = Idle
      BY Zenon, <1>2, <1>13, WordPlace
    <2> QED
      BY <1>2, <2>1 DEF Moved, Idle
  <1>14. /\ buf' \in [0 .. call'.num - 1 -> Seq(Item)] /\ Len(buf'[pos.i]) = pos.k + 1
         /\ \A j \in 0 .. call.num - 1 : j # pos.i => buf'[j] = buf[j]
    BY Zenon, <1>1, <1>2, <1>3, <1>11, BufferGrows
  <1>15. ASSUME NEW j \in 0 .. call.num - 1, j > pos.i
         PROVE  Len(buf'[j]) = 0
    <2>1. Len(buf[j]) = 0
      BY SMTT(30), <1>1, <1>7, <1>15, <1>4 DEF Filled, Remaining, Arrived, Complete
    <2>2. buf'[j] = buf[j]
      BY SMTT(30), <1>7, <1>14, <1>15
    <2> QED
      BY ONLY Zenon, <2>1, <2>2
  <1>16. Position' /\ pos' \in Places /\ mode' = "run"
    BY Zenon, <1>1, <1>2, GoPosition
  <1>17. drive' \in Drives
    <2>1. CASE pos.i < Told(call)
      <3>1. drive.left > 0
        BY <1>7, <1>8, <2>1
      <3> QED
        BY ONLY Zenon, <1>1, <1>2, <1>6, <1>8, <1>12, <2>1, <3>1, MovedType
    <2> QED
      BY ONLY Zenon, <1>13, <2>1, IdleType
  <1>18. Bits'
    <2>1. CASE pos.i < Told(call)
      BY ONLY Zenon, <1>1, <1>2, <1>6, <1>8, <1>12, <1>16, <2>1, MovedBits
    <2>2. CASE ~(pos.i < Told(call))
      BY ONLY Zenon, <1>1, <1>16, <1>13, <2>2 DEF Bits
    <2> QED
      BY ONLY Zenon, <2>1, <2>2
  <1>19. Types' /\ Arguments'
    BY Zenon, <1>1, <1>14, <1>16, <1>17, WantedType DEF Types, Arguments
  <1>20. ASSUME pos'.s # "none", Writing'
         PROVE  Disk'
    BY Zenon, <1>1, <1>3, <1>20 DEF Disk, Wanted, Stored, Sectors, SectorOf, Data, Succeeded, Returned
  <1>21. \A n : Taken(n) => Taken(n)'
    BY Zenon DEF Taken, Stored, SectorOf, Data
  <1>22. ASSUME ~(pos.i < Told(call)), pos'.s # "end" \/ pos'.n = 1
         PROVE  Writing'
    <2>1. drive'.cmd = "NONE" /\ drive.cmd = "NONE" /\ ~drive.err
      BY <1>13, <1>22 DEF Idle
    <2>2. Past
      BY <1>4, <1>7, <1>22 DEF Past
    <2>3. Taken(Served(call))'
      BY Zenon, <1>9, <1>21, <2>1, <2>2 DEF Writing
    <2>4. ~(pos'.s = "end" /\ pos'.n >= 6)
      BY <1>22
    <2> QED
      BY Zenon, <2>1, <2>3, <2>4 DEF Writing
  <1>23. CASE pos.k + 1 < WORDS
    <2>1. pos' = Part("word", pos.i, pos.k + 1)
      BY <1>1, <1>2, <1>3, <1>23, WriteControl
    <2>2. pos'.s = "word" /\ pos'.n = 1 /\ pos'.i = pos.i /\ pos'.k = pos.k + 1
      BY ONLY Zenon, <2>1 DEF Part
    <2>3. Running' /\ ~Succeeded'
      BY Zenon, <1>16, <2>2 DEF Running, Returned, Succeeded
    <2>4. ASSUME pos.i < Told(call)
          PROVE  /\ drive'.w = pos.k + 1 /\ drive'.data = d /\ drive'.cmd = "WRITE"
                 /\ drive'.at = drive.at /\ drive'.left = drive.left /\ ~drive'.bsy
                 /\ drive'.drq /\ ~drive'.lag /\ drive'.ready
      BY Zenon, <1>1, <1>2, <1>6, <1>8, <1>12, <1>23, <2>4, MovedFields
    <2>5. PhaseWord'
      <3>1. CASE pos.i < Told(call)
        BY Zenon, <1>3, <1>8, <2>2, <2>4, <3>1 DEF PhaseWord, Moving, cmd
      <3>2. CASE ~(pos.i < Told(call))
        <4>1. drive' = Idle /\ ~(pos'.i < Told(call)') /\ call'.op = "write"
          BY Zenon, <1>4, <1>13, <2>2, <3>2
        <4>2. ~drive'.lag /\ ~drive'.bsy
          BY ONLY <4>1 DEF Idle
        <4> QED
          BY ONLY <2>2, <4>1, <4>2 DEF PhaseWord
      <3> QED
        BY ONLY Zenon, <3>1, <3>2
    <2>6. Phase'
      BY ONLY Zenon, <2>2, <2>3, <2>5 DEF Phase
    <2>7. Filled'
      <3>1. ASSUME NEW j \in 0 .. call.num - 1, j >= pos.i
            PROVE  Len(buf'[j]) = IF j = pos.i THEN pos.k + 1 ELSE 0
        <4>1. CASE j = pos.i
          BY Zenon, <1>14, <4>1
        <4>2. CASE j > pos.i
          BY SMTT(30), <1>7, <1>15, <4>2
        <4> QED
          BY SMTT(30), <1>7, <3>1, <4>1, <4>2
      <3> QED
        BY Zenon, <1>3, <2>2, <2>3, <3>1 DEF Filled, Remaining, Arrived, Complete
    <2>8. Writing'
      <3>1. ASSUME pos.i < Told(call)
            PROVE  Writing'
        <4>1. Told(call) - drive'.left = pos.i
          BY <1>7, <1>8, <2>4, <3>1
        <4>2. Taken(pos.i) /\ Len(drive'.data) = drive'.w
              /\ \A m \in 1 .. drive'.w : drive'.data[m] = Data(call, pos.i, m)
          BY Zenon, <1>10, <1>12, <2>4, <3>1
        <4>3. Taken(Told(call) - drive.left)'
          BY <4>1, <4>2 DEF Taken, Stored, SectorOf, Data
        <4> QED
          BY Zenon, <2>2, <2>4, <3>1, <4>1, <4>2, <4>3 DEF Writing, Receiving, Data
      <3> QED
        BY Zenon, <1>22, <2>2, <3>1
    <2> QED
      BY Zenon, <1>16, <1>18, <1>19, <1>20, <2>2, <2>6, <2>7, <2>8 DEF IInv
  <1>24. CASE ~(pos.k + 1 < WORDS)
    <2>1. pos.k + 1 = WORDS
      BY ONLY SMTT(30), <1>7, <1>24, <1>5
    <2>2. ASSUME pos.i < Told(call)
          PROVE  /\ drive'.w = 0 /\ drive'.data = d /\ drive'.cmd = "WRITE"
                 /\ drive'.at = call.lba + pos.i + 1 /\ drive'.left = Told(call) - pos.i - 1
                 /\ drive'.bsy = TRUE /\ drive'.drq = FALSE /\ drive'.ready
      <3>1. drive.w + 1 >= WORDS
        BY <1>7, <1>8, <2>1, <2>2
      <3> QED
        BY Zenon, <1>1, <1>2, <1>6, <1>8, <1>12, <2>2, <3>1, MovedFields
    <2>3. ASSUME pos'.s # "end" \/ pos'.n = 1, pos.i < Told(call)
          PROVE  Writing'
      <3>1. d = SectorOf(call, call.lba + pos.i)
        <4>1. call.lba + pos.i - call.lba = pos.i
          BY <1>7
        <4>2. SectorOf(call, call.lba + pos.i) = [m \in 1 .. WORDS |-> Data(call, pos.i, m)]
          BY ONLY <1>7, <4>1 DEF SectorOf, Data
        <4>3. d \in Seq(Item) /\ DOMAIN d = 1 .. WORDS
          BY <1>12, <2>1, <2>3
        <4> QED
          BY ONLY <1>12, <2>1, <2>3, <4>2, <4>3
      <3>2. drive'.at = call.lba + pos.i + 1 /\ drive'.left = Told(call) - pos.i - 1
        BY ONLY Zenon, <2>2, <2>3
      <3>3. drive'.at - 1 = call.lba + pos.i /\ Told(call) - drive'.left - 1 = pos.i
            /\ drive'.left # Told(call)
        BY ONLY <1>7, <3>2
      <3>4. Taken(Told(call) - drive.left - 1)'
        <4>1. Taken(pos.i)
          BY Zenon, <1>10, <2>3
        <4> QED
          BY Zenon, <3>3, <4>1 DEF Taken, Stored, SectorOf, Data
      <3>5. Holding'
        BY Zenon, <2>2, <2>3, <3>1, <3>3, <3>4 DEF Holding, SectorOf, Data
      <3>6. ~(pos'.s = "end" /\ pos'.n >= 6)
        BY <2>3
      <3>7. drive'.cmd = "WRITE" /\ ~drive'.drq /\ drive'.left # Told(call)'
        BY Zenon, <2>2, <2>3, <3>3
      <3> QED
        BY ONLY Zenon, <3>5, <3>6, <3>7 DEF Writing
    <2>4. ASSUME pos'.s # "end" \/ pos'.n = 1
          PROVE  Writing'
      BY Zenon, <1>22, <2>4, <2>3
    <2>5. ASSUME ~(pos.i + 1 < Told(call))
          PROVE  Last'
      <3>1. CASE pos.i < Told(call)
        <4>1. drive'.at = call.lba + pos.i + 1 /\ drive'.left = Told(call) - pos.i - 1
          BY ONLY Zenon, <2>2, <3>1
        <4>2. drive'.at = call.lba + Told(call) /\ drive'.left = 0 /\ call.num > 0
          BY ONLY <1>5, <1>7, <2>5, <3>1, <4>1
        <4> QED
          BY Zenon, <1>4, <2>2, <3>1, <4>2 DEF Last
      <3> QED
        BY Zenon, <1>13, <3>1 DEF Last
    <2>6. CASE pos.i + 1 < call.num
      <3>1. pos' = Part("sector", pos.i + 1, 0)
        BY <1>1, <1>2, <1>3, <1>24, <2>6, WriteControl
      <3>2. pos'.s = "sector" /\ pos'.n = 1 /\ pos'.i = pos.i + 1 /\ pos'.k = 0
        BY ONLY Zenon, <3>1 DEF Part
      <3>3. Running' /\ ~Succeeded'
        BY Zenon, <1>16, <3>2 DEF Running, Returned, Succeeded
      <3>4. PhaseSector'
        <4>1. CASE pos.i + 1 < Told(call)
          <5>1. pos.i < Told(call)
            BY ONLY <1>7, <4>1
          <5>2. drive'.at = call.lba + pos.i + 1 /\ drive'.left = Told(call) - pos.i - 1
                /\ pos'.i = pos.i + 1
            BY ONLY Zenon, <2>2, <3>2, <5>1
          <5>3. drive'.at = call.lba + pos'.i /\ drive'.left = Told(call) - pos'.i
            BY ONLY <1>7, <5>2
          <5>4. Moving(pos.i, 0)' /\ pos'.i < Told(call)'
            BY Zenon, <1>4, <2>2, <3>2, <4>1, <5>1, <5>3 DEF Moving, cmd
          <5> QED
            BY ONLY <3>2, <5>4 DEF PhaseSector
        <4>2. CASE ~(pos.i + 1 < Told(call))
          <5>1. Last' /\ ~(pos'.i < Told(call)')
            BY Zenon, <2>5, <3>2, <4>2
          <5> QED
            BY ONLY <3>2, <5>1 DEF PhaseSector
        <4> QED
          BY ONLY Zenon, <4>1, <4>2
      <3>5. Phase'
        BY ONLY Zenon, <3>2, <3>3, <3>4 DEF Phase
      <3>6. Filled'
        BY <1>3, <1>7, <1>15, <3>2, <3>3 DEF Filled, Remaining, Arrived, Complete
      <3> QED
        BY Zenon, <1>16, <1>18, <1>19, <1>20, <2>4, <3>2, <3>5, <3>6 DEF IInv
    <2>7. CASE ~(pos.i + 1 < call.num)
      <3>1. pos' = Part("end", 0, 0)
        BY <1>1, <1>2, <1>3, <1>24, <2>7, WriteControl
      <3>2. pos'.s = "end" /\ pos'.n = 1
        BY ONLY Zenon, <3>1 DEF Part
      <3>3. Running' /\ ~Succeeded'
        BY Zenon, <1>16, <3>2 DEF Running, Returned, Succeeded
      <3>4. Last'
        <4>1. call.num > 0 => Told(call) <= call.num
          BY Zenon, <1>1, ToldBounds
        <4>2. ~(pos.i + 1 < Told(call))
          BY ONLY <1>7, <1>5, <2>7, <4>1
        <4> QED
          BY ONLY Zenon, <2>5, <4>2
      <3>5. PhaseEnd'
        <4>1. call'.op = "write"
          BY Zenon, <1>4
        <4> QED
          BY ONLY <3>2, <3>4, <4>1 DEF PhaseEnd
      <3>6. Phase'
        BY ONLY Zenon, <3>2, <3>3, <3>5 DEF Phase
      <3>7. Filled'
        BY Zenon, <1>3, <3>2, <3>3 DEF Filled, Remaining, Arrived, Complete
      <3> QED
        BY Zenon, <1>16, <1>18, <1>19, <1>20, <2>4, <3>2, <3>6, <3>7 DEF IInv
    <2> QED
      BY ONLY Zenon, <2>6, <2>7
  <1> QED
    BY ONLY Zenon, <1>23, <1>24


\* parse_identify_command, after the words of ata_detect.
LEMMA ParseIInv ==
  ASSUME IInv, Running, UNCHANGED <<media, cache, call>>, Wanted, Parse
  PROVE  IInv'
  <1>1. Types /\ Arguments /\ Position /\ Bits /\ Phase /\ Filled /\ Disk
    BY Zenon DEF IInv
  <1>2. Access = "parse" /\ drive' = drive /\ buf' = buf /\ (Go \/ Panic)
    BY Zenon DEF Parse
  <1>3. call.op = "detect" /\ pos.s = "end" /\ pos.n = 1
    <2>1. pos.s \in {"begin", "sector", "word", "end"}
      BY Zenon, <1>1 DEF Running, Returned, Types, Places
    <2>2. call.op \in {"read", "write", "detect", "reset"}
      BY Zenon, <1>1 DEF Types, Calls, Position
    <2>3. call.op # "read"
      BY <1>1, <1>2, <2>1, ReadControl DEF Position
    <2>4. call.op # "write"
      BY <1>1, <1>2, <2>1, WriteControl DEF Position
    <2>5. call.op # "reset"
      BY <1>1, <1>2, <2>1, ResetControl DEF Position
    <2>6. call.op = "detect"
      BY Zenon, <2>2, <2>3, <2>4, <2>5
    <2> QED
      BY <1>1, <1>2, <2>1, <2>6, DetectControl DEF Position
  <1>4. Quiet /\ want' = want
    BY Zenon, <1>1, <1>3 DEF Phase, PhaseEnd, Wanted
  <1>5. CASE Panic
    <2>1. drive' \in Drives /\ ~drive'.bsy /\ ~drive'.lag /\ (drive'.drq => ~drive'.err)
      BY Zenon, <1>1, <1>2, <1>4 DEF Types, Quiet, Bits
    <2> QED
      BY Zenon, <1>2, <1>4, <1>5, <2>1, PanicIInv
  <1>6. CASE Go
    <2>1. Position' /\ pos' \in Places /\ mode' = "run"
      BY Zenon, <1>1, <1>6, GoPosition
    <2>2. pos'.s = "end"
      BY <1>1, <1>3, <1>6, DetectControl DEF Types, Places
    <2>3. Running' /\ ~Succeeded'
      BY Zenon, <2>1, <2>2 DEF Running, Returned, Succeeded
    <2>4. Types' /\ Arguments'
      BY Zenon, <1>1, <1>2, <1>4, <2>1 DEF Types, Arguments
    <2>5. Bits'
      BY Zenon, <1>1, <1>2, <2>1 DEF Bits
    <2>6. Quiet'
      BY Zenon, <1>2, <1>4 DEF Quiet
    <2>7. Phase'
      BY Zenon, <1>3, <2>2, <2>3, <2>6 DEF Phase, PhaseEnd
    <2>8. Filled'
      BY Zenon, <1>3, <2>2, <2>3 DEF Filled, Remaining, Arrived, Complete
    <2>9. Disk'
      BY Zenon, <1>1, <1>3, <1>4 DEF Disk, Stored
    <2> QED
      BY ONLY Zenon, <2>1, <2>4, <2>5, <2>7, <2>8, <2>9 DEF IInv
  <1> QED
    BY ONLY Zenon, <1>2, <1>5, <1>6

LEMMA StepIInv ==
  ASSUME IInv, Step
  PROVE  IInv'
  <1>1. Running /\ UNCHANGED <<media, cache, call>> /\ Wanted
    BY Zenon DEF Step, Running, Wanted
  <1> QED
    BY Zenon, <1>1, StatusIInv, SendCommandIInv, InWordIInv, OutWordIInv, ParseIInv DEF Step

-----------------------------------------------------------------------------
(* The drive. *)

\* Where the driver is while the drive is busy.
LEMMA Busy ==
  ASSUME IInv, drive.bsy
  PROVE  /\ Running
         /\ \/ /\ pos.s = "begin" /\ pos.n \in 5 .. 10 /\ call.op # "reset"
               /\ Moving(0, 0) /\ drive.data = <<>>
            \/ pos.s = "begin" /\ pos.n \in 6 .. 29 /\ call.op = "reset" /\ drive.cmd = "SRST"
            \/ /\ pos.s = "sector" /\ Moving(pos.i, 0) /\ pos.i \in 1 .. call.num - 1
               /\ pos.i < Told(call) /\ pos.n \in 1 .. 2 /\ call.op \in {"read", "write"}
            \/ /\ pos.s = "sector" /\ ~(pos.i < Told(call)) /\ pos.n \in 1 .. 2 /\ call.op = "write"
               /\ drive.cmd = "WRITE" /\ drive.at = call.lba + Told(call) /\ drive.left = 0
               /\ call.num > 0
            \/ /\ pos.s = "word" /\ pos.n = 1 /\ Moving(pos.i, pos.k) /\ pos.i < Told(call)
               /\ call.op \in {"read", "write"}
               /\ call.op = "write" => pos.i = 0 /\ pos.k = 0
            \/ /\ pos.s = "end" /\ pos.n \in 1 .. 2 /\ call.op = "write" /\ drive.cmd = "WRITE"
               /\ drive.at = call.lba + Told(call) /\ drive.left = 0 /\ call.num > 0
            \/ pos.s = "end" /\ pos.n \in 1 .. 2 /\ call.op = "write" /\ Unused
            \/ /\ pos.s = "end" /\ pos.n \in 6 .. 10 /\ call.op = "write"
               /\ drive.cmd = "FLUSH"
  <1>1. Types /\ Position /\ Bits /\ Phase
    BY Zenon DEF IInv
  <1>2. Running
    BY Zenon, <1>1 DEF Bits, Phase, Quiet, Types, Running, Succeeded
  <1>3. ~Failed /\ drive # Idle /\ ~Quiet /\ ~drive.drq
    BY <1>1 DEF Failed, Idle, Quiet, Bits
  <1>4. pos.s \in {"begin", "sector", "word", "end"}
    BY Zenon, <1>1, <1>2 DEF Running, Returned, Types, Places
  <1>5. pos.n \in Nat /\ pos.i \in Nat /\ pos.k \in Nat
    BY Zenon, <1>1 DEF Types, Places
  <1>6. call.op \in {"read", "write", "detect", "reset"}
    BY Zenon, <1>1, <1>2 DEF Types, Calls, Position
  <1>7. CASE pos.s = "begin"
    <2>1. PhaseBegin
      BY Zenon, <1>1, <1>2, <1>7 DEF Phase
    <2>2. CASE call.op = "reset"
      <3>1. pos.n \in 1 .. 30
        BY Zenon, <1>1, <1>2, <1>7, <2>2 DEF Position
      <3> QED
        BY SMTT(30), <1>2, <1>3, <1>7, <2>1, <2>2, <3>1 DEF PhaseBegin, PhaseSent, PhaseReset
    <2>3. CASE call.op # "reset"
      <3>1. pos.n \in 1 .. 11
        BY SMTT(30), <1>1, <1>2, <1>7, <2>3 DEF Position
      <3> QED
        BY SMTT(30), <1>2, <1>3, <1>7, <2>1, <2>3, <3>1 DEF PhaseBegin, PhaseSent, PhaseReset
    <2> QED
      BY ONLY Zenon, <2>2, <2>3
  <1>8. CASE pos.s = "sector"
    <2>1. PhaseSector /\ pos.i \in 1 .. call.num - 1 /\ call.op \in {"read", "write"}
          /\ pos.n \in 1 .. (IF call.op = "read" THEN 2 ELSE 3)
      BY Zenon, <1>1, <1>2, <1>8 DEF Phase, Position
    <2> QED
      BY SMTT(30), <1>2, <1>3, <1>8, <2>1 DEF PhaseSector, Last
  <1>9. CASE pos.s = "word"
    <2>1. PhaseWord /\ call.op # "reset" /\ pos.n \in 1 .. 3
      BY Zenon, <1>1, <1>2, <1>9 DEF Phase, Position
    <2>2. call.op # "detect" /\ pos.n = 1 /\ Moving(pos.i, pos.k) /\ pos.i < Told(call)
      BY <1>3, <2>1 DEF PhaseWord
    <2>3. call.op = "write" => pos.i = 0 /\ pos.k = 0
      BY <1>5, <2>1 DEF PhaseWord
    <2> QED
      BY Zenon, <1>2, <1>6, <1>9, <2>1, <2>2, <2>3
  <1>10. CASE pos.s = "end"
    <2>1. PhaseEnd /\ call.op \in {"write", "detect"}
          /\ pos.n \in 1 .. (IF call.op = "write" THEN 11 ELSE 5)
      BY Zenon, <1>1, <1>2, <1>10 DEF Phase, Position
    <2>2. call.op = "write"
      BY Zenon, <1>3, <2>1 DEF PhaseEnd
    <2> QED
      BY SMTT(30), <1>2, <1>3, <1>10, <2>1, <2>2 DEF PhaseEnd, Last
  <1> QED
    BY ONLY Zenon, <1>4, <1>7, <1>8, <1>9, <1>10


LEMMA SameDriver ==
  ASSUME IInv, UNCHANGED <<pos, call, buf, want, mode>>
  PROVE  /\ Arguments' /\ Position' /\ Filled'
         /\ Running' <=> Running
         /\ Succeeded' <=> Succeeded
  <1>1. (Running' <=> Running) /\ (Succeeded' <=> Succeeded)
    BY Zenon DEF Running, Succeeded, Returned
  <1>2. Arguments' /\ Position'
    BY Zenon, <1>1 DEF IInv, Arguments, Position, Words
  <1>3. Filled'
    BY Zenon, <1>1 DEF IInv, Filled, Remaining, Arrived, Complete
  <1> QED
    BY ONLY Zenon, <1>1, <1>2, <1>3

LEMMA FailIInv ==
  ASSUME IInv, Fail
  PROVE  IInv'
  <1>1. Types /\ Bits /\ Phase /\ Disk
    BY Zenon DEF IInv
  <1>2. /\ drive.bsy /\ ~drive.lag /\ drive' = [Idle EXCEPT !.err = TRUE]
        /\ media' = media /\ cache' = cache /\ pos' = pos /\ call' = call /\ buf' = buf
        /\ want' = want /\ mode' = mode
    BY Zenon DEF Fail
  <1>3. Arguments' /\ Position' /\ Filled' /\ (Running' <=> Running) /\ (Succeeded' <=> Succeeded)
    BY Zenon, <1>2, SameDriver
  <1>4. Failed' /\ ~drive'.bsy /\ ~drive'.drq /\ drive'.err /\ ~drive'.lag /\ drive'.cmd = "NONE"
    BY Zenon, <1>2 DEF Failed, Idle
  <1>5. Types'
    BY Zenon, <1>1, <1>2, IdleType DEF Types
  <1>6. Bits'
    BY Zenon, <1>4 DEF Bits
  <1>7. Phase'
    <2>1. Running' /\ ~Succeeded'
      BY Zenon, <1>2, <1>3, Busy DEF Running, Succeeded
    <2>2. PhaseBegin' \/ pos'.s # "begin"
      <3>1. pos.s = "begin" => IF call.op = "reset" THEN pos.n \in 6 .. 29 ELSE pos.n \in 5 .. 10
        BY Zenon, <1>2, Busy
      <3>2. CASE pos.s = "begin" /\ call.op = "reset"
        BY <1>2, <1>4, <3>1, <3>2 DEF PhaseBegin, PhaseSent, PhaseReset
      <3>3. CASE pos.s = "begin" /\ call.op # "reset"
        BY <1>2, <1>4, <3>1, <3>3 DEF PhaseBegin, PhaseSent, PhaseReset
      <3> QED
        BY Zenon, <1>2, <3>2, <3>3
    <2>3. Last'
      BY Zenon, <1>4 DEF Last
    <2>4. PhaseSector' \/ pos'.s # "sector"
      BY Zenon, <1>2, <1>4, <2>3, Busy DEF PhaseSector
    <2>5. PhaseWord' \/ pos'.s # "word"
      BY <1>2, <1>4, Busy DEF PhaseWord
    <2>6. PhaseEnd' \/ pos'.s # "end"
      BY <1>2, <1>4, <2>3, Busy DEF PhaseEnd
    <2> QED
      BY ONLY Zenon, <2>1, <2>2, <2>4, <2>5, <2>6 DEF Phase
  <1>8. Disk'
    <2>1. Writing'
      <3>1. drive' # Idle
        BY <1>4 DEF Idle
      <3> QED
        BY ONLY Zenon, <1>4, <3>1 DEF Writing, Receiving, Holding
    <2>2. ~Succeeded'
      BY Zenon, <1>2, <1>3, Busy DEF Running, Succeeded
    <2> QED
      BY Zenon, <1>1, <1>2, <2>1, <2>2 DEF Disk, Stored, Sectors, SectorOf, Data
  <1> QED
    BY ONLY Zenon, <1>3, <1>5, <1>6, <1>7, <1>8 DEF IInv

LEMMA FetchIInv ==
  ASSUME IInv, drive.bsy, ~drive.lag, Fetch, UNCHANGED <<pos, call, buf, want, dev, mode>>
  PROVE  IInv'
  <1>1. Types /\ Bits /\ Phase /\ Disk
    BY Zenon DEF IInv
  <1>2. /\ drive.cmd \in {"READ", "IDENTIFY"} /\ drive' = [drive EXCEPT !.bsy = FALSE, !.drq = TRUE]
        /\ media' = media /\ cache' = cache
    BY Zenon DEF Fetch
  <1>3. Arguments' /\ Position' /\ Filled' /\ (Running' <=> Running) /\ (Succeeded' <=> Succeeded)
    BY Zenon, SameDriver
  <1>4. /\ drive' \in Drives /\ drive'.cmd = drive.cmd /\ drive'.at = drive.at
        /\ drive'.left = drive.left /\ drive'.w = drive.w /\ drive'.data = drive.data
        /\ drive'.bsy = FALSE /\ drive'.drq = TRUE /\ drive'.err = drive.err
        /\ drive'.lag = drive.lag /\ drive'.ready = drive.ready
    BY Zenon, <1>1, <1>2 DEF Types, Drives
  <1>5. Types'
    BY Zenon, <1>1, <1>2, <1>4 DEF Types
  <1>6. Bits'
    BY Zenon, <1>1, <1>4 DEF Bits
  <1>7. Running' /\ ~Succeeded' /\ call.op # "write" /\ call.op # "reset"
    <2>1. Running
      BY Zenon, Busy
    <2>2. ~Succeeded'
      BY Zenon, <1>3, <2>1 DEF Running, Succeeded
    <2> QED
      BY Zenon, <1>2, <1>3, <2>1, <2>2, Busy DEF Moving, cmd, Unused
  <1>8. \A i, k : Moving(i, k) => Moving(i, k)'
    BY Zenon, <1>4 DEF Moving
  <1>9. Phase'
    <2>1. PhaseBegin' \/ pos'.s # "begin"
      BY SMTT(30), <1>4, <1>7, <1>8, Busy DEF PhaseBegin, PhaseSent, PhaseReset
    <2>2. PhaseSector' \/ pos'.s # "sector"
      BY Zenon, <1>4, <1>7, <1>8, Busy DEF PhaseSector
    <2>3. PhaseWord' \/ pos'.s # "word"
      BY Zenon, <1>4, <1>7, <1>8, Busy DEF PhaseWord
    <2>4. pos'.s # "end"
      BY Zenon, <1>7, Busy
    <2> QED
      BY ONLY Zenon, <1>7, <2>1, <2>2, <2>3, <2>4 DEF Phase
  <1>10. Disk'
    BY Zenon, <1>1, <1>2, <1>7 DEF Disk, Stored
  <1> QED
    BY ONLY Zenon, <1>3, <1>5, <1>6, <1>9, <1>10 DEF IInv

LEMMA ResetIInv ==
  ASSUME IInv, drive.bsy, ~drive.lag, Reset, UNCHANGED <<pos, call, buf, want, dev, mode>>
  PROVE  IInv'
  <1>1. Types /\ Bits /\ Phase /\ Disk
    BY Zenon DEF IInv
  <1>2. drive.cmd = "SRST" /\ drive' = Idle /\ media' = media /\ cache' = cache
    BY Zenon DEF Reset
  <1>3. Arguments' /\ Position' /\ Filled' /\ (Running' <=> Running) /\ (Succeeded' <=> Succeeded)
    BY Zenon, SameDriver
  <1>4. ~drive'.bsy /\ ~drive'.drq /\ ~drive'.err /\ ~drive'.lag
    BY Zenon, <1>2 DEF Idle
  <1>5. Types'
    BY Zenon, <1>1, <1>2, IdleType DEF Types
  <1>6. Bits'
    BY Zenon, <1>4 DEF Bits
  <1>7. Running /\ pos.s = "begin" /\ call.op = "reset" /\ pos.n \in 6 .. 29
    BY Zenon, <1>2, Busy DEF Moving, cmd, Unused
  <1>8. Phase'
    <2>1. PhaseBegin'
      BY <1>2, <1>4, <1>7 DEF PhaseBegin, PhaseSent, PhaseReset
    <2>2. ~Succeeded'
      BY Zenon, <1>3, <1>7 DEF Running, Succeeded
    <2> QED
      BY Zenon, <1>7, <2>1, <2>2 DEF Phase
  <1>9. Disk'
    BY Zenon, <1>1, <1>2, <1>7 DEF Disk, Stored
  <1> QED
    BY ONLY Zenon, <1>3, <1>5, <1>6, <1>8, <1>9 DEF IInv


LEMMA TakenKept ==
  ASSUME \A l \in LBA : Stored(l)' = Stored(l), UNCHANGED call
  PROVE  \A n : Taken(n) => Taken(n)'
  BY Zenon DEF Taken, SectorOf, Data

LEMMA FlushIInv ==
  ASSUME IInv, drive.bsy, ~drive.lag, Flush, UNCHANGED <<pos, call, buf, want, dev, mode>>
  PROVE  IInv'
  <1>1. Types /\ Arguments /\ Bits /\ Phase /\ Disk
    BY Zenon DEF IInv
  <1>2. /\ drive.cmd = "FLUSH" /\ drive' = Idle /\ media' = [l \in LBA |-> Stored(l)]
        /\ cache' = [l \in {} |-> <<>>]
    BY Zenon DEF Flush
  <1>3. Arguments' /\ Position' /\ Filled' /\ (Running' <=> Running) /\ (Succeeded' <=> Succeeded)
    BY Zenon, SameDriver
  <1>4. ~drive'.bsy /\ ~drive'.drq /\ ~drive'.err /\ ~drive'.lag /\ drive'.cmd = "NONE"
    BY Zenon, <1>2 DEF Idle
  <1>5. DOMAIN cache' = {}
    BY Zenon, <1>2
  <1>6. \A l \in LBA : Stored(l)' = Stored(l)
    BY Zenon, <1>2, <1>5 DEF Stored
  <1>7. Types'
    <2>1. \A l \in LBA : Stored(l) \in Sector
      BY Zenon, <1>1 DEF Stored, Types
    <2>2. media' \in [LBA -> Sector]
      BY Zenon, <1>2, <2>1
    <2>3. DOMAIN cache' \subseteq LBA /\ cache' \in [DOMAIN cache' -> Sector]
      BY Zenon, <1>2, <1>5
    <2> QED
      BY Zenon, <1>1, <1>2, <2>2, <2>3, IdleType DEF Types
  <1>8. Bits'
    BY Zenon, <1>4 DEF Bits
  <1>9. Running /\ pos.s = "end" /\ call.op = "write" /\ pos.n \in 6 .. 10
    BY Zenon, <1>2, Busy DEF Moving, cmd, Unused
  <1>10. ~Succeeded'
    BY Zenon, <1>3, <1>9 DEF Running, Succeeded
  <1>11. Phase'
    <2>1. PhaseEnd'
      BY <1>2, <1>4, <1>9 DEF PhaseEnd
    <2> QED
      BY Zenon, <1>9, <1>10, <2>1 DEF Phase
  <1>12. Disk'
    <2>1. Taken(Served(call))
      BY Zenon, <1>1, <1>2, <1>9 DEF Disk, Writing, Past, Bits
    <2>2. Taken(Served(call))'
      BY Zenon, <1>6, <2>1, TakenKept
    <2>3. Writing'
      BY Zenon, <1>4, <1>5, <2>2 DEF Writing
    <2> QED
      BY Zenon, <1>1, <1>6, <1>9, <1>10, <2>3 DEF Disk, Sectors, SectorOf, Data
  <1> QED
    BY ONLY Zenon, <1>3, <1>7, <1>8, <1>11, <1>12 DEF IInv

LEMMA DestageIInv ==
  ASSUME IInv, NEW d \in LBA, Destage(d)
  PROVE  IInv'
  <1>1. Types /\ Bits /\ Phase /\ Disk
    BY Zenon DEF IInv
  <1>2. /\ d \in DOMAIN cache /\ media' = [media EXCEPT ![d] = cache[d]]
        /\ cache' = [x \in DOMAIN cache \ {d} |-> cache[x]]
        /\ drive' = drive /\ pos' = pos /\ call' = call /\ buf' = buf /\ want' = want /\ mode' = mode
    BY Zenon DEF Destage
  <1>3. Arguments' /\ Position' /\ Filled' /\ (Running' <=> Running) /\ (Succeeded' <=> Succeeded)
    BY Zenon, <1>2, SameDriver
  <1>4. DOMAIN cache' = DOMAIN cache \ {d} /\ \A l \in DOMAIN cache' : cache'[l] = cache[l]
    BY Zenon, <1>2
  <1>5. \A l \in LBA : Stored(l)' = Stored(l)
    BY Zenon, <1>1, <1>2, <1>4 DEF Stored, Types
  <1>6. Types'
    <2>1. cache[d] \in Sector
      BY Zenon, <1>1, <1>2 DEF Types
    <2>2. media' \in [LBA -> Sector]
      BY Zenon, <1>1, <1>2, <2>1 DEF Types
    <2>3. DOMAIN cache' \subseteq LBA /\ cache' \in [DOMAIN cache' -> Sector]
      BY Zenon, <1>1, <1>2, <1>4 DEF Types
    <2> QED
      BY Zenon, <1>1, <1>2, <2>2, <2>3 DEF Types
  <1>7. Bits'
    BY Zenon, <1>1, <1>2 DEF Bits
  <1>8. Phase'
    BY SMTT(30), <1>1, <1>2, <1>3 DEF Phase, PhaseBegin, PhaseSent, PhaseReset, PhaseSector, PhaseWord, PhaseEnd, Quiet, Failed, Moving, Last, Unused
  <1>9. Disk'
    <2>1. ASSUME Running, call.op = "write"
          PROVE  Writing'
      <3>1. Writing /\ DOMAIN cache # {}
        BY Zenon, <1>1, <1>2, <2>1 DEF Disk
      <3>2. \A n : Taken(n) => Taken(n)'
        BY Zenon, <1>2, <1>5, TakenKept
      <3>3. Receiving => Receiving'
        BY Zenon, <1>2, <3>2 DEF Receiving, Data
      <3>4. Holding => Holding'
        BY Zenon, <1>2, <3>2 DEF Holding, SectorOf, Data
      <3>5. Past' => Past
        BY Zenon, <1>2 DEF Past
      <3> QED
        BY Zenon, <1>2, <3>1, <3>2, <3>3, <3>4, <3>5 DEF Writing
    <2> QED
      BY ZenonT(30), <1>1, <1>2, <1>3, <1>5, <2>1 DEF Disk, Sectors, SectorOf, Data
  <1> QED
    BY ONLY Zenon, <1>3, <1>6, <1>7, <1>8, <1>9 DEF IInv

LEMMA SpinUpIInv ==
  ASSUME IInv, SpinUp
  PROVE  IInv'
  <1>1. Types /\ Bits /\ Phase /\ Disk
    BY Zenon DEF IInv
  <1>2. /\ ~drive.ready /\ drive' = [drive EXCEPT !.ready = TRUE] /\ media' = media
        /\ cache' = cache /\ pos' = pos /\ call' = call /\ buf' = buf /\ want' = want /\ mode' = mode
    BY Zenon DEF SpinUp
  <1>3. Arguments' /\ Position' /\ Filled' /\ (Running' <=> Running) /\ (Succeeded' <=> Succeeded)
    BY Zenon, <1>2, SameDriver
  <1>4. /\ drive' \in Drives /\ drive'.cmd = drive.cmd /\ drive'.at = drive.at
        /\ drive'.left = drive.left /\ drive'.w = drive.w /\ drive'.data = drive.data
        /\ drive'.bsy = drive.bsy /\ drive'.drq = drive.drq /\ drive'.err = drive.err
        /\ drive'.lag = drive.lag
    BY Zenon, <1>1, <1>2 DEF Types, Drives
  <1>5. Types'
    BY Zenon, <1>1, <1>2, <1>4 DEF Types
  <1>6. Bits'
    BY Zenon, <1>1, <1>2, <1>4 DEF Bits
  <1>7. ~Failed /\ drive # Idle /\ (Quiet => Quiet') /\ \A i, k : ~Moving(i, k)
    BY <1>2, <1>4 DEF Failed, Idle, Quiet, Moving
  <1>8. Phase'
    <2>1. PhaseBegin => PhaseBegin'
      BY Zenon, <1>2, <1>4, <1>7 DEF PhaseBegin, PhaseSent, PhaseReset
    <2>2. (Last => Last') /\ ~Unused
      BY Zenon, <1>2, <1>4, <1>7 DEF Last, Unused
    <2>3. (PhaseSector => PhaseSector') /\ ~PhaseWord
      BY Zenon, <1>2, <1>4, <1>7, <2>2 DEF PhaseSector, PhaseWord
    <2>4. PhaseEnd => PhaseEnd'
      BY Zenon, <1>2, <1>4, <1>7, <2>2 DEF PhaseEnd
    <2> QED
      BY Zenon, <1>1, <1>2, <1>3, <1>7, <2>1, <2>3, <2>4 DEF Phase
  <1>9. Disk'
    <2>1. ASSUME Running, call.op = "write"
          PROVE  Writing'
      <3>1. \A n : Taken(n) => Taken(n)'
        BY <1>2 DEF Taken, Stored, SectorOf, Data
      <3>2. pos.s = "end" /\ pos.n >= 6 => drive' # Idle
        <4>1. drive'.cmd # "NONE" \/ ~(pos.s = "end" /\ pos.n >= 6)
          <5>1. pos.s = "end" => PhaseEnd
            BY Zenon, <1>1, <2>1 DEF Phase
          <5>2. PhaseEnd /\ pos.n >= 6 => drive.cmd = "FLUSH"
            BY Zenon, <1>7, <2>1 DEF PhaseEnd
          <5> QED
            BY ONLY Zenon, <1>4, <5>1, <5>2
        <4> QED
          BY ONLY <4>1 DEF Idle
      <3>3. Receiving => Receiving'
        BY Zenon, <1>2, <1>4, <3>1 DEF Receiving, Data
      <3>4. Holding => Holding'
        BY Zenon, <1>2, <1>4, <3>1 DEF Holding, SectorOf, Data
      <3>5. (Past' => Past) /\ Writing
        BY Zenon, <1>1, <1>2, <2>1 DEF Past, Disk
      <3> QED
        BY Zenon, <1>2, <1>4, <3>1, <3>2, <3>3, <3>4, <3>5 DEF Writing
    <2> QED
      BY Zenon, <1>1, <1>2, <1>3, <2>1 DEF Disk, Stored, Sectors, SectorOf, Data
  <1> QED
    BY ONLY Zenon, <1>3, <1>5, <1>6, <1>8, <1>9 DEF IInv


\* What has been received, when the drive is about to store it.
LEMMA Received ==
  ASSUME IInv, drive.bsy, drive.cmd = "WRITE", drive.left # Told(call)
  PROVE  /\ call.op = "write" /\ drive.left \in 0 .. Told(call) - 1
         /\ drive.at - 1 = call.lba + (Told(call) - drive.left - 1)
         /\ call.num > 0
         /\ Taken(Told(call) - drive.left - 1) /\ drive.data = SectorOf(call, drive.at - 1)
         /\ drive.at - 1 \in LBA /\ drive.at - 1 \in Sectors(call)
  <1>1. Types /\ Arguments /\ Position /\ Bits /\ Disk
    BY Zenon DEF IInv
  <1>2. Running
    BY Zenon, Busy
  <1>3. /\ call.lba \in Nat /\ call.num \in Nat /\ Told(call) \in Nat \ {0}
        /\ pos.i \in Nat
    BY Zenon, <1>1, Numbers
  <1>4. call.op = "write"
    BY Zenon, Busy DEF Moving, cmd, Unused
  <1>5. drive.left \in 0 .. Told(call) - 1 /\ drive.at = call.lba + (Told(call) - drive.left)
        /\ call.num > 0
    <2>1. CASE drive.left = 0 /\ drive.at = call.lba + Told(call) /\ call.num > 0
      BY ONLY <1>3, <2>1
    <2>2. CASE pos.s = "sector" /\ Moving(pos.i, 0) /\ pos.i \in 1 .. call.num - 1 /\ pos.i < Told(call)
      <3>1. drive.at = call.lba + pos.i /\ drive.left = Told(call) - pos.i
        BY Zenon, <2>2 DEF Moving
      <3> QED
        BY ONLY <1>3, <2>2, <3>1
    <2>3. ~Moving(0, 0)
      <3>1. Moving(0, 0) => drive.left = Told(call) - 0
        BY Zenon DEF Moving
      <3> QED
        BY <1>3, <3>1
    <2> QED
      BY Zenon, <1>4, <2>1, <2>2, <2>3, Busy DEF Unused
  <1>6. drive.at - 1 = call.lba + (Told(call) - drive.left - 1)
    BY ONLY SMTT(30), <1>3, <1>5
  <1>7. Taken(Told(call) - drive.left - 1) /\ drive.data = SectorOf(call, drive.at - 1)
    BY Zenon, <1>1, <1>2, <1>4 DEF Disk, Writing, Holding, Bits
  <1>8. Told(call) <= call.num /\ Served(call) = Told(call)
    BY Zenon, <1>1, <1>5, ToldBounds
  <1>9. drive.at - 1 \in LBA
    <2>1. Told(call) - drive.left - 1 \in 0 .. call.num - 1
      BY ONLY <1>3, <1>5, <1>8
    <2> QED
      BY Zenon, <1>1, <1>4, <1>6, <2>1, InDisk
  <1>10. drive.at - 1 \in Sectors(call)
    BY ONLY <1>3, <1>5, <1>8 DEF Sectors
  <1> QED
    BY ONLY Zenon, <1>3, <1>4, <1>5, <1>6, <1>7, <1>9, <1>10

LEMMA TakeIInv ==
  ASSUME IInv, drive.bsy, ~drive.lag, Take, UNCHANGED <<pos, call, buf, want, dev, mode>>
  PROVE  IInv'
  <1>1. Types /\ Arguments /\ Position /\ Bits /\ Phase /\ Disk
    BY Zenon DEF IInv
  <1>2. drive.cmd = "WRITE" /\ media' = media
    BY Zenon DEF Take
  <1>3. Arguments' /\ Position' /\ Filled' /\ (Running' <=> Running) /\ (Succeeded' <=> Succeeded)
    BY Zenon, SameDriver
  <1>4. Running /\ call.op = "write" /\ ~Succeeded'
    BY Zenon, <1>2, <1>3, Busy DEF Moving, cmd, Running, Succeeded, Unused
  <1>5. Told(call) \in Nat \ {0} /\ drive.left \in Nat /\ call.lba \in Nat
    BY Zenon, <1>1, Numbers
  <1>6. ASSUME drive.left # 0
        PROVE  /\ drive' \in Drives /\ drive'.cmd = "WRITE" /\ drive'.at = drive.at
               /\ drive'.left = drive.left /\ drive'.w = drive.w /\ drive'.data = <<>>
               /\ drive'.bsy = FALSE /\ drive'.drq = TRUE /\ drive'.err = drive.err
               /\ drive'.lag = drive.lag /\ drive'.ready = drive.ready
    <2>1. drive' = [drive EXCEPT !.bsy = FALSE, !.drq = TRUE, !.data = <<>>]
      BY Zenon, <1>6 DEF Take
    <2>2. <<>> \in Seq(Item)
      OBVIOUS
    <2> QED
      BY Zenon, <1>1, <1>2, <2>1, <2>2 DEF Types, Drives
  <1>7. ASSUME drive.left = 0
        PROVE  drive' = Idle
    BY Zenon, <1>7 DEF Take
  <1>8. drive' \in Drives
    BY Zenon, <1>6, <1>7, IdleType
  <1>9. Bits'
    <2>1. CASE drive.left # 0
      BY Zenon, <1>1, <1>6, <2>1 DEF Bits
    <2>2. CASE drive.left = 0
      BY <1>7, <2>2 DEF Bits, Idle
    <2> QED
      BY ONLY Zenon, <2>1, <2>2
  <1>10. \A i, k : drive.left # 0 /\ Moving(i, k) => Moving(i, k)'
    BY Zenon, <1>2, <1>6 DEF Moving
  <1>11. Phase'
    <2>1. PhaseBegin' \/ pos'.s # "begin"
      <3>1. SUFFICES ASSUME pos.s = "begin" PROVE PhaseBegin'
        BY Zenon
      <3>2. Moving(0, 0) /\ pos.n \in 5 .. 10
        BY Zenon, <1>4, <3>1, Busy
      <3>3. drive.left # 0
        BY SMTT(30), <1>5, <3>2 DEF Moving
      <3>4. Moving(0, 0)' /\ drive'.data = <<>> /\ ~drive'.bsy /\ ~drive'.lag
        BY Zenon, <1>6, <1>10, <3>2, <3>3
      <3> QED
        BY <1>4, <3>2, <3>4 DEF PhaseBegin, PhaseSent, PhaseReset
    <2>2. PhaseSector' \/ pos'.s # "sector"
      <3>1. SUFFICES ASSUME pos.s = "sector" PROVE PhaseSector'
        BY Zenon
      <3>2. CASE Moving(pos.i, 0) /\ pos.i < Told(call) /\ pos.i \in 1 .. call.num - 1
        <4>1. drive.left = Told(call) - pos.i /\ pos.i \in Nat
          BY Zenon, <1>1, <3>2 DEF Moving, Types, Places
        <4>2. drive.left # 0
          BY ONLY <1>5, <3>2, <4>1
        <4>3. Moving(pos.i, 0)' /\ ~drive'.bsy /\ ~drive'.lag
          BY Zenon, <1>6, <1>10, <3>2, <4>2
        <4> QED
          BY Zenon, <3>2, <4>3 DEF PhaseSector
      <3>3. CASE drive.left = 0 /\ ~(pos.i < Told(call))
        <4>1. drive' = Idle
          BY Zenon, <1>7, <3>3
        <4>2. ~drive'.bsy /\ ~drive'.lag /\ Last'
          BY ONLY Zenon, <4>1 DEF Idle, Last
        <4> QED
          BY Zenon, <3>3, <4>2 DEF PhaseSector
      <3> QED
        BY Zenon, <1>4, <3>1, <3>2, <3>3, Busy
    <2>3. PhaseWord' \/ pos'.s # "word"
      <3>1. SUFFICES ASSUME pos.s = "word" PROVE PhaseWord'
        BY Zenon
      <3>2. Moving(pos.i, pos.k) /\ pos.n = 1 /\ pos.i = 0 /\ pos.i < Told(call)
        BY Zenon, <1>4, <3>1, Busy
      <3>3. drive.left # 0
        BY SMTT(30), <1>5, <3>2 DEF Moving
      <3>4. Moving(pos.i, pos.k)' /\ ~drive'.bsy /\ ~drive'.lag
        BY Zenon, <1>6, <1>10, <3>2, <3>3
      <3> QED
        BY <1>4, <3>2, <3>4 DEF PhaseWord
    <2>4. PhaseEnd' \/ pos'.s # "end"
      <3>1. SUFFICES ASSUME pos.s = "end" PROVE PhaseEnd'
        BY Zenon
      <3>2. (drive.left = 0 \/ Unused) /\ pos.n \in 1 .. 2
        BY Zenon, <1>2, <1>4, <3>1, Busy
      <3>3. (Last' \/ Unused') /\ ~drive'.bsy /\ ~drive'.lag
        <4>1. CASE drive.left = 0
          <5>1. drive' = Idle
            BY Zenon, <1>7, <4>1
          <5> QED
            BY ONLY Zenon, <5>1 DEF Last, Idle
        <4>2. CASE Unused /\ drive.left # 0
          BY Zenon, <1>6, <1>10, <4>2 DEF Unused
        <4> QED
          BY ONLY Zenon, <3>2, <4>1, <4>2
      <3> QED
        BY <1>4, <3>2, <3>3 DEF PhaseEnd
    <2> QED
      BY Zenon, <1>4, <2>1, <2>2, <2>3, <2>4 DEF Phase
  <1>12. CASE drive.left = Told(call)
    <2>1. cache' = cache /\ drive.left # 0
      BY <1>5, <1>12 DEF Take
    <2>2. Types'
      BY Zenon, <1>1, <1>2, <1>8, <2>1 DEF Types
    <2>3. drive.w = 0
      BY Zenon, <1>2, <1>4, <2>1, Busy DEF Moving, Unused
    <2>4. Taken(Told(call) - drive.left)'
      <3>1. drive'.left = Told(call) /\ call' = call
        BY Zenon, <1>6, <1>12, <2>1
      <3> QED
        BY ONLY <1>5, <3>1 DEF Taken
    <2>5. drive'.data = <<>> /\ drive'.w = 0 /\ drive'.left = Told(call) /\ drive'.cmd = "WRITE"
      BY Zenon, <1>6, <1>12, <2>1, <2>3
    <2>6. Len(drive'.data) = 0
      BY ONLY Zenon, <2>5
    <2>7. Writing'
      <3>1. Receiving'
        BY SMTT(30), <2>4, <2>5, <2>6 DEF Receiving
      <3>2. drive' # Idle
        BY ONLY <2>5 DEF Idle
      <3> QED
        BY Zenon, <2>5, <3>1, <3>2 DEF Writing
    <2>8. Disk'
      BY Zenon, <1>1, <1>2, <1>4, <2>1, <2>7 DEF Disk, Stored, Sectors, SectorOf, Data
    <2> QED
      BY ONLY Zenon, <1>3, <1>9, <1>11, <2>2, <2>8 DEF IInv
  <1>13. CASE drive.left # Told(call)
    <2>1. PICK s : s = drive.at - 1
      BY Zenon
    <2>2. /\ drive.left \in 0 .. Told(call) - 1 /\ s = call.lba + (Told(call) - drive.left - 1)
          /\ call.num > 0 /\ Taken(Told(call) - drive.left - 1) /\ drive.data = SectorOf(call, s)
          /\ s \in LBA /\ s \in Sectors(call)
      BY Zenon, <1>2, <1>13, <2>1, Received
    <2>3. cache' = [l \in DOMAIN cache \cup {s} |-> IF l = s THEN drive.data ELSE cache[l]]
      BY Zenon, <1>13, <2>1 DEF Take
    <2>4. DOMAIN cache' = DOMAIN cache \cup {s} /\ cache'[s] = drive.data
          /\ \A l \in DOMAIN cache : l # s => cache'[l] = cache[l]
      BY ONLY Zenon, <2>3
    <2>5. \A l : Stored(l)' = IF l = s THEN SectorOf(call, s) ELSE Stored(l)
      BY Zenon, <1>2, <2>2, <2>4 DEF Stored
    <2>6. Types'
      <3>1. drive.data \in Sector
        BY Zenon, <1>1, <2>2, SectorType
      <3>2. DOMAIN cache' \subseteq LBA /\ cache' \in [DOMAIN cache' -> Sector]
        BY Zenon, <1>1, <2>2, <2>3, <2>4, <3>1 DEF Types
      <3> QED
        BY Zenon, <1>1, <1>2, <1>8, <3>2 DEF Types
    <2>7. \A l \in LBA : l \in call.lba .. s => Stored(l)' = SectorOf(call, l)
      <3>1. ASSUME NEW l \in call.lba .. s, l # s
            PROVE  l \in call.lba .. call.lba + (Told(call) - drive.left - 1) - 1
        BY ONLY <1>5, <2>2, <3>1 DEF LBA
      <3> QED
        BY Zenon, <2>2, <2>5, <3>1 DEF Taken
    <2>8. ASSUME drive.left # 0
          PROVE  Writing'
      <3>1. drive.w = 0
        BY Zenon, <1>2, <1>4, <2>8, Busy DEF Moving, Unused
      <3>2. drive'.data = <<>> /\ drive'.w = 0 /\ drive'.left = drive.left /\ drive'.cmd = "WRITE"
            /\ drive'.drq
        BY Zenon, <1>6, <2>8, <3>1
      <3>3. Len(drive'.data) = 0
        BY ONLY Zenon, <3>2
      <3>4. Taken(Told(call) - drive.left)'
        <4>1. call.lba + (Told(call) - drive'.left) - 1 = s
          BY ONLY <1>5, <2>2, <3>2
        <4> QED
          BY Zenon, <2>7, <4>1 DEF Taken, SectorOf, Data
      <3>5. Receiving'
        BY <3>2, <3>3, <3>4 DEF Receiving
      <3>6. drive' # Idle
        BY ONLY <3>2 DEF Idle
      <3> QED
        BY Zenon, <3>2, <3>5, <3>6 DEF Writing
    <2>9. ASSUME drive.left = 0
          PROVE  Writing'
      <3>1. drive' = Idle
        BY Zenon, <1>7, <2>9
      <3>2. drive'.cmd = "NONE"
        BY ONLY Zenon, <3>1 DEF Idle
      <3>3. Taken(Served(call))'
        <4>1. Served(call) = Told(call)
          BY Zenon, <1>1, <2>2, ToldBounds
        <4>2. call.lba + Served(call) - 1 = s
          BY ONLY <1>5, <2>2, <2>9, <4>1
        <4> QED
          BY Zenon, <2>7, <4>2 DEF Taken, SectorOf, Data
      <3>4. ~(pos.s = "end" /\ pos.n >= 6)
        <4>1. pos.s = "end" => pos.n \in 1 .. 2
          BY Zenon, <1>2, Busy
        <4> QED
          BY ONLY <4>1
      <3> QED
        BY Zenon, <3>2, <3>3, <3>4 DEF Writing
    <2>10. Disk'
      BY Zenon, <1>1, <1>4, <2>2, <2>5, <2>8, <2>9 DEF Disk, Sectors, SectorOf, Data
    <2> QED
      BY ONLY Zenon, <1>3, <1>9, <1>11, <2>6, <2>10 DEF IInv
  <1> QED
    BY ONLY Zenon, <1>12, <1>13


-----------------------------------------------------------------------------
(* The calls, and the invariant. *)

\* sec_num after the cut.
LEMMA CallArguments ==
  ASSUME NEW op \in Ops, NEW lba \in LBA, NEW num \in 0 .. MaxNum, NEW size \in 0 .. MaxNum,
         op \in {"read", "write"} => lba + num <= NSectors,
         op \notin {"read", "write"} => lba = 0 /\ num = 1 /\ size = 1
  PROVE  /\ op \in {"read", "write", "detect", "reset"}
         /\ Cut(op, num, size) \in 0 .. MaxNum /\ lba \in Nat
         /\ op = "read" => Cut(op, num, size) <= size
         /\ op \in {"read", "write"} => lba + Cut(op, num, size) <= NSectors
         /\ op \in {"detect", "reset"} => lba = 0 /\ Cut(op, num, size) = 1
  <1>1. op \in {"read", "write", "detect", "reset"} /\ NSectors \in Nat /\ MaxNum \in Nat
    BY Zenon, AtaAssumption
  <1>2. CASE op = "read"
    BY <1>1, <1>2 DEF Cut, LBA
  <1>3. CASE op # "read"
    BY <1>1, <1>3 DEF Cut, LBA
  <1> QED
    BY ONLY Zenon, <1>2, <1>3

LEMMA CallIInv ==
  ASSUME IInv, NEW op \in Ops, NEW lba \in LBA, NEW num \in 0 .. MaxNum,
         NEW size \in 0 .. MaxNum, Call(op, lba, num, size)
  PROVE  IInv'
  <1> DEFINE n == Cut(op, num, size)
  <1>1. Types /\ Bits /\ Phase /\ Disk
    BY Zenon DEF IInv
  <1>2. /\ mode = "run" /\ Returned /\ call.nb < MaxOps
        /\ call' = [call EXCEPT !.op = op, !.lba = lba, !.num = n, !.size = size, !.nb = @ + 1]
        /\ pos' = IF op = "read" /\ n = 0 THEN Done ELSE Part("begin", 0, 0)
        /\ buf' = [i \in 0 .. n - 1 |-> <<>>]
        /\ drive' = drive /\ media' = media /\ cache' = cache /\ want' = want /\ mode' = mode
    BY Zenon DEF Call
  <1>3. /\ op \in {"read", "write", "detect", "reset"} /\ n \in 0 .. MaxNum
        /\ lba \in Nat /\ (op = "read" => n <= size)
        /\ op \in {"read", "write"} => lba + n <= NSectors
        /\ op \in {"detect", "reset"} => lba = 0 /\ n = 1
    BY Zenon, CallArguments DEF Call
  <1> HIDE DEF n
  <1>4. call' \in Calls /\ call'.op = op /\ call'.lba = lba /\ call'.num = n /\ call'.size = size
    <2>1. call \in Calls
      BY Zenon, <1>1 DEF Types
    <2>2. call.nb + 1 \in 0 .. MaxOps
      <3>1. call.nb \in 0 .. MaxOps
        BY ONLY Zenon, <2>1 DEF Calls
      <3>2. call.nb < MaxOps
        BY ONLY Zenon, <1>2
      <3> QED
        BY ONLY <3>1, <3>2, AtaAssumption
    <2> QED
      BY Zenon, <1>2, <1>3, <2>1, <2>2 DEF Calls
  <1>5. Succeeded /\ Quiet /\ \A l \in LBA : Stored(l) = want[l]
    BY Zenon, <1>1, <1>2 DEF Succeeded, Phase, Disk
  <1> DEFINE empty == op = "read" /\ n = 0
  <1>6. empty => pos' = Done /\ ~Running'
    BY Zenon, <1>2 DEF Running, Returned, Done
  <1>7. ~empty => /\ pos'.s = "begin" /\ pos'.n = 1 /\ pos'.i = 0 /\ pos'.k = 0
                  /\ Running' /\ ~Succeeded'
    BY Zenon, <1>2 DEF Running, Returned, Succeeded, Part
  <1>8. \A j \in 0 .. n - 1 : buf'[j] = <<>> /\ Len(buf'[j]) = 0
    BY Zenon, <1>2
  <1>9. Types'
    <2>1. pos' \in Places
      BY Zenon, <1>2 DEF Places, Done, Part
    <2>2. buf' \in [0 .. call'.num - 1 -> Seq(Item)]
      BY <1>2, <1>4
    <2> QED
      BY Zenon, <1>1, <1>2, <1>4, <2>1, <2>2 DEF Types
  <1>10. Arguments'
    BY Zenon, <1>3, <1>4 DEF Arguments
  <1>11. Position'
    BY <1>3, <1>4, <1>6, <1>7 DEF Position
  <1>12. Bits'
    BY Zenon, <1>1, <1>2 DEF Bits
  <1>13. Phase'
    <2>1. Quiet'
      BY Zenon, <1>2, <1>5 DEF Quiet
    <2>2. ~empty => PhaseBegin'
      <3>1. ~empty => pos'.n = 1
        BY ONLY Zenon, <1>7
      <3> QED
        BY ONLY <2>1, <3>1 DEF PhaseBegin
    <2> QED
      BY Zenon, <1>6, <1>7, <2>1, <2>2 DEF Phase
  <1>14. Filled'
    <2>1. CASE empty
      <3>1. Complete'
        BY <1>4, <2>1 DEF Complete, Served
      <3> QED
        BY ONLY Zenon, <1>6, <2>1, <3>1 DEF Filled
    <2>2. CASE ~empty
      <3>1. Remaining'
        <4>1. call'.num = n /\ pos'.s = "begin"
          BY ONLY Zenon, <1>4, <1>7, <2>2
        <4> QED
          BY ONLY Zenon, <1>8, <4>1 DEF Remaining
      <3>2. Arrived'
        BY <1>7, <2>2 DEF Arrived
      <3> QED
        BY ONLY Zenon, <1>7, <2>2, <3>1, <3>2 DEF Filled
    <2> QED
      BY ONLY Zenon, <2>1, <2>2
  <1>15. Disk'
    <2>1. \A l \in LBA : Stored(l)' = want'[l]
      BY Zenon, <1>2, <1>5 DEF Stored
    <2>2. op = "write" => Writing' /\ ~Succeeded'
      <3>1. drive'.cmd # "WRITE"
        BY Zenon, <1>2, <1>5 DEF Quiet
      <3> QED
        BY <1>7, <3>1 DEF Writing, Past
    <2> QED
      BY Zenon, <1>4, <2>1, <2>2 DEF Disk
  <1> QED
    BY ONLY Zenon, <1>9, <1>10, <1>11, <1>12, <1>13, <1>14, <1>15 DEF IInv

LEMMA InitIInv ==
  ASSUME Init
  PROVE  IInv
  <1>1. ~Running /\ call.op = "none" /\ call.num = 0 /\ call.size = 0 /\ pos = Done
    BY DEF Init, Running, Returned, Done
  <1>2. Types
    <2>1. drive \in Drives
      BY Zenon, IdleType DEF Init
    <2>2. \A l \in LBA : l \in Nat
      BY DEF LBA
    <2>3. Old \in [LBA -> Sector]
      BY <2>2, AtaAssumption DEF Old, Sector
    <2>4. pos \in Places
      BY Zenon, <1>1 DEF Done, Places
    <2>5. call \in Calls
      BY AtaAssumption DEF Init, Calls
    <2>6. DOMAIN cache \subseteq LBA /\ cache \in [DOMAIN cache -> Sector]
      BY Zenon DEF Init
    <2>7. buf \in [0 .. call.num - 1 -> Seq(Item)]
      BY <1>1 DEF Init
    <2> QED
      BY Zenon, <2>1, <2>3, <2>4, <2>5, <2>6, <2>7 DEF Init, Types
  <1>3. Arguments /\ Position /\ Filled
    BY <1>1 DEF Arguments, Position, Filled
  <1>4. ~drive.bsy /\ ~drive.drq /\ ~drive.err /\ ~drive.lag /\ drive.cmd = "NONE"
    BY Zenon DEF Init, Idle
  <1>5. Bits /\ Phase
    BY Zenon, <1>1, <1>4 DEF Bits, Phase, Quiet
  <1>6. Disk
    BY Zenon, <1>1 DEF Init, Disk, Stored
  <1> QED
    BY ONLY Zenon, <1>2, <1>3, <1>5, <1>6 DEF IInv

LEMMA StutterIInv ==
  ASSUME IInv, UNCHANGED vars
  PROVE  IInv'
  <1>1. /\ drive' = drive /\ media' = media /\ cache' = cache /\ pos' = pos /\ call' = call
        /\ buf' = buf /\ want' = want /\ mode' = mode
    BY Zenon DEF vars
  <1>2. Types /\ Bits /\ Phase /\ Disk
    BY Zenon DEF IInv
  <1>3. Arguments' /\ Position' /\ Filled' /\ (Running' <=> Running) /\ (Succeeded' <=> Succeeded)
    BY Zenon, <1>1, SameDriver
  <1>4. Types' /\ Bits'
    BY Zenon, <1>1, <1>2 DEF Types, Bits
  <1>5. Phase'
    BY SMTT(30), <1>1, <1>2, <1>3 DEF Phase, PhaseBegin, PhaseSent, PhaseReset, PhaseSector, PhaseWord, PhaseEnd, Quiet, Failed, Moving, Last, Unused
  <1>6. Disk'
    <2>1. \A n : Taken(n) => Taken(n)'
      BY Zenon, <1>1 DEF Taken, Stored, SectorOf, Data
    <2>2. (Receiving => Receiving') /\ (Holding => Holding')
      BY Zenon, <1>1, <2>1 DEF Receiving, Holding, SectorOf, Data
    <2>3. Writing => Writing'
      BY Zenon, <1>1, <2>1, <2>2 DEF Writing, Past
    <2> QED
      BY Zenon, <1>1, <1>2, <1>3, <2>3 DEF Disk, Stored, Sectors, SectorOf, Data
  <1> QED
    BY ONLY Zenon, <1>3, <1>4, <1>5, <1>6 DEF IInv

LEMMA NextIInv ==
  ASSUME IInv, [Next]_vars
  PROVE  IInv'
  <1>1. ASSUME NEW op \in Ops, NEW lba \in LBA, NEW num \in 0 .. MaxNum,
               NEW size \in 0 .. MaxNum, Call(op, lba, num, size)
        PROVE  IInv'
    BY Zenon, <1>1, CallIInv
  <1>2. CASE Step
    BY Zenon, <1>2, StepIInv
  <1>3. CASE Finish
    BY Zenon, <1>3, FetchIInv, TakeIInv, FlushIInv, ResetIInv DEF Finish
  <1>4. CASE Fail
    BY Zenon, <1>4, FailIInv
  <1>5. CASE SpinUp
    BY Zenon, <1>5, SpinUpIInv
  <1>6. ASSUME NEW l \in LBA, Destage(l)
        PROVE  IInv'
    BY Zenon, <1>6, DestageIInv
  <1>7. CASE UNCHANGED vars
    BY Zenon, <1>7, StutterIInv
  <1> QED
    BY Zenon, <1>1, <1>2, <1>3, <1>4, <1>5, <1>6, <1>7 DEF Next


-----------------------------------------------------------------------------
(* The theorems. *)

\* The invariant holds of every execution: at each port access of ata_read_sector,
\* ata_write_sector, ata_detect and ata_soft_reset the drive is where in its command the
\* driver takes it to be, or has failed and will be found out.
THEOREM Inductive == Spec => []IInv
  <1>1. Init => IInv
    BY Zenon, InitIInv
  <1>2. IInv /\ [Next]_vars => IInv'
    BY Zenon, NextIInv
  <1> QED
    BY <1>1, <1>2, PTL DEF Spec

\* In every sector that SECCOUNT told the drive of, ata_read_buffer and ata_write_buffer
\* touch the data port only while the drive has, or takes, the word they are at; a read
\* stays inside a buffer of any size, a write inside the sec_num sectors it was asked for.
THEOREM AlwaysInLockstep == Spec => []Lockstep
  <1>1. IInv => Lockstep
    <2>1. SUFFICES ASSUME IInv PROVE Lockstep
      BY Zenon
    <2>2. Types /\ Arguments /\ Bits
      BY Zenon, <2>1 DEF IInv
    <2>3. TypeOK
      BY Zenon, <2>2 DEF Types, Drives, Places, Bits, TypeOK
    <2>4. ASSUME Running, Access \in {"inw", "outw"}
          PROVE  /\ pos.i < Told(call) => drive.drq /\ ~drive.bsy /\ drive.w = pos.k
                 /\ pos.i < call.num /\ (call.op = "read" => pos.i < call.size)
                 /\ Len(buf[pos.i]) = pos.k /\ pos.k < WORDS
      <3>1. /\ Len(buf[pos.i]) = pos.k /\ pos.i \in 0 .. call.num - 1
            /\ pos.k \in 0 .. Words(call.op) - 1 /\ Words(call.op) \in 1 .. WORDS
        BY Zenon, <2>1, <2>4, WordPlace
      <3>2. pos.i < Told(call) => drive.drq /\ ~drive.bsy /\ drive.w = pos.k
        BY Zenon, <2>1, <2>4, WordPlace DEF Moving
      <3>3. /\ call.num \in Nat /\ call.size \in Nat /\ WORDS \in Nat
            /\ call.op = "read" => call.num <= call.size
        BY <2>2, AtaAssumption DEF Types, Calls, Arguments
      <3>4. pos.i < call.num /\ (call.op = "read" => pos.i < call.size) /\ pos.k < WORDS
        BY ONLY <3>1, <3>3
      <3> QED
        BY ONLY Zenon, <3>1, <3>2, <3>4
    <2> QED
      BY ONLY Zenon, <2>3, <2>4 DEF Lockstep
  <1> QED
    BY <1>1, Inductive, PTL

\* A read that returns has put in the buffer the sectors SECCOUNT told the drive of, as the
\* last writes that returned left them, however the drive paced the transfer.
THEOREM ReadsAlwaysExact == Spec => []ReadExact
  <1>1. IInv => ReadExact
    BY Zenon DEF IInv, Filled, Remaining, Arrived, Complete, ReadExact
  <1> QED
    BY <1>1, Inductive, PTL

\* ata_write_sector returns with the sectors SECCOUNT told the drive of on the media and
\* the cache empty, and at no moment has the drive stored anything but whole sectors of
\* the call.
THEOREM WritesAlwaysExact == Spec => []WritesExact
  <1>1. IInv => WritesExact
    BY Zenon DEF IInv, Disk, WritesExact
  <1> QED
    BY <1>1, Inductive, PTL

\* A call whose command the drive failed does not return: one of the polls that follow
\* sees the error bit and panics.
THEOREM FailuresAlwaysPanic == Spec => []FailuresPanic
  <1>1. IInv => FailuresPanic
    BY Zenon DEF IInv, Phase, Quiet, FailuresPanic
  <1> QED
    BY <1>1, Inductive, PTL

=============================================================================
