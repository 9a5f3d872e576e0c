------------------------ MODULE FirmwareUpdateProofs ------------------------
(***************************************************************************)
(* Proofs about FirmwareUpdate, for every block and image size and all     *)
(* files, as long as one download runs at a time.  (With two the key can   *)
(* be written over an erased image.)                                       *)
(***************************************************************************)
EXTENDS FirmwareUpdate, TLAPS

\* The contents of a cell are told apart.
LEMMA Distinct ==
  /\ Erased # Junk /\ Erased # Key /\ Junk # Key
  /\ \A o, i : Data(o, i) \notin {Erased, Junk, Key}
  /\ \A o, i, p, j : Data(o, i) = Data(p, j) <=> o = p /\ i = j
BY DEF Erased, Junk, Key, Data

LEMMA Sizes ==
  /\ Block \in Nat /\ Block > 0
  /\ ImageSize \in Nat /\ ImageSize >= Block
  /\ Cells = 0..(ImageSize + Block - 1) /\ InImage = 0..(ImageSize - 1)
  /\ Positions = 0..(Block - 1)
<1>1. /\ Block \in Nat /\ Block > 0
      /\ ImageBlocks \in Nat /\ ImageBlocks >= 1
  BY FirmwareAssumption
<1>2. Block * ImageBlocks \in Nat /\ Block * ImageBlocks >= Block * 1
  BY <1>1
<1> QED BY <1>1, <1>2 DEF ImageSize, Cells, InImage, Positions

\* Addresses of blocks.
Aligned(a) == \E k \in Nat : a = Block * k

LEMMA AlignedZero == Aligned(0)
<1>1. 0 = Block * 0
  BY Sizes
<1> QED BY <1>1 DEF Aligned

LEMMA AlignedNext ==
  ASSUME NEW a \in Nat, Aligned(a)
  PROVE  Aligned(a + Block)
<1>1. PICK k \in Nat : a = Block * k
  BY DEF Aligned
<1>2. Block * (k + 1) = Block * k + Block
  BY Sizes
<1> QED BY <1>1, <1>2 DEF Aligned

\* A block that begins in the image area ends in it.
LEMMA AlignedFits ==
  ASSUME NEW a \in Nat, Aligned(a), a < ImageSize
  PROVE  a + Block <= ImageSize
<1>1. PICK k \in Nat : a = Block * k
  BY DEF Aligned
<1> DEFINE m == ImageBlocks
<1>2. m \in Nat /\ ImageSize = Block * m
  BY FirmwareAssumption DEF ImageSize
<1> HIDE DEF m
<1>3. k < m
  <2> SUFFICES ASSUME m <= k PROVE FALSE
    BY <1>2
  <2>1. Block * m <= Block * k
    BY <1>2, Sizes
  <2> QED BY <2>1, <1>1, <1>2, Sizes
<1>4. Block * (k + 1) <= Block * m
  BY <1>2, <1>3, Sizes
<1>5. Block * (k + 1) = Block * k + Block
  BY Sizes
<1> QED BY <1>1, <1>2, <1>4, <1>5, Sizes

LEMMA AlignedRemainder ==
  ASSUME NEW a \in Nat, Aligned(a)
  PROVE  a % Block = 0
<1>1. PICK k \in Nat : a = Block * k
  BY DEF Aligned
<1> DEFINE q == a \div Block
           r == a % Block
<1>2. /\ q \in Nat /\ r \in 0..(Block - 1)
      /\ a = Block * q + r
  BY Sizes
<1> HIDE DEF q, r
<1>3. CASE k > q
  <2>1. Block * k >= Block * (q + 1)
    BY <1>2, <1>3, Sizes
  <2>2. Block * (q + 1) = Block * q + Block
    BY <1>2, Sizes
  <2> QED BY <2>1, <2>2, <1>1, <1>2, Sizes
<1>4. CASE k < q
  <2>1. Block * q >= Block * (k + 1)
    BY <1>2, <1>4, Sizes
  <2>2. Block * (k + 1) = Block * k + Block
    BY Sizes
  <2> QED BY <2>1, <2>2, <1>1, <1>2, Sizes
<1>5. CASE k = q
  BY <1>1, <1>2, <1>5, Sizes DEF r
<1> QED BY <1>2, <1>3, <1>4, <1>5 DEF r
-----------------------------------------------------------------------------
\* What a block is programmed to: with success all of the buffer that is not
\* erased; in any case a cell keeps what it has where that is what is meant,
\* or where nothing is meant.
LEMMA BlockWritten ==
  ASSUME NEW addr \in Nat, NEW buffer, NEW ok \in BOOLEAN,
         IFLASH_CopyRamToFlash(addr, buffer, ok)
  PROVE  /\ ok => \A c \in Cells : c \in addr .. addr + Block - 1
                    /\ buffer[c - addr] # Erased => flash'[c] = buffer[c - addr]
         /\ \A c \in Cells : flash'[c] \in {flash[c], Junk}
                    \/ (c \in addr .. addr + Block - 1 /\ flash'[c] = buffer[c - addr])
         /\ \A c \in Cells : c \notin addr .. addr + Block - 1 => flash'[c] = flash[c]
         /\ \A c \in addr .. addr + Block - 1 :
              buffer[c - addr] \in {Erased, flash[c]} => flash'[c] = flash[c]
<1>1. CASE addr + Block - 1 \in Cells
  <2> DEFINE content == [c \in addr .. addr + Block - 1 |-> buffer[c - addr]]
  <2>1. Programmed(content, ok)
    BY <1>1 DEF IFLASH_CopyRamToFlash
  <2>2. \A c \in addr .. addr + Block - 1 : c \in Cells
    BY <1>1, Sizes
  <2> QED BY <2>1, <2>2 DEF Programmed
<1>2. CASE addr + Block - 1 \notin Cells
  <2>1. ~ok /\ flash' = flash
    BY <1>2 DEF IFLASH_CopyRamToFlash
  <2> QED BY <2>1
<1> QED BY <1>1, <1>2
-----------------------------------------------------------------------------
(***************************************************************************)
(* The invariant.                                                          *)
(***************************************************************************)
Downloads ==
  [pc : Steps, file : Offers \union {NoFile}, status : Statuses,
   length : 0..Block, rest : 0..Block, totalRead : Nat, totalWrite : Nat,
   flashAddr : Nat, imageGetStatus : BOOLEAN]

Types ==
  /\ task \in [Tasks -> Downloads]
  /\ flash \in [Cells -> Contents]
  /\ firmwareInfo \in [file : Offers \union {NoFile}, size : 0..ImageSize]
  /\ firmwareBuffer \in [Positions -> Contents]
  /\ fwWriteBuffer \in [Positions -> Contents]
  /\ writeBufferOffset \in 0..Block

One == \A t, u \in Tasks : task[t].pc # "none" /\ task[u].pc # "none" => t = u

Offered(o) == o \in Offers /\ o.size \in 1..ImageSize

Bounded(d) ==
  /\ d.totalRead <= d.file.length
  /\ d.totalWrite <= d.file.length + Block
  /\ Aligned(d.flashAddr)

\* Up to the check a download is about the file in firmwareInfo.
Fetching(d) ==
  d.pc \in {"connect", "login", "read", "fill", "flush", "last", "check"} =>
    /\ Offered(firmwareInfo.file)
    /\ firmwareInfo.size = firmwareInfo.file.size
    /\ ~d.imageGetStatus
    /\ d.pc # "check" => d.status = "SUCCESS"
    /\ IF d.pc \in {"connect", "login"}
         THEN /\ d.totalRead = 0 /\ d.totalWrite = 0 /\ d.flashAddr = 0
              /\ d.pc = "login" => writeBufferOffset = 0
         ELSE d.file = firmwareInfo.file

\* The flash holds the file below flashAddr, and what was counted as written
\* is that, until the last block is written with what is left.
Written(d) ==
  /\ \A i \in Cells : i < d.flashAddr => flash[i] = Data(d.file, i)
  /\ \/ d.totalWrite = d.flashAddr
     \/ /\ d.totalWrite >= d.file.size /\ d.totalWrite < d.flashAddr + Block
        /\ d.totalRead >= d.file.size
        /\ d.pc # "read" => d.totalRead > d.file.size
        /\ d.totalWrite = d.file.size => Complete(d.file)

\* The write buffer holds the file from flashAddr on and, but for the first
\* block, nothing else.
Buffered(d) ==
  \A p \in Positions :
    /\ p < writeBufferOffset => fwWriteBuffer[p] = Data(d.file, d.flashAddr + p)
    /\ p >= writeBufferOffset /\ d.flashAddr > 0 => fwWriteBuffer[p] = Erased

Loop(d) ==
  /\ d.pc \in {"read", "fill", "flush", "last"} => Written(d)
  /\ d.pc \in {"read", "last"} =>
       /\ Buffered(d) /\ writeBufferOffset < Block
       /\ d.totalRead = d.flashAddr + writeBufferOffset
  /\ d.pc = "fill" =>
       /\ Buffered(d) /\ writeBufferOffset < Block
       /\ d.length > 0
       /\ d.totalRead = d.flashAddr + writeBufferOffset + d.length
       /\ \A p \in Positions : p < d.length =>
            firmwareBuffer[p] = Data(d.file, d.flashAddr + writeBufferOffset + p)
  /\ d.pc = "flush" =>
       /\ d.totalRead = d.flashAddr + Block + d.rest
       /\ d.rest < Block /\ d.rest <= d.length
       /\ \A p \in Positions : fwWriteBuffer[p] = Data(d.file, d.flashAddr + p)
       /\ \A p \in Positions : p < d.rest =>
            firmwareBuffer[d.length - d.rest + p] = Data(d.file, d.flashAddr + Block + p)

\* Nothing is reported, and no key written, but for a complete image.
Outcome(d) ==
  /\ d.pc = "check" /\ d.totalWrite = firmwareInfo.size => Complete(d.file)
  /\ d.pc = "report" =>
       IF d.imageGetStatus THEN Offered(d.file) /\ Complete(d.file)
                           ELSE d.status # "SUCCESS"
  /\ d.pc \in {"key", "reset"} => Offered(d.file) /\ Complete(d.file)

TaskInv(t) ==
  Bounded(task[t]) /\ Fetching(task[t]) /\ Loop(task[t]) /\ Outcome(task[t])

\* The key is in the flash only until the reset that follows.
KeyInv == flash[ImageSize] = Key => \E t \in Tasks : task[t].pc = "reset"

Inv ==
  /\ Types /\ One /\ KeyInv /\ InformationKept
  /\ \A t \in Tasks : TaskInv(t)
-----------------------------------------------------------------------------
LEMMA NoTaskType ==
  /\ NoTask \in Downloads /\ NoTask.pc = "none" /\ Bounded(NoTask)
  /\ [NoTask EXCEPT !.pc = "connect"] \in Downloads
  /\ Bounded([NoTask EXCEPT !.pc = "connect"])
  /\ NoFile.size = 0 /\ NoFile.length = 0
<1>1. NoFile.size = 0 /\ NoFile.length = 0 /\ NoTask.file.length = 0
  BY DEF NoTask, NoFile
<1>2. 0 \in 0..Block /\ 0 <= 0 + Block
  BY Sizes
<1>3. NoTask \in Downloads /\ [NoTask EXCEPT !.pc = "connect"] \in Downloads
  BY <1>2 DEF NoTask, Downloads, Steps, Statuses
<1>4. Bounded(NoTask) /\ Bounded([NoTask EXCEPT !.pc = "connect"])
  BY <1>1, <1>2, AlignedZero DEF NoTask, Bounded
<1> QED BY <1>1, <1>3, <1>4 DEF NoTask

\* A task that is not running knows nothing that a step can make wrong.
LEMMA IdleInv ==
  ASSUME NEW t, task[t].pc = "none", Bounded(task[t])
  PROVE  TaskInv(t)
BY DEF TaskInv, Fetching, Loop, Outcome

LEMMA ContentsType ==
  /\ Erased \in Contents /\ Junk \in Contents /\ Key \in Contents
  /\ \A o \in Offers, i \in Nat : Data(o, i) \in Contents
BY DEF Contents, Data

LEMMA InitInv == Init => Inv
<1> SUFFICES ASSUME Init PROVE Inv
  OBVIOUS
<1> USE DEF Init
<1>1. Types
  <2>1. NoFile \in Offers \union {NoFile} /\ 0 \in 0..ImageSize /\ 0 \in 0..Block
    BY Sizes
  <2> QED BY <2>1, NoTaskType, ContentsType DEF Types, Zeros
<1>2. \A t \in Tasks : task[t] = NoTask
  OBVIOUS
<1>3. One /\ \A t \in Tasks : TaskInv(t)
  BY <1>2, NoTaskType, IdleInv DEF One
<1>4. \A c \in Cells \ InImage : flash[c] = Erased
  OBVIOUS
<1>5. ImageSize \in Cells \ InImage
  BY Sizes
<1>6. KeyInv /\ InformationKept
  BY <1>4, <1>5, Distinct DEF KeyInv, InformationKept
<1> QED BY <1>1, <1>3, <1>6 DEF Inv

LEMMA StartStep ==
  ASSUME Inv, ~Overlap, NEW o \in Offers, FTP_StartFirmwareUpdate(o)
  PROVE  Inv'
<1> USE DEF FTP_StartFirmwareUpdate
<1>1. \A t \in Tasks : task[t].pc = "none" /\ Bounded(task[t])
  BY DEF Inv, TaskInv
<1>2. /\ o.size \in 1..ImageSize /\ Offered(o)
      /\ firmwareInfo' = [file |-> o, size |-> o.size]
  BY FirmwareAssumption, Sizes DEF Offered
<1>3. UNCHANGED <<flash, firmwareBuffer, fwWriteBuffer, writeBufferOffset>>
  BY DEF shared
<1>4. KeyInv' /\ InformationKept'
  BY <1>1, <1>3 DEF Inv, KeyInv, InformationKept
<1>5. CASE UNCHANGED task
  <2>1. Types'
    BY <1>2, <1>3, <1>5, Sizes DEF Inv, Types
  <2>2. One' /\ \A t \in Tasks : TaskInv(t)'
    <3>1. \A t \in Tasks : task'[t].pc = "none" /\ Bounded(task[t])'
      BY <1>1, <1>5 DEF Bounded
    <3> QED BY <3>1 DEF One, TaskInv, Fetching, Loop, Outcome
  <2> QED BY <1>4, <2>1, <2>2 DEF Inv
<1>6. ASSUME NEW t \in Tasks,
             task' = [task EXCEPT ![t] = [NoTask EXCEPT !.pc = "connect"]]
      PROVE  Inv'
  <2> DEFINE x == [NoTask EXCEPT !.pc = "connect"]
  <2>1. task'[t] = x /\ \A u \in Tasks \ {t} : task'[u] = task[u]
    BY <1>6 DEF Inv, Types
  <2>2. task' \in [Tasks -> Downloads]
    BY <1>6, NoTaskType DEF Inv, Types
  <2>3. Types'
    BY <1>2, <1>3, <2>2, Sizes DEF Inv, Types
  <2>4. \A u \in Tasks \ {t} : task'[u].pc = "none" /\ Bounded(task[u])'
    BY <1>1, <2>1 DEF Bounded
  <2>5. One' /\ \A u \in Tasks \ {t} : TaskInv(u)'
    BY <2>4 DEF One, TaskInv, Fetching, Loop, Outcome
  <2>6. /\ x.pc = "connect" /\ x.status = "SUCCESS" /\ x.imageGetStatus = FALSE
        /\ x.totalRead = 0 /\ x.totalWrite = 0 /\ x.flashAddr = 0
    BY DEF NoTask
  <2>7. Bounded(task[t])'
    BY <2>1, NoTaskType DEF Bounded
  <2>8. Fetching(task[t])'
    BY <1>2, <2>1, <2>6 DEF Fetching, Offered
  <2>9. Loop(task[t])' /\ Outcome(task[t])'
    BY <2>1, <2>6 DEF Loop, Outcome
  <2> QED BY <1>4, <2>3, <2>5, <2>7, <2>8, <2>9 DEF Inv, TaskInv
<1> QED BY <1>5, <1>6

LEMMA RestartStep ==
  ASSUME Inv, Restart
  PROVE  Inv'
<1> USE DEF Restart
<1>1. Types'
  <2>1. flash' \in [Cells -> Contents]
    BY ContentsType DEF Inv, Types
  <2>2. NoFile \in Offers \union {NoFile} /\ 0 \in 0..ImageSize /\ 0 \in 0..Block
    BY Sizes
  <2> QED BY <2>1, <2>2, NoTaskType, ContentsType DEF Types, Zeros
<1>2. \A t \in Tasks : task'[t].pc = "none" /\ Bounded(task[t])'
  BY NoTaskType DEF Bounded
<1>3. One' /\ \A t \in Tasks : TaskInv(t)'
  BY <1>2 DEF One, TaskInv, Fetching, Loop, Outcome
<1>4. \A c \in Cells \ InImage : flash'[c] = Erased \/ flash'[c] = flash[c]
  OBVIOUS
<1>5. ImageSize \in Cells \ InImage
  BY Sizes
<1>6. InformationKept'
  BY <1>4 DEF Inv, InformationKept
<1>7. KeyInv'
  BY <1>5, Distinct DEF KeyInv
<1> QED BY <1>1, <1>3, <1>6, <1>7 DEF Inv
-----------------------------------------------------------------------------
(***************************************************************************)
(* The steps of a download.  No other is running.                          *)
(***************************************************************************)
LEMMA Focus ==
  ASSUME Inv, NEW t \in Tasks, task[t].pc # "none",
         NEW x \in Downloads, task' = [task EXCEPT ![t] = x],
         TaskInv(t)'
  PROVE  /\ task' \in [Tasks -> Downloads] /\ task'[t] = x
         /\ One' /\ \A u \in Tasks : TaskInv(u)'
<1>1. /\ task' \in [Tasks -> Downloads] /\ task'[t] = x
      /\ \A u \in Tasks \ {t} : task'[u] = task[u]
  BY DEF Inv, Types
<1>2. \A u \in Tasks \ {t} : task'[u].pc = "none" /\ Bounded(task[u])'
  <2> SUFFICES ASSUME NEW u \in Tasks \ {t}
               PROVE  task'[u].pc = "none" /\ Bounded(task[u])'
    OBVIOUS
  <2>1. task[u].pc = "none"
    BY DEF Inv, One
  <2>2. Bounded(task[u])
    BY DEF Inv, TaskInv
  <2> QED BY <1>1, <2>1, <2>2 DEF Bounded
<1>3. One'
  BY <1>2 DEF One
<1>4. \A u \in Tasks \ {t} : TaskInv(u)'
  BY <1>2 DEF TaskInv, Fetching, Loop, Outcome
<1> QED BY <1>1, <1>3, <1>4

\* While a download runs there is no key.
LEMMA NoKey ==
  ASSUME Inv, NEW t \in Tasks, task[t].pc \notin {"none", "reset"}
  PROVE  flash[ImageSize] # Key
BY DEF Inv, KeyInv, One

\* What a step owes that moves one download.
LEMMA Step ==
  ASSUME Inv, NEW t \in Tasks, task[t].pc \notin {"none", "reset"},
         NEW x \in Downloads, task' = [task EXCEPT ![t] = x],
         Bounded(task[t])', Fetching(task[t])', Loop(task[t])',
         Outcome(task[t])',
         flash' \in [Cells -> Contents],
         firmwareInfo' \in [file : Offers \union {NoFile}, size : 0..ImageSize],
         firmwareBuffer' \in [Positions -> Contents],
         fwWriteBuffer' \in [Positions -> Contents],
         writeBufferOffset' \in 0..Block,
         flash'[ImageSize] = Key => x.pc = "reset",
         InformationKept'
  PROVE  Inv'
<1>1. TaskInv(t)'
  BY DEF TaskInv
<1>2. /\ task' \in [Tasks -> Downloads] /\ task'[t] = x
      /\ One' /\ \A u \in Tasks : TaskInv(u)'
  BY <1>1, Focus
<1>3. Types' /\ KeyInv'
  BY <1>2 DEF Types, KeyInv
<1> QED BY <1>2, <1>3 DEF Inv

\* Erasing changes nothing in the information area.
LEMMA EraseKeeps ==
  ASSUME Inv, NEW ok \in BOOLEAN, IFLASH_Erase(ok)
  PROVE  /\ flash' \in [Cells -> Contents]
         /\ InformationKept' /\ flash'[ImageSize] = flash[ImageSize]
<1>1. flash' \in [Cells -> Contents]
  BY ContentsType DEF IFLASH_Erase, Inv, Types
<1>2. \A c \in Cells \ InImage : flash'[c] = flash[c]
  BY DEF IFLASH_Erase
<1>3. ImageSize \in Cells \ InImage
  BY Sizes
<1> QED BY <1>1, <1>2, <1>3 DEF Inv, InformationKept

LEMMA RefusedStep ==
  ASSUME Inv, NEW t \in Tasks, Refused(t)
  PROVE  Inv'
<1> DEFINE x == [task[t] EXCEPT !.pc = "none"]
<1>1. task[t] \in Downloads /\ task[t].pc = "connect" /\ Bounded(task[t])
  BY DEF Refused, Inv, Types, TaskInv
<1>2. /\ x \in Downloads /\ x.pc = "none"
      /\ task' = [task EXCEPT ![t] = x] /\ task'[t] = x
  BY <1>1 DEF Refused, Goto, Downloads, Steps, Inv, Types
<1>3. Bounded(x)
  BY <1>1 DEF Bounded, Downloads
<1>4. /\ Bounded(task[t])' /\ Fetching(task[t])' /\ Loop(task[t])'
      /\ Outcome(task[t])'
  BY <1>2, <1>3 DEF Bounded, Fetching, Loop, Outcome
<1>5. /\ flash' \in [Cells -> Contents]
      /\ InformationKept' /\ flash'[ImageSize] = flash[ImageSize]
  <2>1. CASE UNCHANGED flash
    BY <2>1 DEF Inv, Types, InformationKept
  <2>2. CASE IFLASH_Erase(FALSE)
    BY <2>2, EraseKeeps
  <2> QED BY <2>1, <2>2 DEF Refused
<1>6. firmwareInfo' \in [file : Offers \union {NoFile}, size : 0..ImageSize]
  <2>1. 0 \in 0..ImageSize
    BY Sizes
  <2> QED BY <2>1 DEF Refused, Clear
<1>7. /\ firmwareBuffer' \in [Positions -> Contents]
      /\ fwWriteBuffer' \in [Positions -> Contents]
      /\ writeBufferOffset' \in 0..Block
  BY DEF Refused, shared, Inv, Types
<1>8. flash'[ImageSize] # Key
  BY <1>1, <1>5, NoKey
<1> HIDE DEF x
<1> QED BY <1>1, <1>2, <1>4, <1>5, <1>6, <1>7, <1>8, Step

LEMMA ConnectStep ==
  ASSUME Inv, NEW t \in Tasks, Connect(t)
  PROVE  Inv'
<1> DEFINE d == task[t]
           x == [d EXCEPT !.pc = "login"]
<1>1. /\ d \in Downloads /\ d.pc = "connect" /\ Bounded(d) /\ Fetching(d)
  BY DEF Connect, Inv, Types, TaskInv
<1>2. /\ x \in Downloads /\ x.pc = "login"
      /\ task' = [task EXCEPT ![t] = x] /\ task'[t] = x
  BY <1>1 DEF Connect, Goto, Downloads, Steps, Inv, Types
<1>3. Bounded(task[t])' /\ Loop(task[t])' /\ Outcome(task[t])'
  BY <1>1, <1>2 DEF Bounded, Downloads, Loop, Outcome
<1>4. Fetching(task[t])'
  BY <1>1, <1>2 DEF Fetching, Downloads, Offered, Connect
<1>5. /\ flash' \in [Cells -> Contents]
      /\ InformationKept' /\ flash'[ImageSize] = flash[ImageSize]
  BY EraseKeeps DEF Connect
<1>6. /\ firmwareInfo' \in [file : Offers \union {NoFile}, size : 0..ImageSize]
      /\ firmwareBuffer' \in [Positions -> Contents]
      /\ fwWriteBuffer' \in [Positions -> Contents]
  BY DEF Connect, Inv, Types
<1>7. writeBufferOffset' \in 0..Block
  BY Sizes DEF Connect
<1>8. flash'[ImageSize] # Key
  BY <1>1, <1>5, NoKey
<1> HIDE DEF x
<1> QED BY <1>1, <1>2, <1>3, <1>4, <1>5, <1>6, <1>7, <1>8, Step

\* A step that leaves the flash and firmwareInfo alone.
LEMMA QuietFlash ==
  ASSUME Inv, NEW t \in Tasks, task[t].pc \notin {"none", "reset"},
         UNCHANGED <<flash, firmwareInfo>>
  PROVE  /\ flash' \in [Cells -> Contents]
         /\ firmwareInfo' \in [file : Offers \union {NoFile}, size : 0..ImageSize]
         /\ InformationKept' /\ flash'[ImageSize] # Key
BY NoKey DEF Inv, Types, InformationKept

\* A step that leaves the buffers alone.
LEMMA QuietBuffers ==
  ASSUME Inv, UNCHANGED shared
  PROVE  /\ firmwareBuffer' \in [Positions -> Contents]
         /\ fwWriteBuffer' \in [Positions -> Contents]
         /\ writeBufferOffset' \in 0..Block
BY DEF Inv, Types, shared

LEMMA OpenFileStep ==
  ASSUME Inv, NEW t \in Tasks, OpenFile(t)
  PROVE  Inv'
<1> DEFINE d == task[t]
           f == firmwareInfo.file
<1>1. /\ d \in Downloads /\ d.pc = "login" /\ Bounded(d) /\ Fetching(d)
      /\ UNCHANGED <<flash, firmwareInfo>> /\ UNCHANGED shared
  BY DEF OpenFile, Inv, Types, TaskInv
<1>2. /\ Offered(f) /\ firmwareInfo.size = f.size /\ f.length \in Nat
      /\ d.totalRead = 0 /\ d.totalWrite = 0 /\ d.flashAddr = 0
      /\ writeBufferOffset = 0
      /\ ~d.imageGetStatus /\ d.status = "SUCCESS"
  BY <1>1, FirmwareAssumption DEF Fetching, Offered
<1>3. ASSUME task' = [task EXCEPT ![t].pc = "read", ![t].file = f]
      PROVE  Inv'
  <2> DEFINE x == [d EXCEPT !.pc = "read", !.file = f]
  <2>1. /\ x \in Downloads /\ x.pc = "read" /\ x.file = f
        /\ x.totalRead = 0 /\ x.totalWrite = 0 /\ x.flashAddr = 0
        /\ ~x.imageGetStatus /\ x.status = "SUCCESS"
        /\ task' = [task EXCEPT ![t] = x] /\ task'[t] = x
    BY <1>1, <1>2, <1>3 DEF Downloads, Steps, Offered, Inv, Types
  <2> HIDE DEF x
  <2>2. Bounded(task[t])'
    <3>1. Bounded(x)
      BY <1>2, <2>1, AlignedZero, Sizes DEF Bounded
    <3> QED BY <2>1, <3>1 DEF Bounded
  <2>3. Fetching(task[t])'
    BY <1>1, <1>2, <2>1 DEF Fetching, Offered
  <2>4. Written(task[t])'
    BY <2>1, Sizes DEF Written
  <2>5. Buffered(task[t])'
    BY <1>1, <1>2, <2>1, Sizes DEF Buffered, shared
  <2>6. Loop(task[t])'
    BY <1>1, <1>2, <2>1, <2>4, <2>5, Sizes DEF Loop, shared
  <2>7. Outcome(task[t])'
    BY <2>1 DEF Outcome
  <2> QED BY <1>1, <2>1, <2>2, <2>3, <2>6, <2>7, QuietFlash, QuietBuffers, Step
<1>4. ASSUME NEW s \in {"LOGIN_ERROR", "FILE_OPEN_ERROR"},
             task' = [task EXCEPT ![t].pc = "report", ![t].status = s]
      PROVE  Inv'
  <2> DEFINE x == [d EXCEPT !.pc = "report", !.status = s]
  <2>1. /\ x \in Downloads /\ x.pc = "report" /\ x.status # "SUCCESS"
        /\ ~x.imageGetStatus /\ x.totalRead = d.totalRead
        /\ x.totalWrite = d.totalWrite /\ x.flashAddr = d.flashAddr
        /\ x.file = d.file
        /\ task' = [task EXCEPT ![t] = x] /\ task'[t] = x
    BY <1>1, <1>2, <1>4 DEF Downloads, Steps, Statuses, Inv, Types
  <2> HIDE DEF x
  <2>2. Bounded(task[t])'
    BY <1>1, <2>1 DEF Bounded
  <2>3. Fetching(task[t])' /\ Loop(task[t])' /\ Outcome(task[t])'
    BY <2>1 DEF Fetching, Loop, Outcome
  <2> QED BY <1>1, <2>1, <2>2, <2>3, QuietFlash, QuietBuffers, Step
<1> QED BY <1>3, <1>4 DEF OpenFile

LEMMA ReadStep ==
  ASSUME Inv, NEW t \in Tasks, ftpReadFile(t)
  PROVE  Inv'
<1> DEFINE d == task[t]
<1>1. /\ d \in Downloads /\ d.pc = "read" /\ Bounded(d) /\ Fetching(d)
      /\ Loop(d)
      /\ UNCHANGED <<flash, firmwareInfo, fwWriteBuffer, writeBufferOffset>>
  BY DEF ftpReadFile, Inv, Types, TaskInv
<1>2. PICK n \in 1..Block :
        /\ d.totalRead + n <= d.file.length
        /\ firmwareBuffer' = [p \in Positions |->
             IF p < n THEN Data(d.file, d.totalRead + p) ELSE firmwareBuffer[p]]
        /\ task' = [task EXCEPT ![t].pc = "fill", ![t].length = n,
                                ![t].totalRead = @ + n]
  BY DEF ftpReadFile
<1> DEFINE x == [d EXCEPT !.pc = "fill", !.length = n, !.totalRead = @ + n]
<1>3. /\ x \in Downloads /\ x.pc = "fill" /\ x.length = n
      /\ x.totalRead = d.totalRead + n /\ x.totalWrite = d.totalWrite
      /\ x.flashAddr = d.flashAddr /\ x.file = d.file
      /\ x.imageGetStatus = d.imageGetStatus /\ x.status = d.status
      /\ task' = [task EXCEPT ![t] = x] /\ task'[t] = x
  <2>1. n \in 0..Block /\ d.totalRead + n \in Nat
    BY <1>1, <1>2, Sizes DEF Downloads
  <2>2. x = [[[d EXCEPT !.pc = "fill"] EXCEPT !.length = n]
               EXCEPT !.totalRead = d.totalRead + n]
    BY <1>1 DEF Downloads
  <2>3. /\ x \in Downloads /\ x.pc = "fill" /\ x.length = n
        /\ x.totalRead = d.totalRead + n /\ x.totalWrite = d.totalWrite
        /\ x.flashAddr = d.flashAddr /\ x.file = d.file
        /\ x.imageGetStatus = d.imageGetStatus /\ x.status = d.status
    BY <1>1, <2>1, <2>2 DEF Downloads, Steps
  <2>4. task' = [task EXCEPT ![t] = x]
    BY <1>2
  <2>5. task'[t] = x
    BY <2>4 DEF Inv, Types
  <2> QED BY <2>3, <2>4, <2>5
<1>4. /\ d.totalRead \in Nat /\ d.totalWrite \in Nat /\ d.flashAddr \in Nat
      /\ d.file \in Offers /\ d.file.size \in Nat /\ d.file.length \in Nat
      /\ d.file = firmwareInfo.file /\ Offered(d.file)
      /\ writeBufferOffset \in 0..Block
  BY <1>1, FirmwareAssumption DEF Downloads, Fetching, Offered, Inv, Types
<1> HIDE DEF x
<1>5. Bounded(task[t])'
  <2>1. Bounded(x)
    BY <1>1, <1>2, <1>3 DEF Bounded
  <2> QED BY <1>3, <2>1 DEF Bounded
<1>6. Fetching(task[t])'
  BY <1>1, <1>3 DEF Fetching, Offered
<1>7. Written(task[t])'
  BY <1>1, <1>3, <1>4 DEF Loop, Written, Complete
<1>8. Buffered(task[t])'
  BY <1>1, <1>3 DEF Loop, Buffered
<1>9. \A p \in Positions : p < n =>
        firmwareBuffer'[p] = Data(d.file, d.flashAddr + writeBufferOffset + p)
  BY <1>1, <1>2, <1>4 DEF Loop
<1>10. Loop(task[t])'
  BY <1>1, <1>3, <1>4, <1>7, <1>8, <1>9 DEF Loop
<1>11. Outcome(task[t])'
  BY <1>3 DEF Outcome
<1>12. firmwareBuffer' \in [Positions -> Contents]
  <2>1. \A p \in Positions : d.totalRead + p \in Nat
    <3> SUFFICES ASSUME NEW p \in Positions
                 PROVE  d.totalRead + p \in Nat
      OBVIOUS
    <3>1. p \in Nat
      BY Sizes
    <3>2. d.totalRead \in Nat
      BY <1>4
    <3> HIDE DEF d
    <3> QED BY <3>1, <3>2
  <2>2. \A p \in Positions : Data(d.file, d.totalRead + p) \in Contents
    BY <1>4, <2>1, ContentsType
  <2> QED BY <1>2, <2>2 DEF Inv, Types
<1>13. /\ fwWriteBuffer' \in [Positions -> Contents]
       /\ writeBufferOffset' \in 0..Block
  BY <1>1 DEF Inv, Types
<1> QED BY <1>1, <1>3, <1>5, <1>6, <1>10, <1>11, <1>12, <1>13, QuietFlash, Step

LEMMA EndOfFileStep ==
  ASSUME Inv, NEW t \in Tasks, EndOfFile(t)
  PROVE  Inv'
<1> DEFINE d == task[t]
           x == [d EXCEPT !.pc = "check"]
<1>1. /\ d \in Downloads /\ d.pc = "read" /\ Bounded(d) /\ Fetching(d)
      /\ Loop(d)
      /\ UNCHANGED <<flash, firmwareInfo>> /\ UNCHANGED shared
  BY DEF EndOfFile, Inv, Types, TaskInv
<1>2. /\ x \in Downloads /\ x.pc = "check"
      /\ x.totalRead = d.totalRead /\ x.totalWrite = d.totalWrite
      /\ x.flashAddr = d.flashAddr /\ x.file = d.file
      /\ x.imageGetStatus = d.imageGetStatus
      /\ task' = [task EXCEPT ![t] = x] /\ task'[t] = x
  BY <1>1 DEF EndOfFile, Goto, Downloads, Steps, Inv, Types
<1> HIDE DEF x
<1>3. Bounded(task[t])'
  BY <1>1, <1>2 DEF Bounded
<1>4. Fetching(task[t])' /\ Loop(task[t])'
  BY <1>1, <1>2 DEF Fetching, Loop, Offered
<1>5. ASSUME d.totalWrite = firmwareInfo.size
      PROVE  Complete(d.file)
  <2>1. /\ d.totalRead \in Nat /\ d.totalWrite \in Nat /\ d.flashAddr \in Nat
        /\ d.file = firmwareInfo.file /\ d.file.size = firmwareInfo.size
        /\ d.file.size \in 1..ImageSize /\ d.file.length \in Nat
        /\ writeBufferOffset \in 0..Block
    BY <1>1, FirmwareAssumption DEF Downloads, Fetching, Offered, Inv, Types
  <2>2. Written(d) /\ d.totalRead = d.flashAddr + writeBufferOffset
        /\ d.totalRead <= d.file.length
    BY <1>1 DEF Loop, Bounded
  <2>3. CASE d.totalWrite = d.flashAddr
    <3>1. d.file.size <= d.file.length
      BY <1>5, <2>1, <2>2, <2>3
    <3>2. \A i \in 0..(d.file.size - 1) : i \in Cells /\ i < d.flashAddr
      BY <1>5, <2>1, <2>3, Sizes
    <3> QED BY <2>2, <3>1, <3>2 DEF Written, Complete
  <2> QED BY <1>5, <2>1, <2>2, <2>3 DEF Written
<1>6. Outcome(task[t])'
  BY <1>1, <1>2, <1>5 DEF Outcome, Complete
<1> QED BY <1>1, <1>2, <1>3, <1>4, <1>6, QuietFlash, QuietBuffers, Step

\* The part of a piece of length l that fits behind the w bytes that are there.
LEMMA Fits ==
  ASSUME NEW l \in 1..Block, NEW w \in 0..(Block - 1), NEW n,
         n = IF l <= Block - w THEN l ELSE Block - w
  PROVE  /\ n \in 1..Block /\ w + n \in 1..Block /\ n <= l
         /\ l - n \in 0..(Block - 1)
         /\ l <= Block - w => n = l
         /\ l > Block - w => w + n = Block
         /\ w + n # Block => n = l /\ w + n < Block
<1>1. CASE l <= Block - w
  BY <1>1, Sizes
<1>2. CASE ~(l <= Block - w)
  BY <1>2, Sizes
<1> QED BY <1>1, <1>2

\* What a filled buffer holds, and what is left of the piece.
Holds(buffer, f, A, w) ==
  \A p \in Positions : /\ p < w => buffer[p] = Data(f, A + p)
                       /\ p >= w /\ A > 0 => buffer[p] = Erased
Piece(piece, f, from, l) ==
  \A p \in Positions : p < l => piece[p] = Data(f, from + p)
Rest(piece, f, from, l, n) ==
  \A p \in Positions : p < l - n => piece[l - (l - n) + p] = Data(f, from + p)
Extended(new, old, piece, w, n) ==
  new = [p \in Positions |-> IF p \in w .. w + n - 1 THEN piece[p - w] ELSE old[p]]

FillIn(f, A, w, l, piece, old, new, n) ==
  /\ A \in Nat /\ w \in 0..(Block - 1) /\ l \in 1..Block
  /\ n = IF l <= Block - w THEN l ELSE Block - w
  /\ Extended(new, old, piece, w, n)
  /\ Piece(piece, f, A + w, l) /\ Holds(old, f, A, w)
FillOut(f, A, w, l, piece, new, n) ==
  /\ Holds(new, f, A, w + n)
  /\ w + n = Block => Rest(piece, f, A + Block, l, n)
  /\ \A p \in w .. w + n - 1 : p - w \in Positions
  /\ A + w + l = A + (w + n) + (l - n)

LEMMA Filled ==
  ASSUME NEW f, NEW A, NEW w, NEW l, NEW piece, NEW old, NEW new, NEW n,
         FillIn(f, A, w, l, piece, old, new, n)
  PROVE  FillOut(f, A, w, l, piece, new, n)
<1>0. /\ A \in Nat /\ w \in 0..(Block - 1) /\ l \in 1..Block
      /\ n = IF l <= Block - w THEN l ELSE Block - w
      /\ Extended(new, old, piece, w, n)
      /\ Piece(piece, f, A + w, l) /\ Holds(old, f, A, w)
  BY DEF FillIn
<1> USE DEF Extended, Piece, Holds, Rest
<1>1. /\ n \in 1..Block /\ w + n \in 1..Block /\ n <= l
      /\ l - n \in 0..(Block - 1)
  BY <1>0, Fits
<1>2. A + w + l = A + (w + n) + (l - n)
  BY <1>0, <1>1, Sizes
<1>3. ASSUME NEW p \in w .. w + n - 1
      PROVE  /\ p - w \in Positions /\ p - w < l
             /\ A + w + (p - w) = A + p
  BY <1>0, <1>1, Sizes
<1>4. ASSUME NEW p \in Positions, p < w + n
      PROVE  new[p] = Data(f, A + p)
  <2>1. CASE p \in w .. w + n - 1
    <3>1. new[p] = piece[p - w]
      BY <1>0, <2>1
    <3> QED BY <1>0, <1>3, <2>1, <3>1
  <2>2. CASE p \notin w .. w + n - 1
    <3>1. p < w
      BY <1>0, <1>1, <1>4, <2>2, Sizes
    <3> QED BY <1>0, <2>2, <3>1
  <2> QED BY <2>1, <2>2
<1>5. ASSUME NEW p \in Positions, p >= w + n, A > 0
      PROVE  new[p] = Erased
  <2>1. p >= w /\ p \notin w .. w + n - 1
    BY <1>0, <1>1, <1>5, Sizes
  <2> QED BY <1>0, <1>5, <2>1
<1>6. ASSUME w + n = Block, NEW p \in Positions, p < l - n
      PROVE  piece[l - (l - n) + p] = Data(f, A + Block + p)
  <2>1. /\ l - (l - n) + p \in Positions /\ l - (l - n) + p < l
        /\ A + w + (l - (l - n) + p) = A + Block + p
    BY <1>0, <1>1, <1>6, Sizes
  <2> QED BY <1>0, <2>1
<1> QED BY <1>2, <1>3, <1>4, <1>5, <1>6 DEF FillOut

LEMMA FillStep ==
  ASSUME Inv, NEW t \in Tasks, Fill(t)
  PROVE  Inv'
<1> DEFINE d == task[t]
           f == d.file
           A == d.flashAddr
           l == d.length
           w == writeBufferOffset
<1>1. /\ d \in Downloads /\ d.pc = "fill" /\ Bounded(d) /\ Fetching(d)
      /\ Loop(d)
      /\ UNCHANGED <<flash, firmwareInfo, firmwareBuffer>>
  BY DEF Fill, Inv, Types, TaskInv
<1>2. A \in Nat /\ l \in 1..Block /\ w \in 0..(Block - 1)
  <2>1. A \in Nat /\ l \in 0..Block /\ w \in 0..Block
    BY <1>1 DEF Downloads, Inv, Types
  <2>2. l > 0 /\ w < Block
    BY <1>1 DEF Loop
  <2> HIDE DEF A, l, w
  <2> QED BY <2>1, <2>2, Sizes
<1>3. /\ d.totalRead = A + w + l
      /\ \A p \in Positions : p < l => firmwareBuffer[p] = Data(f, A + w + p)
      /\ \A p \in Positions :
           /\ p < w => fwWriteBuffer[p] = Data(f, A + p)
           /\ p >= w /\ A > 0 => fwWriteBuffer[p] = Erased
  BY <1>1 DEF Loop, Buffered
<1>4. PICK n : n = IF l <= Block - w THEN l ELSE Block - w
  OBVIOUS
<1> DEFINE pc == IF w + n = Block THEN "flush" ELSE "last"
           x  == [d EXCEPT !.pc = pc, !.rest = l - n]
<1>5. /\ task' = [task EXCEPT ![t] = x]
      /\ writeBufferOffset' = IF l <= Block - w THEN w + l ELSE w
      /\ fwWriteBuffer' = [p \in Positions |->
           IF p \in w .. w + n - 1 THEN firmwareBuffer[p - w]
                                  ELSE fwWriteBuffer[p]]
  BY <1>4 DEF Fill
<1>6. /\ n \in 1..Block /\ w + n \in 1..Block /\ n <= l
      /\ l - n \in 0..(Block - 1)
      /\ l <= Block - w => n = l
      /\ w + n # Block => n = l /\ w + n < Block
  <2> HIDE DEF l, w
  <2> QED BY <1>2, <1>4, Fits
<1>7. /\ Holds(fwWriteBuffer', f, A, w + n)
      /\ w + n = Block => Rest(firmwareBuffer, f, A + Block, l, n)
      /\ \A p \in w .. w + n - 1 : p - w \in Positions
      /\ d.totalRead = A + (w + n) + (l - n)
  <2>1. Extended(fwWriteBuffer', fwWriteBuffer, firmwareBuffer, w, n)
    BY <1>5 DEF Extended
  <2>2. Piece(firmwareBuffer, f, A + w, l) /\ Holds(fwWriteBuffer, f, A, w)
    BY <1>3 DEF Piece, Holds
  <2>3. d.totalRead = A + w + l
    BY <1>3
  <2>4. FillIn(f, A, w, l, firmwareBuffer, fwWriteBuffer, fwWriteBuffer', n)
    BY <1>2, <1>4, <2>1, <2>2 DEF FillIn
  <2>5. FillOut(f, A, w, l, firmwareBuffer, fwWriteBuffer', n)
    BY <2>4, Filled, Zenon
  <2> QED BY <2>3, <2>5 DEF FillOut
<1>8. /\ l - n \in 0..Block
      /\ w + n = Block => d.totalRead = A + Block + (l - n) /\ l - n < Block
                           /\ l - n <= l
                           /\ \A p \in Positions : p < w + n
      /\ w + n # Block => /\ d.totalRead = A + (w + n) /\ w + n < Block
                          /\ writeBufferOffset' = w + n
      /\ writeBufferOffset' \in 0..Block
  <2>1. d.totalRead = A + (w + n) + (l - n)
    BY <1>7
  <2>2. writeBufferOffset' = IF l <= Block - w THEN w + l ELSE w
    BY <1>5
  <2> HIDE DEF A, l, w, d
  <2> QED BY <1>2, <1>4, <1>6, <2>1, <2>2, Sizes
<1>9. /\ pc \in Steps /\ pc \in {"flush", "last"}
      /\ pc = "flush" <=> w + n = Block
  BY DEF Steps
<1> HIDE DEF pc
<1>10. /\ x \in Downloads /\ x.pc = pc /\ x.rest = l - n
       /\ x.length = l
       /\ x.totalRead = d.totalRead /\ x.totalWrite = d.totalWrite
       /\ x.flashAddr = A /\ x.file = f
       /\ x.imageGetStatus = d.imageGetStatus /\ x.status = d.status
  <2>1. l - n \in 0..Block
    BY <1>8
  <2> QED BY <1>1, <1>9, <2>1 DEF Downloads
<1>11. task'[t] = x
  BY <1>5 DEF Inv, Types
<1> HIDE DEF x
<1>12. Bounded(task[t])' /\ Outcome(task[t])'
  BY <1>1, <1>9, <1>10, <1>11 DEF Bounded, Outcome
<1>13. Fetching(task[t])'
  BY <1>1, <1>9, <1>10, <1>11 DEF Fetching, Offered
<1>14. Written(task[t])'
  BY <1>1, <1>9, <1>10, <1>11 DEF Loop, Written, Complete
<1>15. Loop(task[t])'
  <2>1. CASE pc = "flush"
    BY <1>1, <1>7, <1>8, <1>9, <1>10, <1>11, <1>14, <2>1 DEF Loop, Holds, Rest
  <2>2. CASE pc = "last"
    <3>1. Buffered(task[t])'
      BY <1>7, <1>8, <1>9, <1>10, <1>11, <2>2 DEF Buffered, Holds
    <3> QED BY <1>8, <1>9, <1>10, <1>11, <1>14, <2>2, <3>1 DEF Loop
  <2> QED BY <1>9, <2>1, <2>2
<1>16. /\ fwWriteBuffer' \in [Positions -> Contents]
       /\ firmwareBuffer' \in [Positions -> Contents]
  BY <1>1, <1>5, <1>7 DEF Inv, Types
<1> QED BY <1>1, <1>5, <1>8, <1>10, <1>12, <1>13, <1>15, <1>16, QuietFlash, Step

\* A block that is written keeps the key and all but the file out of the
\* information area.
LEMMA WriteKeeps ==
  ASSUME Inv, NEW t \in Tasks, task[t].pc \notin {"none", "reset"},
         NEW A \in Nat, NEW ok \in BOOLEAN, NEW f \in Offers, Offered(f),
         IFLASH_CopyRamToFlash(A, fwWriteBuffer, ok),
         \A p \in Positions : A + p >= ImageSize =>
           \/ fwWriteBuffer[p] = Erased
           \/ (fwWriteBuffer[p] = Data(f, A + p) /\ A + p < f.length)
  PROVE  /\ flash' \in [Cells -> Contents]
         /\ InformationKept' /\ flash'[ImageSize] # Key
<1> USE Sizes
<1>1. /\ \A c \in Cells : flash'[c] \in {flash[c], Junk}
                 \/ (c \in A .. A + Block - 1 /\ flash'[c] = fwWriteBuffer[c - A])
      /\ \A c \in Cells : c \notin A .. A + Block - 1 => flash'[c] = flash[c]
      /\ \A c \in A .. A + Block - 1 :
           fwWriteBuffer[c - A] \in {Erased, flash[c]} => flash'[c] = flash[c]
  BY BlockWritten
<1>2. \A c \in A .. A + Block - 1 : c - A \in Positions /\ A + (c - A) = c
  OBVIOUS
<1>3. flash \in [Cells -> Contents] /\ fwWriteBuffer \in [Positions -> Contents]
  BY DEF Inv, Types
<1>4. flash' \in [Cells -> Contents]
  <2>1. flash' = [c \in Cells |-> flash'[c]]
    BY <1>3 DEF IFLASH_CopyRamToFlash, Programmed
  <2>2. \A c \in Cells : flash'[c] \in Contents
    BY <1>1, <1>2, <1>3, ContentsType
  <2> QED BY <2>1, <2>2
<1>5. ASSUME NEW c \in Cells \ InImage, c \in A .. A + Block - 1
      PROVE  flash'[c] = flash[c] \/ flash'[c] \in Surplus(c)
  <2>1. c - A \in Positions /\ A + (c - A) >= ImageSize /\ A + (c - A) = c
    BY <1>2, <1>5
  <2>2. CASE fwWriteBuffer[c - A] = Erased
    BY <1>1, <1>5, <2>2
  <2>3. CASE fwWriteBuffer[c - A] = Data(f, c) /\ c < f.length
    <3>1. f.size <= ImageSize /\ f.length > c
      BY <2>3, FirmwareAssumption DEF Offered
    <3>2. f \in Longer(c)
      BY <3>1 DEF Longer
    <3>3. Junk \in Surplus(c) /\ Data(f, c) \in Surplus(c)
      BY <3>2 DEF Surplus
    <3>4. flash'[c] \in {flash[c], Junk, Data(f, c)}
      BY <1>1, <2>3
    <3> QED BY <3>3, <3>4
  <2> QED BY <2>1, <2>2, <2>3
<1>6. \A c \in Cells \ InImage : flash'[c] = flash[c] \/ flash'[c] \in Surplus(c)
  BY <1>1, <1>5
<1>7. InformationKept'
  BY <1>6 DEF Inv, InformationKept
<1>8. flash'[ImageSize] # Key
  <2>1. ImageSize \in Cells \ InImage
    OBVIOUS
  <2>2. flash[ImageSize] # Key /\ Key \notin Surplus(ImageSize)
    BY NoKey, Distinct DEF Surplus
  <2> QED BY <1>6, <2>1, <2>2
<1> QED BY <1>4, <1>7, <1>8

LEMMA CheckStep ==
  ASSUME Inv, NEW t \in Tasks, Check(t)
  PROVE  Inv'
<1> DEFINE d == task[t]
<1>1. /\ d \in Downloads /\ d.pc = "check" /\ Bounded(d) /\ Fetching(d)
      /\ Outcome(d)
      /\ UNCHANGED firmwareInfo /\ UNCHANGED shared
  BY DEF Check, Inv, Types, TaskInv
<1>2. firmwareInfo' \in [file : Offers \union {NoFile}, size : 0..ImageSize]
  BY <1>1 DEF Inv, Types
<1>3. CASE d.totalWrite # firmwareInfo.size
  <2> DEFINE x == [d EXCEPT !.pc = "report",
                            !.status = IF @ = "SUCCESS" THEN "FILE_SIZE_ERROR" ELSE @]
  <2>1. /\ x \in Downloads /\ x.pc = "report" /\ x.status # "SUCCESS"
        /\ ~x.imageGetStatus /\ x.totalRead = d.totalRead
        /\ x.totalWrite = d.totalWrite /\ x.flashAddr = d.flashAddr
        /\ x.file = d.file
    BY <1>1 DEF Downloads, Steps, Statuses, Fetching
  <2>2. task' = [task EXCEPT ![t] = x]
    BY <1>1, <1>3 DEF Check
  <2>3. task'[t] = x
    BY <2>2 DEF Inv, Types
  <2> HIDE DEF x
  <2>4. Bounded(task[t])'
    BY <1>1, <2>1, <2>3 DEF Bounded
  <2>5. Fetching(task[t])' /\ Loop(task[t])' /\ Outcome(task[t])'
    BY <2>1, <2>3 DEF Fetching, Loop, Outcome
  <2>6. PICK ok \in BOOLEAN : IFLASH_Erase(ok)
    BY <1>3 DEF Check
  <2>7. /\ flash' \in [Cells -> Contents]
        /\ InformationKept' /\ flash'[ImageSize] # Key
    BY <1>1, <2>6, EraseKeeps, NoKey
  <2> QED BY <1>1, <1>2, <2>1, <2>2, <2>4, <2>5, <2>7, QuietBuffers, Step
<1>4. CASE d.totalWrite = firmwareInfo.size
  <2> DEFINE x == [d EXCEPT !.pc = "report", !.imageGetStatus = TRUE]
  <2>1. /\ x \in Downloads /\ x.pc = "report"
        /\ x.imageGetStatus /\ x.totalRead = d.totalRead
        /\ x.totalWrite = d.totalWrite /\ x.flashAddr = d.flashAddr
        /\ x.file = d.file
    BY <1>1 DEF Downloads, Steps
  <2>2. task' = [task EXCEPT ![t] = x] /\ UNCHANGED flash
    BY <1>1, <1>4 DEF Check
  <2>3. task'[t] = x
    BY <2>2 DEF Inv, Types
  <2> HIDE DEF x
  <2>4. Bounded(task[t])'
    BY <1>1, <2>1, <2>3 DEF Bounded
  <2>5. Fetching(task[t])' /\ Loop(task[t])'
    BY <2>1, <2>3 DEF Fetching, Loop
  <2>6. Offered(d.file) /\ Complete(d.file)
    BY <1>1, <1>4 DEF Fetching, Outcome
  <2>7. Outcome(task[t])'
    BY <2>1, <2>2, <2>3, <2>6 DEF Outcome, Complete, Offered
  <2> QED BY <1>1, <2>1, <2>2, <2>4, <2>5, <2>7, QuietFlash, QuietBuffers, Step
<1> QED BY <1>3, <1>4

LEMMA ReportStep ==
  ASSUME Inv, NEW t \in Tasks, Report(t)
  PROVE  Inv'
<1> DEFINE d == task[t]
<1>1. /\ d \in Downloads /\ d.pc = "report" /\ Bounded(d) /\ Outcome(d)
      /\ UNCHANGED flash /\ UNCHANGED shared /\ Clear
  BY DEF Report, Inv, Types, TaskInv
<1>2. firmwareInfo' \in [file : Offers \union {NoFile}, size : 0..ImageSize]
  <2>1. 0 \in 0..ImageSize
    BY Sizes
  <2> QED BY <1>1, <2>1 DEF Clear
<1>3. /\ flash' \in [Cells -> Contents]
      /\ InformationKept' /\ flash'[ImageSize] # Key
  BY <1>1, NoKey DEF Inv, Types, InformationKept
<1>4. CASE d.imageGetStatus
  <2> DEFINE x == [d EXCEPT !.pc = "key"]
  <2>1. /\ x \in Downloads /\ x.pc = "key" /\ x.totalRead = d.totalRead
        /\ x.totalWrite = d.totalWrite /\ x.flashAddr = d.flashAddr
        /\ x.file = d.file
    BY <1>1 DEF Downloads, Steps
  <2>2. task' = [task EXCEPT ![t] = x]
    BY <1>4 DEF Report, Goto
  <2>3. task'[t] = x
    BY <2>2 DEF Inv, Types
  <2> HIDE DEF x
  <2>4. Bounded(task[t])'
    BY <1>1, <2>1, <2>3 DEF Bounded
  <2>5. Fetching(task[t])' /\ Loop(task[t])'
    BY <2>1, <2>3 DEF Fetching, Loop
  <2>6. Offered(d.file) /\ Complete(d.file)
    BY <1>1, <1>4 DEF Outcome
  <2>7. Outcome(task[t])'
    BY <1>1, <2>1, <2>3, <2>6 DEF Outcome, Complete, Offered
  <2> QED BY <1>1, <1>2, <1>3, <2>1, <2>2, <2>4, <2>5, <2>7, QuietBuffers, Step
<1>5. CASE ~d.imageGetStatus
  <2>1. task' = [task EXCEPT ![t] = NoTask]
    BY <1>5 DEF Report
  <2>2. task'[t] = NoTask
    BY <2>1 DEF Inv, Types
  <2>3. Bounded(task[t])'
    BY <2>2, NoTaskType DEF Bounded
  <2>4. Fetching(task[t])' /\ Loop(task[t])' /\ Outcome(task[t])'
    BY <2>2, NoTaskType DEF Fetching, Loop, Outcome
  <2> QED BY <1>1, <1>2, <1>3, <2>1, <2>3, <2>4, NoTaskType, QuietBuffers, Step
<1> QED BY <1>4, <1>5

LEMMA WriteKeyStep ==
  ASSUME Inv, NEW t \in Tasks, WriteKey(t)
  PROVE  Inv'
<1> DEFINE d == task[t]
<1>1. /\ d \in Downloads /\ d.pc = "key" /\ Bounded(d) /\ Outcome(d)
      /\ UNCHANGED firmwareInfo /\ UNCHANGED shared
  BY DEF WriteKey, Inv, Types, TaskInv
<1>2. firmwareInfo' \in [file : Offers \union {NoFile}, size : 0..ImageSize]
  BY <1>1 DEF Inv, Types
<1>3. PICK ok \in BOOLEAN :
        /\ Programmed([c \in {ImageSize} |-> Key], ok)
        /\ IF ok THEN Goto(t, "reset")
           ELSE task' = [task EXCEPT ![t] = NoTask]
  BY DEF WriteKey
<1>4. /\ ImageSize \in Cells \ InImage
      /\ \A c \in InImage : c \in Cells /\ c # ImageSize
  BY Sizes
<1>5. /\ \A c \in Cells : c # ImageSize => flash'[c] = flash[c]
      /\ flash'[ImageSize] \in {flash[ImageSize], Junk, Key}
      /\ ~ok => flash'[ImageSize] \in {flash[ImageSize], Junk}
      /\ flash' = [c \in Cells |-> flash'[c]]
  BY <1>3, <1>4 DEF Programmed
<1>6. flash' \in [Cells -> Contents]
  <2>1. \A c \in Cells : flash'[c] \in Contents
    BY <1>5, ContentsType DEF Inv, Types
  <2> QED BY <1>5, <2>1
<1>7. InformationKept'
  BY <1>5 DEF Inv, InformationKept
<1>8. Offered(d.file) /\ Complete(d.file)
  BY <1>1 DEF Outcome
<1>9. \A i \in 0..(d.file.size - 1) : flash'[i] = Data(d.file, i)
  <2>1. \A i \in 0..(d.file.size - 1) : i \in InImage
    BY <1>8, Sizes DEF Offered
  <2> QED BY <1>4, <1>5, <1>8, <2>1 DEF Complete
<1>10. CASE ok
  <2> DEFINE x == [d EXCEPT !.pc = "reset"]
  <2>1. /\ x \in Downloads /\ x.pc = "reset" /\ x.totalRead = d.totalRead
        /\ x.totalWrite = d.totalWrite /\ x.flashAddr = d.flashAddr
        /\ x.file = d.file
    BY <1>1 DEF Downloads, Steps
  <2>2. task' = [task EXCEPT ![t] = x]
    BY <1>3, <1>10 DEF Goto
  <2>3. task'[t] = x
    BY <2>2 DEF Inv, Types
  <2> HIDE DEF x
  <2>4. Bounded(task[t])'
    BY <1>1, <2>1, <2>3 DEF Bounded
  <2>5. Fetching(task[t])' /\ Loop(task[t])'
    BY <2>1, <2>3 DEF Fetching, Loop
  <2>6. Outcome(task[t])'
    BY <1>8, <1>9, <2>1, <2>3 DEF Outcome, Complete, Offered
  <2> QED BY <1>1, <1>2, <1>6, <1>7, <2>1, <2>2, <2>4, <2>5, <2>6, QuietBuffers, Step
<1>11. CASE ~ok
  <2>1. task' = [task EXCEPT ![t] = NoTask]
    BY <1>3, <1>11
  <2>2. task'[t] = NoTask
    BY <2>1 DEF Inv, Types
  <2>3. Bounded(task[t])'
    BY <2>2, NoTaskType DEF Bounded
  <2>4. Fetching(task[t])' /\ Loop(task[t])' /\ Outcome(task[t])'
    BY <2>2, NoTaskType DEF Fetching, Loop, Outcome
  <2>5. flash'[ImageSize] # Key
    BY <1>1, <1>5, <1>11, NoKey, Distinct
  <2> QED BY <1>1, <1>2, <1>6, <1>7, <2>1, <2>3, <2>4, <2>5, NoTaskType, QuietBuffers, Step
<1> QED BY <1>10, <1>11

\* What a download knows in its loop, with the types that arithmetic needs.
LEMMA LoopTypes ==
  ASSUME Inv, NEW t \in Tasks, task[t].pc \in {"read", "fill", "flush", "last"}
  PROVE  /\ task[t] \in Downloads /\ Written(task[t])
         /\ task[t].file \in Offers /\ Offered(task[t].file)
         /\ task[t].file = firmwareInfo.file
         /\ firmwareInfo.size = task[t].file.size
         /\ task[t].file.size \in 1..ImageSize /\ task[t].file.length \in Nat
         /\ task[t].flashAddr \in Nat /\ Aligned(task[t].flashAddr)
         /\ task[t].totalRead \in Nat /\ task[t].totalWrite \in Nat
         /\ task[t].totalRead <= task[t].file.length
         /\ task[t].totalWrite <= task[t].file.length + Block
         /\ task[t].length \in 0..Block /\ task[t].rest \in 0..Block
         /\ writeBufferOffset \in 0..Block
         /\ ~task[t].imageGetStatus /\ task[t].status = "SUCCESS"
<1>1. /\ task[t] \in Downloads /\ Bounded(task[t]) /\ Fetching(task[t])
      /\ Loop(task[t]) /\ writeBufferOffset \in 0..Block
  BY DEF Inv, TaskInv, Types
<1>2. Written(task[t]) /\ task[t].file = firmwareInfo.file
      /\ Offered(task[t].file) /\ firmwareInfo.size = task[t].file.size
      /\ ~task[t].imageGetStatus /\ task[t].status = "SUCCESS"
  BY <1>1 DEF Loop, Fetching
<1>3. task[t].file \in Offers /\ task[t].file.size \in 1..ImageSize
      /\ task[t].file.length \in Nat
  BY <1>2, FirmwareAssumption DEF Offered
<1> QED BY <1>1, <1>2, <1>3 DEF Downloads, Bounded

\* A write that fails ends the loop; it counts as complete only if it was.
LEMMA WriteFails ==
  ASSUME Inv, NEW t \in Tasks, task[t].pc \in {"read", "fill", "flush", "last"},
         task[t].pc # "read", FlashError(t),
         UNCHANGED <<firmwareInfo, firmwareBuffer, fwWriteBuffer, writeBufferOffset>>,
         flash' \in [Cells -> Contents],
         InformationKept', flash'[ImageSize] # Key,
         task[t].totalWrite = task[t].file.size
           => /\ task[t].file.size <= task[t].file.length
              /\ \A i \in 0..(task[t].file.size - 1) :
                   flash'[i] = Data(task[t].file, i)
  PROVE  Inv'
<1> DEFINE d == task[t]
           x == [d EXCEPT !.pc = "check", !.status = "FLASH_ERROR"]
<1>1. /\ d \in Downloads /\ Bounded(d) /\ Fetching(d)
  BY DEF Inv, Types, TaskInv
<1>2. /\ x \in Downloads /\ x.pc = "check" /\ x.totalRead = d.totalRead
      /\ x.totalWrite = d.totalWrite /\ x.flashAddr = d.flashAddr
      /\ x.file = d.file /\ x.imageGetStatus = d.imageGetStatus
  BY <1>1 DEF Downloads, Steps, Statuses
<1>3. task' = [task EXCEPT ![t] = x]
  BY DEF FlashError
<1>4. task'[t] = x
  BY <1>3 DEF Inv, Types
<1> HIDE DEF x
<1>5. Bounded(task[t])'
  BY <1>1, <1>2, <1>4 DEF Bounded
<1>6. Fetching(task[t])' /\ Loop(task[t])'
  BY <1>1, <1>2, <1>4 DEF Fetching, Loop, Offered
<1>7. firmwareInfo.size = d.file.size
  BY <1>1 DEF Fetching
<1>8. Outcome(task[t])'
  BY <1>2, <1>4, <1>7 DEF Outcome, Complete
<1>9. /\ firmwareInfo' \in [file : Offers \union {NoFile}, size : 0..ImageSize]
      /\ firmwareBuffer' \in [Positions -> Contents]
      /\ fwWriteBuffer' \in [Positions -> Contents]
      /\ writeBufferOffset' \in 0..Block
  BY DEF Inv, Types
<1> QED BY <1>2, <1>3, <1>5, <1>6, <1>8, <1>9, Step

\* Arithmetic of a flush, apart from everything else.
FlushIn(A, W, R, r, size, length) ==
  /\ A \in Nat /\ W \in Nat /\ R \in Nat /\ r \in 0..(Block - 1)
  /\ size \in Nat /\ length \in Nat
  /\ R = A + Block + r /\ R <= length
  /\ W = A \/ (W >= size /\ W < A + Block /\ R > size)
FlushOut(A, W, R, r, size, length) ==
  /\ W + Block \in Nat /\ A + Block \in Nat
  /\ A + Block > 0 /\ R = (A + Block) + r
  /\ W + Block <= length + Block
  /\ \/ W + Block = A + Block
     \/ /\ W + Block >= size /\ W + Block < (A + Block) + Block
        /\ R >= size /\ W + Block # size
  /\ \A p \in Positions : A + p < length
  /\ W = size => size <= length

LEMMA FlushSums ==
  ASSUME NEW A, NEW W, NEW R, NEW r, NEW size, NEW length,
         FlushIn(A, W, R, r, size, length)
  PROVE  FlushOut(A, W, R, r, size, length)
BY Sizes DEF FlushIn, FlushOut

LEMMA FlushStep ==
  ASSUME Inv, NEW t \in Tasks, Flush(t)
  PROVE  Inv'
<1> DEFINE d == task[t]
           f == d.file
           A == d.flashAddr
           W == d.totalWrite
           R == d.totalRead
           r == d.rest
<1>1. /\ d.pc = "flush" /\ UNCHANGED <<firmwareInfo, firmwareBuffer>>
      /\ Loop(d) /\ Fetching(d)
  BY DEF Flush, Inv, TaskInv
<1>2. /\ d \in Downloads /\ Written(d) /\ f \in Offers /\ Offered(f)
      /\ f.size \in 1..ImageSize /\ f.length \in Nat
      /\ A \in Nat /\ Aligned(A) /\ R \in Nat /\ W \in Nat /\ R <= f.length
      /\ d.length \in 0..Block
  BY <1>1, LoopTypes
<1>3. /\ R = A + Block + r /\ r <= d.length
      /\ \A p \in Positions : fwWriteBuffer[p] = Data(f, A + p)
      /\ \A p \in Positions : p < r =>
           firmwareBuffer[d.length - r + p] = Data(f, A + Block + p)
  BY <1>1 DEF Loop
<1>4. r \in 0..(Block - 1)
  <2>1. r \in 0..Block /\ r < Block
    BY <1>1, LoopTypes DEF Loop
  <2> HIDE DEF r
  <2> QED BY <2>1, Sizes
<1>5. W = A \/ (W >= f.size /\ W < A + Block /\ R > f.size)
  BY <1>1, <1>2 DEF Written
<1>6. /\ W + Block \in Nat /\ A + Block \in Nat
      /\ A + Block > 0 /\ R = (A + Block) + r
      /\ W + Block <= f.length + Block
      /\ \/ W + Block = A + Block
         \/ /\ W + Block >= f.size /\ W + Block < (A + Block) + Block
            /\ R >= f.size /\ W + Block # f.size
      /\ \A p \in Positions : A + p < f.length
      /\ W = f.size => f.size <= f.length
  <2>1. FlushIn(A, W, R, r, f.size, f.length)
    <3>1. f.size \in Nat
      BY <1>2, Sizes
    <3> QED BY <1>2, <1>3, <1>4, <1>5, <3>1 DEF FlushIn
  <2>2. FlushOut(A, W, R, r, f.size, f.length)
    BY <2>1, FlushSums, Zenon
  <2> QED BY <2>2 DEF FlushOut
<1>7. \A i \in 0..(f.size - 1) : i \in Cells
  BY <1>2, Sizes
<1>8. \A c \in A .. A + Block - 1 : /\ c - A \in Positions /\ A + (c - A) = c
                                    /\ fwWriteBuffer[c - A] = Data(f, c)
  <2>1. \A c \in A .. A + Block - 1 : c - A \in Positions /\ A + (c - A) = c
    <3> HIDE DEF A
    <3> QED BY <1>2, Sizes
  <2> QED BY <1>3, <2>1
<1>9. ASSUME NEW ok \in BOOLEAN, IFLASH_CopyRamToFlash(A, fwWriteBuffer, ok)
      PROVE  /\ flash' \in [Cells -> Contents]
             /\ InformationKept' /\ flash'[ImageSize] # Key
  BY <1>1, <1>2, <1>3, <1>6, <1>9, WriteKeeps
<1>10. CASE /\ IFLASH_CopyRamToFlash(d.flashAddr, fwWriteBuffer, TRUE)
            /\ fwWriteBuffer' = [p \in Positions |->
                 IF p < d.rest THEN firmwareBuffer[d.length - d.rest + p] ELSE Erased]
            /\ writeBufferOffset' = d.rest
            /\ task' = [task EXCEPT ![t].pc = "last", ![t].totalWrite = @ + Block,
                                    ![t].flashAddr = @ + Block]
  <2> DEFINE x == [d EXCEPT !.pc = "last", !.totalWrite = @ + Block,
                            !.flashAddr = @ + Block]
  <2>1. /\ x \in Downloads /\ x.pc = "last" /\ x.totalRead = R
        /\ x.totalWrite = W + Block /\ x.flashAddr = A + Block /\ x.file = f
        /\ x.imageGetStatus = d.imageGetStatus /\ x.status = d.status
    <3>1. x = [[[d EXCEPT !.pc = "last"] EXCEPT !.totalWrite = W + Block]
                EXCEPT !.flashAddr = A + Block]
      BY <1>2 DEF Downloads
    <3> QED BY <1>2, <1>6, <3>1 DEF Downloads, Steps
  <2>2. task' = [task EXCEPT ![t] = x]
    BY <1>10
  <2>3. task'[t] = x
    BY <2>2 DEF Inv, Types
  <2> HIDE DEF x
  <2>4. Bounded(task[t])'
    <3>1. Aligned(A + Block)
      BY <1>2, AlignedNext
    <3> QED BY <1>2, <1>6, <2>1, <2>3, <3>1 DEF Bounded
  <2>5. Fetching(task[t])' /\ Outcome(task[t])'
    BY <1>1, <2>1, <2>3 DEF Fetching, Outcome, Offered
  <2>6. \A i \in Cells : i < A + Block => flash'[i] = Data(f, i)
    <3> SUFFICES ASSUME NEW i \in Cells, i < A + Block
                 PROVE  flash'[i] = Data(f, i)
      OBVIOUS
    <3>1. CASE i < A
      <4>1. i \notin A .. A + Block - 1
        BY <1>2, <3>1, Sizes
      <4>2. flash'[i] = flash[i]
        BY <1>2, <1>10, <4>1, BlockWritten
      <4> QED BY <1>2, <3>1, <4>2 DEF Written
    <3>2. CASE ~(i < A)
      <4>1. i \in A .. A + Block - 1
        BY <1>2, <3>2, Sizes
      <4>2. /\ i \in Cells /\ fwWriteBuffer[i - A] = Data(f, i)
            /\ fwWriteBuffer[i - A] # Erased
        BY <1>8, <4>1, Distinct
      <4>3. \A c \in Cells : c \in A .. A + Block - 1
              /\ fwWriteBuffer[c - A] # Erased => flash'[c] = fwWriteBuffer[c - A]
        BY <1>2, <1>10, BlockWritten
      <4> QED BY <4>1, <4>2, <4>3
    <3> QED BY <3>1, <3>2
  <2>7. Written(task[t])'
    <3>1. /\ task'[t].file = f /\ task'[t].flashAddr = A + Block
          /\ task'[t].totalRead = R /\ task'[t].totalWrite = W + Block
      BY <2>1, <2>3
    <3>2. \A i \in Cells : i < task'[t].flashAddr
                            => flash'[i] = Data(task'[t].file, i)
      BY <2>6, <3>1
    <3>3. \/ W + Block = A + Block
          \/ /\ W + Block >= f.size /\ W + Block < (A + Block) + Block
             /\ R >= f.size /\ R > f.size /\ W + Block # f.size
      BY <1>5, <1>6
    <3>4. \/ task'[t].totalWrite = task'[t].flashAddr
          \/ /\ task'[t].totalWrite >= task'[t].file.size
             /\ task'[t].totalWrite < task'[t].flashAddr + Block
             /\ task'[t].totalRead >= task'[t].file.size
             /\ task'[t].totalRead > task'[t].file.size
             /\ task'[t].totalWrite # task'[t].file.size
      BY <3>1, <3>3, Zenon
    <3> QED BY <3>2, <3>4, Zenon DEF Written
  <2>8. Buffered(task[t])'
    <3>1. \A p \in Positions : p < r => fwWriteBuffer'[p] = Data(f, A + Block + p)
      BY <1>3, <1>10
    <3>2. \A p \in Positions : p >= r => fwWriteBuffer'[p] = Erased
      BY <1>4, <1>10, Sizes
    <3> QED BY <1>10, <2>1, <2>3, <3>1, <3>2 DEF Buffered
  <2>9. Loop(task[t])'
    <3>1. r < Block
      BY <1>4, Sizes
    <3>2. R = (A + Block) + r /\ writeBufferOffset' = r
      BY <1>6, <1>10
    <3> QED BY <2>1, <2>3, <2>7, <2>8, <3>1, <3>2 DEF Loop
  <2>10. /\ firmwareInfo' \in [file : Offers \union {NoFile}, size : 0..ImageSize]
         /\ firmwareBuffer' \in [Positions -> Contents]
    BY <1>1 DEF Inv, Types
  <2>11. fwWriteBuffer' \in [Positions -> Contents]
    <3>1. \A p \in Positions : p < r => A + Block + p \in Nat
      BY <1>6, Sizes
    <3>2. \A p \in Positions : p < r => firmwareBuffer[d.length - r + p] \in Contents
      BY <1>2, <1>3, <3>1, ContentsType
    <3> QED BY <1>10, <3>2, ContentsType
  <2>12. writeBufferOffset' \in 0..Block
    BY <1>4, <1>10, Sizes
  <2>13. d.pc \notin {"none", "reset"}
    BY <1>1
  <2> QED BY <1>9, <1>10, <2>1, <2>2, <2>4, <2>5, <2>9, <2>10, <2>11, <2>12, <2>13, Step
<1>11. CASE /\ IFLASH_CopyRamToFlash(d.flashAddr, fwWriteBuffer, FALSE)
            /\ FlashError(t)
            /\ UNCHANGED <<fwWriteBuffer, writeBufferOffset>>
  <2>1. ASSUME W = f.size, NEW i \in 0..(f.size - 1)
        PROVE  flash'[i] = Data(f, i)
    <3>1. flash[i] = Data(f, i)
      <4>1. CASE W = A
        BY <1>2, <1>7, <2>1, <4>1 DEF Written
      <4>2. CASE W # A
        BY <1>2, <2>1, <4>2 DEF Written, Complete
      <4> QED BY <4>1, <4>2
    <3>2. CASE i \in A .. A + Block - 1
      <4>1. fwWriteBuffer[i - A] = flash[i]
        BY <1>8, <3>1, <3>2
      <4>2. \A c \in A .. A + Block - 1 :
              fwWriteBuffer[c - A] \in {Erased, flash[c]} => flash'[c] = flash[c]
        BY <1>2, <1>11, BlockWritten
      <4> QED BY <3>1, <3>2, <4>1, <4>2
    <3>3. CASE i \notin A .. A + Block - 1
      BY <1>2, <1>7, <1>11, <3>1, <3>3, BlockWritten
    <3> QED BY <3>2, <3>3
  <2>2. /\ flash' \in [Cells -> Contents]
        /\ InformationKept' /\ flash'[ImageSize] # Key
    BY <1>9, <1>11
  <2> QED BY <1>1, <1>6, <1>11, <2>1, <2>2, WriteFails
<1> QED BY <1>10, <1>11 DEF Flush

\* The last block, when as much was read as was announced.
LastIn(A, W, R, w, size, length) ==
  /\ A \in Nat /\ W \in Nat /\ R \in Nat /\ w \in 0..(Block - 1)
  /\ size \in Nat /\ length \in Nat
  /\ R = A + w /\ R <= length /\ R = size
  /\ W = A \/ (W >= size /\ W < A + Block /\ R > size)
LastOut(A, W, w, size, length) ==
  /\ W = A /\ W + w = size /\ W + w \in Nat /\ W + w < A + Block
  /\ W + w <= length + Block /\ size <= length
  /\ \A i \in 0..(size - 1) : i >= A =>
       /\ i \in A .. A + Block - 1 /\ i - A \in Positions
       /\ i - A < w /\ A + (i - A) = i
  /\ \A p \in Positions : A + p >= ImageSize =>
       A > 0 /\ (p >= w \/ A + p < length)

LEMMA LastSums ==
  ASSUME NEW A, NEW W, NEW R, NEW w, NEW size, NEW length,
         LastIn(A, W, R, w, size, length)
  PROVE  LastOut(A, W, w, size, length)
BY Sizes DEF LastIn, LastOut

LEMMA LastStep ==
  ASSUME Inv, NEW t \in Tasks, Last(t)
  PROVE  Inv'
<1> DEFINE d == task[t]
           f == d.file
           A == d.flashAddr
           W == d.totalWrite
           R == d.totalRead
           w == writeBufferOffset
<1>1. /\ d.pc = "last" /\ d.pc \notin {"none", "reset"}
      /\ UNCHANGED firmwareInfo /\ UNCHANGED shared
      /\ Loop(d) /\ Fetching(d) /\ Bounded(d)
  BY DEF Last, Inv, TaskInv
<1>2. /\ d \in Downloads /\ Written(d) /\ f \in Offers /\ Offered(f)
      /\ f.size \in 1..ImageSize /\ f.length \in Nat /\ f.size = firmwareInfo.size
      /\ A \in Nat /\ Aligned(A) /\ R \in Nat /\ W \in Nat /\ R <= f.length
      /\ w \in 0..Block
  BY <1>1, LoopTypes
<1>3. R = A + w /\ w < Block /\ Buffered(d)
  BY <1>1 DEF Loop
<1>4. W = A \/ (W >= f.size /\ W < A + Block /\ R > f.size)
  BY <1>1, <1>2 DEF Written
<1>5. \A i \in 0..(f.size - 1) : i \in Cells
  BY <1>2, Sizes
<1>6. /\ firmwareInfo' \in [file : Offers \union {NoFile}, size : 0..ImageSize]
      /\ firmwareBuffer' \in [Positions -> Contents]
      /\ fwWriteBuffer' \in [Positions -> Contents]
      /\ writeBufferOffset' \in 0..Block
      /\ fwWriteBuffer' = fwWriteBuffer /\ writeBufferOffset' = w
  BY <1>1 DEF Inv, Types, shared
<1>7. CASE R # firmwareInfo.size
  <2> DEFINE x == [d EXCEPT !.pc = "read"]
  <2>1. /\ x \in Downloads /\ x.pc = "read" /\ x.totalRead = R
        /\ x.totalWrite = W /\ x.flashAddr = A /\ x.file = f
        /\ x.imageGetStatus = d.imageGetStatus /\ x.status = d.status
    BY <1>2 DEF Downloads, Steps
  <2>2. task' = [task EXCEPT ![t] = x] /\ UNCHANGED <<flash, firmwareInfo>>
    BY <1>7 DEF Last, Goto
  <2>3. task'[t] = x
    BY <2>2 DEF Inv, Types
  <2> HIDE DEF x
  <2>4. Bounded(task[t])'
    BY <1>1, <2>1, <2>3 DEF Bounded
  <2>5. Fetching(task[t])' /\ Outcome(task[t])'
    BY <1>1, <2>1, <2>3 DEF Fetching, Outcome, Offered
  <2>6. Written(task[t])'
    BY <1>1, <1>2, <2>1, <2>2, <2>3 DEF Written, Complete
  <2>7. Buffered(task[t])'
    BY <1>3, <1>6, <2>1, <2>3 DEF Buffered
  <2>8. Loop(task[t])'
    BY <1>3, <1>6, <2>1, <2>3, <2>6, <2>7 DEF Loop
  <2> QED BY <1>1, <1>6, <2>1, <2>2, <2>4, <2>5, <2>8, QuietFlash, Step
<1>8. CASE R = firmwareInfo.size
  <2>1. /\ W = A /\ W + w = f.size /\ W + w \in Nat /\ W + w < A + Block
        /\ W + w <= f.length + Block /\ f.size <= f.length
        /\ \A i \in 0..(f.size - 1) : i >= A =>
             /\ i \in A .. A + Block - 1 /\ i - A \in Positions
             /\ i - A < w /\ A + (i - A) = i
        /\ \A p \in Positions : A + p >= ImageSize =>
             A > 0 /\ (p >= w \/ A + p < f.length)
    <3>1. LastIn(A, W, R, w, f.size, f.length)
      <4>1. f.size \in Nat /\ R = f.size
        BY <1>2, <1>8, Sizes
      <4>2. w \in 0..(Block - 1)
        <5> HIDE DEF w
        <5> QED BY <1>2, <1>3, Sizes
      <4> QED BY <1>2, <1>3, <1>4, <4>1, <4>2 DEF LastIn
    <3>2. LastOut(A, W, w, f.size, f.length)
      BY <3>1, LastSums, Zenon
    <3> QED BY <3>2 DEF LastOut
  <2>2. ASSUME NEW ok \in BOOLEAN, IFLASH_CopyRamToFlash(A, fwWriteBuffer, ok)
        PROVE  /\ flash' \in [Cells -> Contents]
               /\ InformationKept' /\ flash'[ImageSize] # Key
    <3>1. ASSUME NEW p \in Positions, A + p >= ImageSize
          PROVE  \/ fwWriteBuffer[p] = Erased
                 \/ (fwWriteBuffer[p] = Data(f, A + p) /\ A + p < f.length)
      <4>1. p \in Nat
        BY Sizes
      <4>2. A > 0 /\ (p >= w \/ A + p < f.length)
        BY <2>1, <3>1
      <4>3. p < w => fwWriteBuffer[p] = Data(f, A + p)
        BY <1>3 DEF Buffered
      <4>4. p >= w => fwWriteBuffer[p] = Erased
        BY <1>3, <4>2 DEF Buffered
      <4>5. p < w \/ p >= w
        <5> HIDE DEF w
        <5> QED BY <1>2, <4>1, Sizes
      <4> QED BY <4>2, <4>3, <4>4, <4>5
    <3> QED BY <1>1, <1>2, <2>2, <3>1, WriteKeeps
  <2>3. ASSUME NEW ok \in BOOLEAN, IFLASH_CopyRamToFlash(A, fwWriteBuffer, ok)
        PROVE  \A i \in Cells : i < A => flash'[i] = Data(f, i)
    <3> SUFFICES ASSUME NEW i \in Cells, i < A
                 PROVE  flash'[i] = Data(f, i)
      OBVIOUS
    <3>1. i \notin A .. A + Block - 1
      <4> HIDE DEF A
      <4> QED BY <1>2, Sizes
    <3>2. flash'[i] = flash[i]
      BY <1>2, <2>3, <3>1, BlockWritten
    <3> QED BY <1>2, <3>2 DEF Written
  <2>4. CASE /\ IFLASH_CopyRamToFlash(d.flashAddr, fwWriteBuffer, TRUE)
             /\ task' = [task EXCEPT ![t].pc = "read",
                                     ![t].totalWrite = @ + writeBufferOffset]
    <3> DEFINE x == [d EXCEPT !.pc = "read", !.totalWrite = @ + writeBufferOffset]
    <3>1. /\ x \in Downloads /\ x.pc = "read" /\ x.totalRead = R
          /\ x.totalWrite = W + w /\ x.flashAddr = A /\ x.file = f
          /\ x.imageGetStatus = d.imageGetStatus /\ x.status = d.status
      <4>1. x = [[d EXCEPT !.pc = "read"] EXCEPT !.totalWrite = W + w]
        BY <1>2 DEF Downloads
      <4> QED BY <1>2, <2>1, <4>1 DEF Downloads, Steps
    <3>2. task' = [task EXCEPT ![t] = x]
      BY <2>4
    <3>3. task'[t] = x
      BY <3>2 DEF Inv, Types
    <3> HIDE DEF x
    <3>4. Bounded(task[t])'
      BY <1>2, <2>1, <3>1, <3>3 DEF Bounded
    <3>5. Fetching(task[t])' /\ Outcome(task[t])'
      BY <1>1, <3>1, <3>3 DEF Fetching, Outcome, Offered
    <3>6. \A i \in 0..(f.size - 1) : flash'[i] = Data(f, i)
      <4> SUFFICES ASSUME NEW i \in 0..(f.size - 1)
                   PROVE  flash'[i] = Data(f, i)
        OBVIOUS
      <4>1. CASE i < A
        BY <1>5, <2>3, <2>4, <4>1
      <4>2. CASE i >= A
        <5>1. /\ i \in A .. A + Block - 1 /\ i - A \in Positions
              /\ i - A < w /\ A + (i - A) = i
          BY <2>1, <4>2
        <5>2. fwWriteBuffer[i - A] = Data(f, i)
          BY <1>3, <5>1 DEF Buffered
        <5>3. A \in Nat /\ IFLASH_CopyRamToFlash(A, fwWriteBuffer, TRUE)
          BY <1>2, <2>4
        <5>4. \A c \in Cells : c \in A .. A + Block - 1
                /\ fwWriteBuffer[c - A] # Erased => flash'[c] = fwWriteBuffer[c - A]
          <6> HIDE DEF A
          <6> QED BY <5>3, BlockWritten
        <5> QED BY <1>5, <5>1, <5>2, <5>4, Distinct
      <4>3. i < A \/ i >= A
        BY <1>2, Sizes
      <4> QED BY <4>1, <4>2, <4>3
    <3>7. Written(task[t])'
      <4>1. /\ task'[t].file = f /\ task'[t].flashAddr = A
            /\ task'[t].totalRead = R /\ task'[t].totalWrite = W + w
            /\ task'[t].pc = "read"
        BY <3>1, <3>3
      <4>2. \A i \in Cells : i < task'[t].flashAddr
                              => flash'[i] = Data(task'[t].file, i)
        BY <2>3, <2>4, <4>1
      <4>3. /\ W + w >= f.size /\ W + w < A + Block /\ R >= f.size
        <5> HIDE DEF W, w, A, R
        <5> QED BY <1>2, <1>8, <2>1
      <4>4. /\ task'[t].totalWrite >= task'[t].file.size
            /\ task'[t].totalWrite < task'[t].flashAddr + Block
            /\ task'[t].totalRead >= task'[t].file.size
        BY <4>1, <4>3, Zenon
      <4>5. Complete(task[t].file)'
        BY <2>1, <3>6, <4>1 DEF Complete
      <4> QED BY <4>1, <4>2, <4>4, <4>5, Zenon DEF Written
    <3>8. Buffered(task[t])'
      BY <1>3, <1>6, <3>1, <3>3 DEF Buffered
    <3>9. Loop(task[t])'
      BY <1>3, <1>6, <3>1, <3>3, <3>7, <3>8 DEF Loop
    <3> QED BY <1>1, <1>6, <2>2, <2>4, <3>1, <3>2, <3>4, <3>5, <3>9, Step
  <2>5. CASE /\ IFLASH_CopyRamToFlash(d.flashAddr, fwWriteBuffer, FALSE)
             /\ FlashError(t)
    <3>1. ASSUME W = f.size, NEW i \in 0..(f.size - 1)
          PROVE  flash'[i] = Data(f, i)
      <4>1. W = A
        BY <2>1
      <4>2. i < A /\ i \in Cells
        <5> HIDE DEF A, W
        <5> QED BY <1>2, <1>5, <3>1, <4>1
      <4> QED BY <2>3, <2>5, <4>2
    <3>2. /\ flash' \in [Cells -> Contents]
          /\ InformationKept' /\ flash'[ImageSize] # Key
      BY <2>2, <2>5
    <3>3. UNCHANGED <<firmwareInfo, firmwareBuffer, fwWriteBuffer, writeBufferOffset>>
      BY <1>1 DEF shared
    <3> QED BY <1>1, <2>1, <2>5, <3>1, <3>2, <3>3, WriteFails
  <2> QED BY <1>8, <2>4, <2>5 DEF Last
<1> QED BY <1>7, <1>8
-----------------------------------------------------------------------------
LEMMA StutterStep ==
  ASSUME Inv, UNCHANGED vars
  PROVE  Inv'
BY DEF vars, shared, Inv, Types, One, KeyInv, InformationKept, TaskInv, Bounded,
       Fetching, Loop, Written, Buffered, Outcome, Offered, Complete

LEMMA NextInv ==
  ASSUME Inv, ~Overlap, [Next]_vars
  PROVE  Inv'
<1>1. ASSUME NEW o \in Offers, FTP_StartFirmwareUpdate(o)
      PROVE  Inv'
  BY <1>1, StartStep
<1>2. ASSUME NEW t \in Tasks, FTP_FirmwareUpdateTask(t)
      PROVE  Inv'
  BY <1>2, RefusedStep, ConnectStep, OpenFileStep, ReadStep, EndOfFileStep,
     FillStep, FlushStep, LastStep, CheckStep, ReportStep, WriteKeyStep,
     RestartStep DEF FTP_FirmwareUpdateTask, hal_system_reset
<1> QED BY <1>1, <1>2, RestartStep, StutterStep DEF Next

LEMMA InvHolds == ASSUME ~Overlap PROVE Spec => []Inv
BY InitInv, NextInv, PTL DEF Spec

\* TypeOK, with one download at a time: the buffers and counters stay within
\* their types, and every address that is written is that of a block.
THEOREM TypeCorrect == ASSUME ~Overlap PROVE Spec => []TypeOK
<1>1. Inv => TypeOK
  <2> SUFFICES ASSUME Inv PROVE TypeOK
    OBVIOUS
  <2>1. \A t \in Tasks : task[t] \in Downloads /\ Bounded(task[t])
    BY DEF Inv, Types, TaskInv
  <2>2. ASSUME NEW t \in Tasks
        PROVE  LET d == task[t] IN
                 /\ d.pc \in Steps /\ d.status \in Statuses
                 /\ d.file \in Offers \union {NoFile}
                 /\ d.length \in 0..Block /\ d.rest \in 0..Block
                 /\ d.totalRead \in 0..d.file.length
                 /\ d.totalWrite \in 0..(d.file.length + Block)
                 /\ d.flashAddr \in {c \in Nat : c % Block = 0}
                 /\ d.imageGetStatus \in BOOLEAN
    <3> DEFINE d == task[t]
    <3>1. d \in Downloads /\ Bounded(d)
      BY <2>1
    <3>2. d.file.length \in Nat
      BY <3>1, FirmwareAssumption, NoTaskType DEF Downloads
    <3>3. d.flashAddr % Block = 0
      BY <3>1, AlignedRemainder DEF Downloads, Bounded
    <3> QED BY <3>1, <3>2, <3>3, Sizes DEF Downloads, Bounded
  <2> QED BY <2>2 DEF TypeOK, Inv, Types
<1> QED BY <1>1, InvHolds, PTL

\* The key means a complete image, whatever is cut short, refused by the flash
\* or interrupted by a power failure, with one download at a time.
THEOREM KeyIsForImage == ASSUME ~Overlap PROVE Spec => []KeyMeansImage
<1>1. Inv => KeyMeansImage
  <2> SUFFICES ASSUME Inv, flash[ImageSize] = Key
               PROVE  \E o \in Offers : o.size > 0 /\ Complete(o)
    BY DEF KeyMeansImage
  <2>1. PICK t \in Tasks : task[t].pc = "reset"
    BY DEF Inv, KeyInv
  <2>2. Offered(task[t].file) /\ Complete(task[t].file)
    BY <2>1 DEF Inv, TaskInv, Outcome
  <2>3. task[t].file \in Offers /\ task[t].file.size > 0
    BY <2>2, Sizes DEF Offered
  <2> QED BY <2>2, <2>3
<1> QED BY <1>1, InvHolds, PTL

\* With one download at a time, one that reports success has the whole file in
\* the flash, and nothing but the key, and what a file longer than announced
\* leaves, gets into the information area.
THEOREM FlashIsAsReported == ASSUME ~Overlap PROVE Spec => []FlashAsReported
<1>1. Inv => SuccessMeansImage
  BY DEF Inv, TaskInv, Outcome, SuccessMeansImage
<1>2. Inv => InformationKept
  BY DEF Inv
<1>3. Inv => FlashAsReported
  BY <1>1, <1>2 DEF FlashAsReported
<1> QED BY <1>3, InvHolds, PTL
=============================================================================
