--------------------------- MODULE FirmwareUpdate ---------------------------
(***************************************************************************)
(* The firmware download (ftp.c, internal_flash.c): a task that fetches a  *)
(* file into the image area of the flash and, once all of it is there,     *)
(* writes a key behind it that makes the bootloader install it.  Every     *)
(* accepted command starts such a task; they share the buffers, the flash  *)
(* and firmwareInfo.                                                       *)
(*                                                                         *)
(* Bytes are counted in coarse units, and a block of them stands for       *)
(* FTP_FIRMWARE_BUFFER_SIZE.  The FTP server, the flash hardware and the   *)
(* bootloader are modelled from their use.                                 *)
(*                                                                         *)
(* A definition marked "Slip" is a wrong variant of the one that follows;  *)
(* no action uses it.  It shows that a property would notice the slip.     *)
(***************************************************************************)
EXTENDS Integers

CONSTANTS
  Block,        \* FTP_FIRMWARE_BUFFER_SIZE
  ImageBlocks,  \* IMAGE_SIZE and FTP_FIRMWARE_MAX_SIZE, in blocks
  Offers,       \* the files on the server with the sizes that commands give
  Tasks,        \* the downloads there can be
  Overlap       \* commands may arrive while a download runs

ImageSize == Block * ImageBlocks

ASSUME FirmwareAssumption ==
  /\ Block \in Nat \ {0} /\ ImageBlocks \in Nat \ {0}
  /\ Offers \subseteq [length : Nat, size : Nat]
  /\ Overlap \in BOOLEAN

VARIABLES
  flash,             \* the image area, and a block of the information area
  firmwareInfo,      \* the offer to fetch and its size; NoFile and 0 if none
  firmwareBuffer,    \* the last piece that was read
  fwWriteBuffer, writeBufferOffset,
  task               \* the downloads

shared == <<firmwareBuffer, fwWriteBuffer, writeBufferOffset>>
vars   == <<flash, firmwareInfo, shared, task>>

(***************************************************************************)
(* What a cell of the flash or of a buffer holds.                          *)
(***************************************************************************)
Erased     == <<"erased">>
Junk       == <<"junk">>      \* other than what was meant, zeros included
Key        == <<"key">>
Data(o, i) == <<"data", o, i>>

NoFile   == [length |-> 0, size |-> 0]
Cells    == 0..(ImageSize + Block - 1)
InImage  == 0..(ImageSize - 1)
Positions == 0..(Block - 1)
Contents == {Erased, Junk, Key} \union ({"data"} \X Offers \X Nat)

Statuses == {"SUCCESS", "LOGIN_ERROR", "FILE_OPEN_ERROR", "FILE_SIZE_ERROR",
             "FLASH_ERROR"}
Steps == {"none", "connect", "login", "read", "fill", "flush", "last", "check",
          "report", "key", "reset"}

NoTask == [pc |-> "none", file |-> NoFile, status |-> "SUCCESS", length |-> 0,
           rest |-> 0, totalRead |-> 0, totalWrite |-> 0, flashAddr |-> 0,
           imageGetStatus |-> FALSE]

Zeros == [p \in Positions |-> Junk]
Blank == [p \in Positions |-> Erased]    \* memset(..., 0xFF, ...)

Init ==
  /\ flash = [c \in Cells |-> IF c \in InImage THEN Junk ELSE Erased]
  /\ firmwareInfo = [file |-> NoFile, size |-> 0]
  /\ firmwareBuffer = Zeros /\ fwWriteBuffer = Zeros /\ writeBufferOffset = 0
  /\ task = [t \in Tasks |-> NoTask]
-----------------------------------------------------------------------------
(***************************************************************************)
(* The flash.  A cell changes where it is programmed with something other  *)
(* than 0xFF and than what it holds; the hardware verifies that it took    *)
(* the change, which a cell that was not erased cannot.                    *)
(***************************************************************************)
Programmed(content, ok) ==
  LET changed == {c \in DOMAIN content : content[c] \notin {Erased, flash[c]}} IN
  /\ ok => \A c \in changed : flash[c] = Erased
  /\ flash' = [c \in Cells |-> IF c \notin changed THEN flash[c]
                               ELSE IF ok THEN content[c] ELSE Junk]

\* IFLASH_CopyRamToFlash of a block; an address outside the flash is refused.
IFLASH_CopyRamToFlash(addr, buffer, ok) ==
  IF addr + Block - 1 \in Cells
    THEN Programmed([c \in addr .. addr + Block - 1 |-> buffer[c - addr]], ok)
    ELSE ~ok /\ UNCHANGED flash

\* IFLASH_Erase of the image area; one that fails leaves anything.
IFLASH_Erase(ok) ==
  flash' = [c \in Cells |->
              IF c \in InImage THEN IF ok THEN Erased ELSE Junk ELSE flash[c]]
-----------------------------------------------------------------------------
(***************************************************************************)
(* A firmware_update command, executed by the MQTT handler.                *)
(***************************************************************************)
\* The information is replaced even if a download is using it, and also if
\* there is no memory left for another task.
FTP_StartFirmwareUpdate(o) ==
  /\ o.size # 0 /\ o.size <= ImageSize
  /\ Overlap \/ \A t \in Tasks : task[t].pc = "none"
  /\ firmwareInfo' = [file |-> o, size |-> o.size]
  /\ \/ \E t \in Tasks :
          /\ task[t].pc = "none"
          /\ task' = [task EXCEPT ![t] = [NoTask EXCEPT !.pc = "connect"]]
     \/ UNCHANGED task
  /\ UNCHANGED <<flash, shared>>
-----------------------------------------------------------------------------
(***************************************************************************)
(* The steps of FTP_FirmwareUpdateTask.  Equal priorities interleave       *)
(* wherever another task preempts them or a call blocks.                   *)
(***************************************************************************)
Goto(t, l) == task' = [task EXCEPT ![t].pc = l]

FlashError(t) ==
  task' = [task EXCEPT ![t].pc = "check", ![t].status = "FLASH_ERROR"]

\* The report that ends a download, and the information it clears.
Clear == firmwareInfo' = [file |-> NoFile, size |-> 0]

\* The name, the uplink, the connection or the erasure fails; the reports of
\* these have a branch each in the code.
Refused(t) ==
  /\ task[t].pc = "connect"
  /\ \/ UNCHANGED flash
     \/ IFLASH_Erase(FALSE)
  /\ Clear
  /\ Goto(t, "none")
  /\ UNCHANGED shared

Connect(t) ==
  /\ task[t].pc = "connect"
  /\ IFLASH_Erase(TRUE)
  /\ writeBufferOffset' = 0
  /\ Goto(t, "login")
  /\ UNCHANGED <<firmwareInfo, firmwareBuffer, fwWriteBuffer>>

\* A name that another task has freed is no name of a file on the server.
OpenFile(t) ==
  /\ task[t].pc = "login"
  /\ \/ /\ firmwareInfo.file # NoFile
        /\ task' = [task EXCEPT ![t].pc = "read", ![t].file = firmwareInfo.file]
     \/ \E s \in {"LOGIN_ERROR", "FILE_OPEN_ERROR"} :
          task' = [task EXCEPT ![t].pc = "report", ![t].status = s]
  /\ UNCHANGED <<flash, firmwareInfo, shared>>

ftpReadFile(t) ==
  LET d == task[t] IN
  /\ d.pc = "read"
  /\ \E n \in 1..Block :
       /\ d.totalRead + n <= d.file.length
       /\ firmwareBuffer' = [p \in Positions |->
            IF p < n THEN Data(d.file, d.totalRead + p) ELSE firmwareBuffer[p]]
       /\ task' = [task EXCEPT ![t].pc = "fill", ![t].length = n,
                               ![t].totalRead = @ + n]
  /\ UNCHANGED <<flash, firmwareInfo, fwWriteBuffer, writeBufferOffset>>

\* Slip: an error is taken for a pause.
EndOfFileRetries(t) == task[t].pc = "read" /\ UNCHANGED vars

\* The end of the file or of the connection: the code does not tell.
EndOfFile(t) ==
  /\ task[t].pc = "read"
  /\ Goto(t, "check")
  /\ UNCHANGED <<flash, firmwareInfo, shared>>

\* The part that fits goes behind what the write buffer holds.
Fill(t) ==
  LET d    == task[t]
      free == Block - writeBufferOffset
      fits == IF d.length <= free THEN d.length ELSE free
  IN
  /\ d.pc = "fill"
  /\ fwWriteBuffer' = [p \in Positions |->
       IF p \in writeBufferOffset .. writeBufferOffset + fits - 1
         THEN firmwareBuffer[p - writeBufferOffset] ELSE fwWriteBuffer[p]]
  /\ writeBufferOffset' = IF d.length <= free
                            THEN writeBufferOffset + d.length ELSE writeBufferOffset
  /\ task' = [task EXCEPT
       ![t].pc   = IF writeBufferOffset + fits = Block THEN "flush" ELSE "last",
       ![t].rest = d.length - fits]
  /\ UNCHANGED <<flash, firmwareInfo, firmwareBuffer>>

\* Slip: the offset into the write buffer is not set back.
FlushForgetsOffset(t) ==
  /\ task[t].pc = "flush"
  /\ IFLASH_CopyRamToFlash(task[t].flashAddr, fwWriteBuffer, TRUE)
  /\ fwWriteBuffer' = Blank
  /\ writeBufferOffset' = writeBufferOffset + task[t].rest
  /\ task' = [task EXCEPT ![t].pc = "last", ![t].totalWrite = @ + Block,
                          ![t].flashAddr = @ + Block]
  /\ UNCHANGED <<firmwareInfo, firmwareBuffer>>

\* Slip: the result of the write is not looked at.
FlushIgnoresError(t) ==
  LET d == task[t] IN
  /\ d.pc = "flush"
  /\ \E ok \in BOOLEAN : IFLASH_CopyRamToFlash(d.flashAddr, fwWriteBuffer, ok)
  /\ fwWriteBuffer' = [p \in Positions |->
       IF p < d.rest THEN firmwareBuffer[d.length - d.rest + p] ELSE Erased]
  /\ writeBufferOffset' = d.rest
  /\ task' = [task EXCEPT ![t].pc = "last", ![t].totalWrite = @ + Block,
                          ![t].flashAddr = @ + Block]
  /\ UNCHANGED <<firmwareInfo, firmwareBuffer>>

\* A full write buffer goes to the flash; the rest of what was read begins the
\* next one.
Flush(t) ==
  LET d == task[t] IN
  /\ d.pc = "flush"
  /\ \/ /\ IFLASH_CopyRamToFlash(d.flashAddr, fwWriteBuffer, TRUE)
        /\ fwWriteBuffer' = [p \in Positions |->
             IF p < d.rest THEN firmwareBuffer[d.length - d.rest + p] ELSE Erased]
        /\ writeBufferOffset' = d.rest
        /\ task' = [task EXCEPT ![t].pc = "last", ![t].totalWrite = @ + Block,
                                ![t].flashAddr = @ + Block]
     \/ /\ IFLASH_CopyRamToFlash(d.flashAddr, fwWriteBuffer, FALSE)
        /\ FlashError(t)
        /\ UNCHANGED <<fwWriteBuffer, writeBufferOffset>>
  /\ UNCHANGED <<firmwareInfo, firmwareBuffer>>

\* "if read all data from server, write remaining data": a whole block, even
\* if nothing remains.  The loop goes on until the server ends it.
Last(t) ==
  LET d == task[t] IN
  /\ d.pc = "last"
  /\ IF d.totalRead # firmwareInfo.size
       THEN Goto(t, "read") /\ UNCHANGED flash
       ELSE \/ /\ IFLASH_CopyRamToFlash(d.flashAddr, fwWriteBuffer, TRUE)
               /\ task' = [task EXCEPT ![t].pc = "read",
                                       ![t].totalWrite = @ + writeBufferOffset]
            \/ /\ IFLASH_CopyRamToFlash(d.flashAddr, fwWriteBuffer, FALSE)
               /\ FlashError(t)
  /\ UNCHANGED <<firmwareInfo, shared>>

\* Slip: what was read is compared, not what was written.
CheckRead(t) ==
  LET d == task[t] IN
  /\ d.pc = "check"
  /\ task' = [task EXCEPT ![t].pc = "report",
       ![t].imageGetStatus = (d.totalRead = firmwareInfo.size)]
  /\ IF d.totalRead = firmwareInfo.size THEN UNCHANGED flash
     ELSE \E ok \in BOOLEAN : IFLASH_Erase(ok)
  /\ UNCHANGED <<firmwareInfo, shared>>

\* The result of this erasure is not looked at.
Check(t) ==
  LET d == task[t] IN
  /\ d.pc = "check"
  /\ IF d.totalWrite # firmwareInfo.size
       THEN /\ task' = [task EXCEPT ![t].pc = "report",
                 ![t].status = IF @ = "SUCCESS" THEN "FILE_SIZE_ERROR" ELSE @]
            /\ \E ok \in BOOLEAN : IFLASH_Erase(ok)
       ELSE /\ task' = [task EXCEPT ![t].pc = "report",
                                    ![t].imageGetStatus = TRUE]
            /\ UNCHANGED flash
  /\ UNCHANGED <<firmwareInfo, shared>>

Report(t) ==
  /\ task[t].pc = "report"
  /\ Clear
  /\ IF task[t].imageGetStatus THEN Goto(t, "key")
     ELSE task' = [task EXCEPT ![t] = NoTask]
  /\ UNCHANGED <<flash, shared>>

\* The key "to inform bootloader about new image".
WriteKey(t) ==
  /\ task[t].pc = "key"
  /\ \E ok \in BOOLEAN :
       /\ Programmed([c \in {ImageSize} |-> Key], ok)
       /\ IF ok THEN Goto(t, "reset")
          ELSE task' = [task EXCEPT ![t] = NoTask]
  /\ UNCHANGED <<firmwareInfo, shared>>

\* A reset or a power failure ends all tasks and the memory is set to zero;
\* the bootloader takes the key away when it installs the image.
Restart ==
  /\ flash' = [c \in Cells |->
                 IF c \notin InImage /\ flash[ImageSize] = Key THEN Erased
                 ELSE flash[c]]
  /\ firmwareInfo' = [file |-> NoFile, size |-> 0]
  /\ firmwareBuffer' = Zeros /\ fwWriteBuffer' = Zeros
  /\ writeBufferOffset' = 0
  /\ task' = [t \in Tasks |-> NoTask]

hal_system_reset(t) == task[t].pc = "reset" /\ Restart

FTP_FirmwareUpdateTask(t) ==
  \/ Refused(t) \/ Connect(t) \/ OpenFile(t)
  \/ ftpReadFile(t) \/ EndOfFile(t) \/ Fill(t) \/ Flush(t) \/ Last(t)
  \/ Check(t) \/ Report(t) \/ WriteKey(t) \/ hal_system_reset(t)

Next ==
  \/ \E o \in Offers : FTP_StartFirmwareUpdate(o)
  \/ \E t \in Tasks : FTP_FirmwareUpdateTask(t)
  \/ Restart

Spec == Init /\ [][Next]_vars

\* A running task gets on: reads and connections have timeouts.
FairSpec == Spec /\ \A t \in Tasks : WF_vars(FTP_FirmwareUpdateTask(t))
-----------------------------------------------------------------------------
(***************************************************************************)
(* Properties.                                                             *)
(***************************************************************************)
\* Every variable keeps its type; no download writes beyond its write buffer.
TypeOK ==
  /\ flash \in [Cells -> Contents]
  /\ firmwareInfo.file \in Offers \union {NoFile}
  /\ firmwareInfo.size \in 0..ImageSize
  /\ firmwareBuffer \in [Positions -> Contents]
  /\ fwWriteBuffer \in [Positions -> Contents]
  /\ writeBufferOffset \in 0..Block
  /\ \A t \in Tasks : LET d == task[t] IN
       /\ d.pc \in Steps /\ d.status \in Statuses
       /\ d.file \in Offers \union {NoFile}
       /\ d.length \in 0..Block /\ d.rest \in 0..Block
       /\ d.totalRead \in 0..d.file.length
       /\ d.totalWrite \in 0..(d.file.length + Block)
       /\ d.flashAddr \in {c \in Nat : c % Block = 0}
       /\ d.imageGetStatus \in BOOLEAN

Complete(o) ==
  /\ o.size <= o.length
  /\ \A i \in 0..(o.size - 1) : flash[i] = Data(o, i)

\* "all image has receive": the key is in the flash only while the image area
\* holds all of a file that a command asked for, whatever is cut short, refused
\* by the flash or interrupted by a power failure on the way.
KeyMeansImage ==
  flash[ImageSize] = Key => \E o \in Offers : o.size > 0 /\ Complete(o)

\* A download that reports success has the whole file in the flash.
SuccessMeansImage ==
  \A t \in Tasks :
    task[t].pc = "report" /\ task[t].status = "SUCCESS" => Complete(task[t].file)

\* What a file that is longer than announced leaves beyond the image area: the
\* download does not stop where the area ends.
Longer(c)  == {o \in Offers : o.size <= ImageSize /\ o.length > c}
Surplus(c) == IF Longer(c) = {} THEN {} ELSE {Junk} \union {Data(o, c) : o \in Longer(c)}

\* The information area holds nothing but the key: data that got there would
\* keep every later key from being written.  The only exception is a file
\* longer than the area and than its command says.
InformationKept ==
  \A c \in Cells \ InImage :
    flash[c] \in {Erased} \union Surplus(c)
                \union (IF c = ImageSize THEN {Key, Junk} ELSE {})

\* What a download leaves in the two areas of the flash, at whatever step it
\* ends.
FlashAsReported == SuccessMeansImage /\ InformationKept

\* Every download ends, with its report or with a reset.
UpdateEnds == \A t \in Tasks : task[t].pc # "none" ~> task[t].pc = "none"
=============================================================================
