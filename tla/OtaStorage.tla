----------------------------- MODULE OtaStorage -----------------------------
(***************************************************************************)
(* The storage an OTA client downloads into: the "simple storage" module   *)
(* over its EEPROM driver.  The image is a row of blocks; what matters of  *)
(* a block is the version of the image it belongs to.  Beside the blocks   *)
(* the EEPROM keeps the offset up to which a download is taken to have     *)
(* come (savedOffset), from which it goes on after a reboot.               *)
(*                                                                         *)
(* Every operator takes a storage and gives the storage the C function     *)
(* leaves.  Block 0 stands for the OTA header: clearing its magic number   *)
(* (DeleteImage) is clearing the block.                                    *)
(***************************************************************************)
EXTENDS Naturals

CONSTANTS Blocks,    \* length of an image
          SaveRate,  \* downloadOffsetSaveRate, in blocks
          Versions   \* versions of the image

ASSUME StorageAssumption ==
  /\ Blocks \in Nat \ {0}
  /\ SaveRate \in Nat
  /\ Versions \subseteq Nat \ {0}

None == 0   \* a block never written, or the version of no image
Offsets == 0 .. Blocks - 1

EmptyStorage == [stored |-> [b \in Offsets |-> None],
                 savedOffset |-> 0,
                 hasFullImage |-> FALSE]

\* The magic number is in place: readAndValidateStoredImage.
HeaderIsValid(s) == s.stored[0] # None

\* The version of the image in storage, None if its blocks are not all of one
\* version.
VersionStored(s) ==
  IF \E v \in Versions : \A b \in Offsets : s.stored[b] = v
  THEN s.stored[0] ELSE None

UpdateDownloadOffset(s, offset, forceWrite) ==
  IF \/ forceWrite
     \/ offset = 0
     \/ offset > SaveRate /\ s.savedOffset + SaveRate <= offset
  THEN [s EXCEPT !.savedOffset = offset]
  ELSE s

\* The offset noted is that of the block's first byte, not of its end.
WriteTempData(s, offset, version) ==
  UpdateDownloadOffset([s EXCEPT !.stored[offset] = version], offset, FALSE)

FinishDownload(s, offset) == UpdateDownloadOffset(s, offset, TRUE)

ClearTempData(s) ==
  UpdateDownloadOffset([s EXCEPT !.hasFullImage = FALSE], 0, TRUE)

\* Only an image taken to be whole has a size, and only such a one is wiped.
DeleteImage(s) ==
  IF s.hasFullImage
  THEN UpdateDownloadOffset(
         [WriteTempData(s, 0, None) EXCEPT !.hasFullImage = FALSE], 0, TRUE)
  ELSE s

\* What CheckTempData finds, and the storage it leaves.  An offset inside the
\* header (block 0) is not worth going on from.
TempData(s) ==
  IF s.savedOffset > 1 /\ HeaderIsValid(s)
  THEN IF s.savedOffset >= Blocks THEN "SUCCESS" ELSE "PARTIAL"
  ELSE "ERROR"

CheckTempData(s) ==
  CASE TempData(s) = "SUCCESS" -> [s EXCEPT !.hasFullImage = TRUE]
    [] TempData(s) = "ERROR"   -> [s EXCEPT !.hasFullImage = FALSE]
    [] OTHER                   -> s

\* A reboot keeps the EEPROM; the flag in RAM is read back from the header.
StorageInit(s) == [s EXCEPT !.hasFullImage = HeaderIsValid(s)]
=============================================================================
