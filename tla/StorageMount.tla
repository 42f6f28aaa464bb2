---------------------------- MODULE StorageMount ----------------------------
(***************************************************************************)
(* runtime::storage::initialize on the STM32: bringing up the NOR flash    *)
(* under LevelX and the SD card, over any number of power cycles           *)
(* (platform/runtime/libc/storage_media.cpp).                              *)
(*                                                                         *)
(* The contents of the flash are the set of things LevelX has mapped: the  *)
(* sectors fx_media_format writes, contents of another origin, files, and  *)
(* "raw", a sector that was only allocated by being read.  Power can go    *)
(* between any two writes.  HAL, FileX and LevelX calls fail as they like. *)
(* While the power is off the board may be given an image that was built   *)
(* with or without RUNTIME_STORAGE_ERASE_FLASH_ON_BOOT.                    *)
(***************************************************************************)
EXTENDS Naturals

\* What fx_media_format writes; fx_media_open needs the boot record.
FormatSectors == {"boot", "fat"}

\* What a format destroys.
Contents == {"foreign", "files"}

\* Bits of the HAL error word: sd_data_crc_error and all others.
SdErrors == SUBSET {"crc", "other"}

FileXStatus == {"FX_SUCCESS", "FX_BOOT_ERROR", "FX_MEDIA_INVALID"}

VARIABLES
  mapped,  \* the flash: what its LevelX sectors hold
  pc,      \* where initialize is
  erase_on_boot, \* RUNTIME_STORAGE_ERASE_FLASH_ON_BOOT of the running image
  nor_open, flash_mounted, sd_mounted, \* the variables of those names
  empty,   \* the local of initialize_flash_media
  open_status, \* the local of initialize_sd_media
  diagnostics, \* the fields of runtime_storage_diagnostics about the SD card
  four_bit_failure \* history: what ended the 4-bit attempt of this boot

ramVars == <<nor_open, flash_mounted, sd_mounted, empty, open_status, diagnostics,
             four_bit_failure, erase_on_boot>>
sdVars == <<sd_mounted, open_status, diagnostics, four_bit_failure, erase_on_boot>>
vars == <<mapped, pc, ramVars>>

SdDiagnostics ==
  [sd_error : SdErrors, sd_bus_width : {0, 1, 4}, sd_fallback_used : {0, 1},
   sd_fallback_error : SdErrors]

NoDiagnostics ==
  [sd_error |-> {}, sd_bus_width |-> 0, sd_fallback_used |-> 0,
   sd_fallback_error |-> {}]

\* No 4-bit attempt of this boot has failed.
NoFailure == [during |-> "none", error |-> {}]

Steps == {"off", "qspi", "erase", "levelx", "close", "format", "flash_open",
          "sd_init", "sd_init_1bit", "sd_open", "sd_retry_init", "sd_reopen",
          "running", "failed"}

TypeOK ==
  /\ mapped \subseteq FormatSectors \cup Contents \cup {"raw"}
  /\ pc \in Steps
  /\ erase_on_boot \in BOOLEAN
  /\ nor_open \in BOOLEAN
  /\ flash_mounted \in BOOLEAN
  /\ sd_mounted \in BOOLEAN
  /\ empty \in BOOLEAN
  /\ open_status \in FileXStatus
  /\ diagnostics \in SdDiagnostics
  /\ four_bit_failure \in [during : {"none", "init", "mount"}, error : SdErrors]

\* A blank chip, a formatted one, or one with contents of another origin.
Init ==
  /\ mapped \in {{}, FormatSectors, FormatSectors \cup {"files"}, {"foreign"}}
  /\ pc = "off"
  /\ erase_on_boot = FALSE
  /\ nor_open = FALSE
  /\ flash_mounted = FALSE
  /\ sd_mounted = FALSE
  /\ empty = FALSE
  /\ open_status = "FX_SUCCESS"
  /\ diagnostics = NoDiagnostics
  /\ four_bit_failure = NoFailure

PowerOn ==
  /\ pc = "off"
  /\ pc' = "qspi"
  /\ erase_on_boot' \in BOOLEAN
  /\ UNCHANGED <<mapped, nor_open, flash_mounted, empty, sd_mounted, open_status,
                 diagnostics, four_bit_failure>>

\* Power goes, at any time; only the flash and the card remain.
PowerLoss ==
  /\ pc # "off"
  /\ pc' = "off"
  /\ nor_open' = FALSE
  /\ flash_mounted' = FALSE
  /\ sd_mounted' = FALSE
  /\ empty' = FALSE
  /\ open_status' = "FX_SUCCESS"
  /\ diagnostics' = NoDiagnostics
  /\ four_bit_failure' = NoFailure
  /\ UNCHANGED <<mapped, erase_on_boot>>

-----------------------------------------------------------------------------
(* initialize_flash_media                                                  *)

\* Any early return of initialize_flash_media; initialize goes on with the SD.
FlashFails ==
  /\ pc \in {"qspi", "erase", "levelx", "close", "format"}
  /\ pc' = "sd_init"
  /\ nor_open' \in {FALSE, pc = "format"}
  /\ UNCHANGED <<mapped, flash_mounted, empty, sdVars>>

initialize_qspi ==
  /\ pc = "qspi"
  /\ pc' = IF erase_on_boot THEN "erase" ELSE "levelx"
  /\ UNCHANGED <<mapped, ramVars>>

\* qspi_erase of one block.
EraseBlock ==
  /\ pc = "erase"
  /\ \E s \in mapped : mapped' = mapped \ {s}
  /\ UNCHANGED <<pc, ramVars>>

\* Mutant: the loop ends before the last block.
Erased_ButLast == mapped \subseteq {"fat"}

\* The loop over the blocks has ended.
Erased == mapped = {}

EraseDone ==
  /\ pc = "erase"
  /\ Erased
  /\ pc' = "levelx"
  /\ UNCHANGED <<mapped, ramVars>>

\* Mutant: blank means that there is no boot record.
Blank_NoBootRecord == "boot" \notin mapped

\* lx_nor_flash_mapped_physical_sectors == 0
Blank == mapped = {}

\* open_levelx, and the mapping count is read.
open_levelx ==
  /\ pc = "levelx"
  /\ nor_open' = TRUE
  /\ empty' = Blank
  /\ pc' = "close"
  /\ UNCHANGED <<mapped, flash_mounted, sdVars>>

close_levelx ==
  /\ pc = "close"
  /\ nor_open' = FALSE
  /\ pc' = IF empty THEN "format" ELSE "flash_open"
  /\ UNCHANGED <<mapped, flash_mounted, empty, sdVars>>

\* One sector write of fx_media_format; whatever was there is lost.
FormatWrite ==
  /\ pc = "format"
  /\ nor_open' = TRUE
  /\ \E s \in FormatSectors \ mapped : mapped' = (mapped \ Contents) \cup {s}
  /\ UNCHANGED <<pc, flash_mounted, empty, sdVars>>

\* fx_media_format returns FX_SUCCESS and has closed the driver.
FormatDone ==
  /\ pc = "format"
  /\ FormatSectors \subseteq mapped
  /\ nor_open' = FALSE
  /\ pc' = "flash_open"
  /\ UNCHANGED <<mapped, flash_mounted, empty, sdVars>>

\* fx_media_open of the flash.  Reading an absent boot record allocates it.
FlashOpens ==
  /\ pc = "flash_open"
  /\ "boot" \in mapped
  /\ nor_open' = TRUE
  /\ flash_mounted' = TRUE
  /\ pc' = "sd_init"
  /\ UNCHANGED <<mapped, empty, sdVars>>

FlashOpenFails ==
  /\ pc = "flash_open"
  /\ nor_open' \in BOOLEAN
  /\ mapped' \in {mapped, mapped \cup (IF "boot" \in mapped THEN {} ELSE {"raw"})}
  /\ pc' = "sd_init"
  /\ UNCHANGED <<flash_mounted, empty, sdVars>>

-----------------------------------------------------------------------------
(* initialize_sd_media                                                     *)

\* The end of initialize: one volume is enough.
Finished(flash_ok, sd_ok) == IF flash_ok \/ sd_ok THEN "running" ELSE "failed"

\* initialize_sd_card with a bus width that succeeds.
CardReady(width) ==
  [diagnostics EXCEPT !.sd_error = {}, !.sd_bus_width = width]

CardFailed(error) ==
  [diagnostics EXCEPT !.sd_error = error, !.sd_bus_width = 0]

\* Mutant: the error of the 4-bit attempt is recorded after the card is reset.
Fallback_LateError(d) ==
  [d EXCEPT !.sd_fallback_used = 1, !.sd_fallback_error = {}, !.sd_bus_width = 0]

\* What is recorded when the 4-bit attempt is given up.
Fallback(d) ==
  [d EXCEPT !.sd_fallback_used = 1, !.sd_fallback_error = d.sd_error,
            !.sd_bus_width = 0]

SdInit4Bit ==
  /\ pc = "sd_init"
  /\ diagnostics' = CardReady(4)
  /\ pc' = "sd_open"
  /\ UNCHANGED <<mapped, erase_on_boot, nor_open, flash_mounted, empty, sd_mounted,
                 open_status, four_bit_failure>>

\* Any failure of HAL_SD_Init or HAL_SD_GetCardInfo in 4-bit mode.
SdInit4BitFails ==
  /\ pc = "sd_init"
  /\ \E error \in SdErrors :
       /\ diagnostics' = Fallback(CardFailed(error))
       /\ four_bit_failure' = [during |-> "init", error |-> error]
  /\ pc' = "sd_init_1bit"
  /\ UNCHANGED <<mapped, erase_on_boot, nor_open, flash_mounted, empty, sd_mounted,
                 open_status>>

\* The second initialize_sd_card, before a mount or before a second mount.
SdInit1Bit ==
  /\ pc \in {"sd_init_1bit", "sd_retry_init"}
  /\ diagnostics' = CardReady(1)
  /\ pc' = IF pc = "sd_init_1bit" THEN "sd_open" ELSE "sd_reopen"
  /\ UNCHANGED <<mapped, erase_on_boot, nor_open, flash_mounted, empty, sd_mounted,
                 open_status, four_bit_failure>>

SdInit1BitFails ==
  /\ pc \in {"sd_init_1bit", "sd_retry_init"}
  /\ \E error \in SdErrors : diagnostics' = CardFailed(error)
  /\ pc' = Finished(flash_mounted, FALSE)
  /\ UNCHANGED <<mapped, erase_on_boot, nor_open, flash_mounted, empty, sd_mounted,
                 open_status, four_bit_failure>>

should_retry_sd_mount_in_one_bit(width, status, error) ==
  width = 4 /\ status = "FX_BOOT_ERROR" /\ "crc" \in error

\* What fx_media_open and the sd_read calls below it can leave behind: success,
\* or a failure with or without a HAL error.
MountResult(status, error) ==
  /\ status = "FX_SUCCESS" => error = {}
  /\ status \in FileXStatus
  /\ error \in SdErrors

\* What a failing sd_read records.
MountError(error) == [diagnostics EXCEPT !.sd_error = error]

\* fx_media_open whose result stands.
SdOpen ==
  /\ pc = "sd_open"
  /\ \E status \in FileXStatus, error \in SdErrors :
       /\ MountResult(status, error)
       /\ ~should_retry_sd_mount_in_one_bit(diagnostics.sd_bus_width, status, error)
       /\ diagnostics' = MountError(error)
       /\ open_status' = status
       /\ sd_mounted' = (status = "FX_SUCCESS")
       /\ pc' = Finished(flash_mounted, status = "FX_SUCCESS")
  /\ UNCHANGED <<mapped, erase_on_boot, nor_open, flash_mounted, empty, four_bit_failure>>

\* fx_media_open whose failure is retried: prepare_sd_mount_retry.
SdOpenRetried ==
  /\ pc = "sd_open"
  /\ \E error \in SdErrors :
       /\ should_retry_sd_mount_in_one_bit(diagnostics.sd_bus_width, "FX_BOOT_ERROR", error)
       /\ diagnostics' = Fallback(MountError(error))
       /\ four_bit_failure' =
            IF four_bit_failure = NoFailure
            THEN [during |-> "mount", error |-> error] ELSE four_bit_failure
  /\ open_status' = "FX_BOOT_ERROR"
  /\ sd_mounted' = FALSE
  /\ pc' = "sd_retry_init"
  /\ UNCHANGED <<mapped, erase_on_boot, nor_open, flash_mounted, empty>>

\* The second fx_media_open.
SdReopen ==
  /\ pc = "sd_reopen"
  /\ \E status \in FileXStatus, error \in SdErrors :
       /\ MountResult(status, error)
       /\ diagnostics' = MountError(error)
       /\ open_status' = status
       /\ sd_mounted' = (status = "FX_SUCCESS")
       /\ pc' = Finished(flash_mounted, status = "FX_SUCCESS")
  /\ UNCHANGED <<mapped, erase_on_boot, nor_open, flash_mounted, empty, four_bit_failure>>

-----------------------------------------------------------------------------

\* The application stores a file on the flash.
StoreFile ==
  /\ pc = "running"
  /\ flash_mounted
  /\ mapped' = mapped \cup {"files"}
  /\ UNCHANGED <<pc, ramVars>>

Next ==
  \/ PowerOn
  \/ PowerLoss
  \/ FlashFails
  \/ initialize_qspi
  \/ EraseBlock
  \/ EraseDone
  \/ open_levelx
  \/ close_levelx
  \/ FormatWrite
  \/ FormatDone
  \/ FlashOpens
  \/ FlashOpenFails
  \/ SdInit4Bit
  \/ SdInit4BitFails
  \/ SdInit1Bit
  \/ SdInit1BitFails
  \/ SdOpen
  \/ SdOpenRetried
  \/ SdReopen
  \/ StoreFile

Spec == Init /\ [][Next]_vars

-----------------------------------------------------------------------------
(* Properties                                                              *)

\* Whatever power cycles and failures come, initialize never destroys what the
\* flash holds, be it a volume it cannot mount, unless told to erase.
ContentsSurvive ==
  [][~erase_on_boot => (mapped \cap Contents) \subseteq mapped']_vars

\* What the diagnostics say about the fallback is what happened in this boot:
\* it was used exactly when a 4-bit attempt failed, with that attempt's error,
\* and the card is not in 4-bit mode afterwards.
FallbackReported ==
  LET failed == four_bit_failure # NoFailure IN
  /\ diagnostics.sd_fallback_used = 1 <=> failed
  /\ failed => diagnostics.sd_fallback_error = four_bit_failure.error
  /\ failed => diagnostics.sd_bus_width # 4

\* A card that was already tried in 1-bit mode is not retried: a mount is
\* retried at most once, and only after a 4-bit attempt.
RetriedOnlyFrom4Bit ==
  pc \in {"sd_retry_init", "sd_reopen"} => four_bit_failure.during = "mount"

\* The erasing boot is a way out of every state of the flash, an interrupted
\* format included: when it comes to the mount, the volume is a fresh one.
EraseRecovers == erase_on_boot /\ pc = "flash_open" => mapped = FormatSectors

\* README.md on the SD card: the 1-bit fallback follows a boot-sector read with
\* a CRC error and nothing else.
FallbackOnlyAfterBootCrc ==
  diagnostics.sd_fallback_used = 1 =>
    four_bit_failure.during = "mount" /\ "crc" \in four_bit_failure.error

-----------------------------------------------------------------------------
(* The inductive invariant behind the safety properties.                   *)

\* The chip found blank is still blank, but for the format's own sectors, and an
\* erased chip is found blank.
FormatInv ==
  /\ pc = "erase" => erase_on_boot
  /\ pc = "close" /\ empty => mapped = {}
  /\ erase_on_boot /\ pc \in {"levelx", "close"} => mapped = {}
  /\ erase_on_boot /\ pc = "close" => empty
  /\ pc = "format" => mapped \subseteq FormatSectors

\* The SD part begins without a failure, and only a 4-bit attempt has none.
FallbackInv ==
  /\ pc \in {"off", "qspi", "erase", "levelx", "close", "format", "flash_open",
             "sd_init"} =>
       four_bit_failure = NoFailure /\ diagnostics.sd_fallback_used = 0
  /\ pc = "sd_open" =>
       (diagnostics.sd_bus_width = 4 <=> four_bit_failure = NoFailure)
  /\ pc = "sd_init_1bit" => four_bit_failure # NoFailure

StorageInv ==
  /\ TypeOK
  /\ FormatInv
  /\ FallbackInv
  /\ EraseRecovers
  /\ FallbackReported
  /\ RetriedOnlyFrom4Bit
=============================================================================
