------------------------- MODULE StorageMountProofs -------------------------
(* That boots, failures and power losses never destroy what the flash holds *)
(* and that the diagnostics tell the truth about the SD fallback.           *)
EXTENDS StorageMount, TLAPS

\* storage::initialize starts from cleared state whatever the flash holds.
LEMMA InitInv == Init => StorageInv
<1> SUFFICES ASSUME Init PROVE StorageInv
  OBVIOUS
<1>1. diagnostics \in SdDiagnostics
  BY DEF Init, NoDiagnostics, SdDiagnostics, SdErrors
<1>2. mapped \subseteq FormatSectors \cup Contents \cup {"raw"}
  BY DEF Init, FormatSectors, Contents
<1>3. TypeOK
  BY <1>1, <1>2 DEF Init, TypeOK, NoFailure, SdErrors, FileXStatus, Steps
<1> QED
  BY <1>3 DEF Init, StorageInv, FormatInv, EraseRecovers, FallbackInv, FallbackReported,
              RetriedOnlyFrom4Bit, NoDiagnostics

\* What initialize_sd_card records when it succeeds.
LEMMA ReadyRecorded ==
  ASSUME diagnostics \in SdDiagnostics, NEW width \in {1, 4}
  PROVE  /\ CardReady(width) \in SdDiagnostics
         /\ CardReady(width).sd_bus_width = width
         /\ CardReady(width).sd_fallback_used = diagnostics.sd_fallback_used
         /\ CardReady(width).sd_fallback_error = diagnostics.sd_fallback_error
BY DEF CardReady, SdDiagnostics, SdErrors

\* What initialize_sd_card records when it fails.
LEMMA FailureRecorded ==
  ASSUME diagnostics \in SdDiagnostics, NEW error \in SdErrors
  PROVE  /\ CardFailed(error) \in SdDiagnostics
         /\ CardFailed(error).sd_error = error
         /\ CardFailed(error).sd_bus_width = 0
         /\ CardFailed(error).sd_fallback_used = diagnostics.sd_fallback_used
         /\ CardFailed(error).sd_fallback_error = diagnostics.sd_fallback_error
BY DEF CardFailed, SdDiagnostics, SdErrors

\* What a mount leaves behind.
LEMMA MountRecorded ==
  ASSUME diagnostics \in SdDiagnostics, NEW error \in SdErrors
  PROVE  /\ MountError(error) \in SdDiagnostics
         /\ MountError(error).sd_error = error
         /\ MountError(error).sd_bus_width = diagnostics.sd_bus_width
         /\ MountError(error).sd_fallback_used = diagnostics.sd_fallback_used
         /\ MountError(error).sd_fallback_error = diagnostics.sd_fallback_error
BY DEF MountError, SdDiagnostics, SdErrors

\* What giving the 4-bit attempt up does to them.
LEMMA FallbackRecorded ==
  ASSUME NEW d \in SdDiagnostics
  PROVE  /\ Fallback(d) \in SdDiagnostics
         /\ Fallback(d).sd_bus_width = 0
         /\ Fallback(d).sd_fallback_used = 1
         /\ Fallback(d).sd_fallback_error = d.sd_error
BY DEF Fallback, SdDiagnostics

\* Power cycles and the steps of initialize_flash_media.
LEMMA FlashInv ==
  ASSUME StorageInv,
         PowerOn \/ PowerLoss \/ FlashFails \/ initialize_qspi \/ EraseBlock
           \/ EraseDone \/ open_levelx \/ close_levelx \/ FormatWrite \/ FormatDone
           \/ FlashOpens \/ FlashOpenFails \/ StoreFile
  PROVE  StorageInv'
<1> USE DEF StorageInv, TypeOK, FormatInv, EraseRecovers, FallbackInv, FallbackReported,
            RetriedOnlyFrom4Bit, Steps, ramVars, sdVars
<1>1. CASE PowerOn
  BY <1>1 DEF PowerOn
<1>2. CASE PowerLoss
  <2>1. /\ NoDiagnostics \in SdDiagnostics
        /\ NoDiagnostics.sd_fallback_used = 0
        /\ NoFailure \in [during : {"none", "init", "mount"}, error : SdErrors]
    BY DEF NoDiagnostics, SdDiagnostics, NoFailure, SdErrors
  <2>2. TypeOK'
    BY <1>2, <2>1 DEF PowerLoss, FileXStatus
  <2> QED
    BY <1>2, <2>1, <2>2 DEF PowerLoss
<1>3. CASE FlashFails
  BY <1>3 DEF FlashFails
<1>4. CASE initialize_qspi \/ EraseBlock \/ EraseDone
  BY <1>4 DEF initialize_qspi, EraseBlock, EraseDone, Erased
<1>5. CASE open_levelx \/ close_levelx
  <2>1. CASE open_levelx
    BY <2>1 DEF open_levelx, Blank
  <2>2. CASE close_levelx
    <3>1. CASE empty
      BY <2>2, <3>1 DEF close_levelx
    <3>2. CASE ~empty
      BY <2>2, <3>2 DEF close_levelx
    <3> QED
      BY <3>1, <3>2
  <2> QED
    BY <1>5, <2>1, <2>2
<1>6. CASE FormatWrite \/ FormatDone
  BY <1>6 DEF FormatWrite, FormatDone
<1>7. CASE FlashOpens \/ FlashOpenFails
  BY <1>7 DEF FlashOpens, FlashOpenFails
<1>8. CASE StoreFile
  BY <1>8 DEF StoreFile, Contents
<1> QED
  BY <1>1, <1>2, <1>3, <1>4, <1>5, <1>6, <1>7, <1>8

\* The steps of initialize_sd_media.
LEMMA SdInv ==
  ASSUME StorageInv,
         SdInit4Bit \/ SdInit4BitFails \/ SdInit1Bit \/ SdInit1BitFails \/ SdOpen
           \/ SdOpenRetried \/ SdReopen
  PROVE  StorageInv'
<1> USE DEF StorageInv, TypeOK, FormatInv, EraseRecovers, FallbackInv, FallbackReported,
            RetriedOnlyFrom4Bit, Steps
<1>1. CASE SdInit4Bit
  <2>1. /\ diagnostics' \in SdDiagnostics
        /\ diagnostics'.sd_bus_width = 4
        /\ diagnostics'.sd_fallback_used = diagnostics.sd_fallback_used
    BY <1>1, ReadyRecorded DEF SdInit4Bit
  <2> QED
    BY <1>1, <2>1 DEF SdInit4Bit
<1>2. CASE SdInit4BitFails
  <2>1. PICK error \in SdErrors :
          /\ diagnostics' = Fallback(CardFailed(error))
          /\ four_bit_failure' = [during |-> "init", error |-> error]
    BY <1>2 DEF SdInit4BitFails
  <2>2. /\ diagnostics' \in SdDiagnostics
        /\ diagnostics'.sd_bus_width = 0
        /\ diagnostics'.sd_fallback_used = 1
        /\ diagnostics'.sd_fallback_error = error
    BY <2>1, FailureRecorded, FallbackRecorded
  <2> QED
    BY <1>2, <2>1, <2>2 DEF SdInit4BitFails, NoFailure
<1>3. CASE SdInit1Bit
  <2>1. /\ diagnostics' \in SdDiagnostics
        /\ diagnostics'.sd_bus_width = 1
        /\ diagnostics'.sd_fallback_used = diagnostics.sd_fallback_used
        /\ diagnostics'.sd_fallback_error = diagnostics.sd_fallback_error
    BY <1>3, ReadyRecorded DEF SdInit1Bit
  <2> QED
    BY <1>3, <2>1 DEF SdInit1Bit, NoFailure
<1>4. CASE SdInit1BitFails
  <2>1. /\ diagnostics' \in SdDiagnostics
        /\ diagnostics'.sd_bus_width = 0
        /\ diagnostics'.sd_fallback_used = diagnostics.sd_fallback_used
        /\ diagnostics'.sd_fallback_error = diagnostics.sd_fallback_error
    BY <1>4, FailureRecorded DEF SdInit1BitFails
  <2> QED
    BY <1>4, <2>1 DEF SdInit1BitFails, Finished
<1>5. CASE SdOpen \/ SdReopen
  <2>1. /\ diagnostics' \in SdDiagnostics
        /\ diagnostics'.sd_bus_width = diagnostics.sd_bus_width
        /\ diagnostics'.sd_fallback_used = diagnostics.sd_fallback_used
        /\ diagnostics'.sd_fallback_error = diagnostics.sd_fallback_error
    BY <1>5, MountRecorded DEF SdOpen, SdReopen
  <2> QED
    BY <1>5, <2>1 DEF SdOpen, SdReopen, Finished
<1>6. CASE SdOpenRetried
  <2>1. PICK error \in SdErrors :
          /\ should_retry_sd_mount_in_one_bit(diagnostics.sd_bus_width, "FX_BOOT_ERROR", error)
          /\ diagnostics' = Fallback(MountError(error))
          /\ four_bit_failure' =
               IF four_bit_failure = NoFailure
               THEN [during |-> "mount", error |-> error] ELSE four_bit_failure
    BY <1>6 DEF SdOpenRetried
  <2>2. four_bit_failure' = [during |-> "mount", error |-> error]
    BY <1>6, <2>1 DEF SdOpenRetried, should_retry_sd_mount_in_one_bit
  <2>3. /\ diagnostics' \in SdDiagnostics
        /\ diagnostics'.sd_bus_width = 0
        /\ diagnostics'.sd_fallback_used = 1
        /\ diagnostics'.sd_fallback_error = error
    BY <2>1, MountRecorded, FallbackRecorded
  <2>4. four_bit_failure' # NoFailure
    BY <2>2 DEF NoFailure
  <2>5. TypeOK'
    BY <1>6, <2>2, <2>3 DEF SdOpenRetried, FileXStatus
  <2> QED
    BY <1>6, <2>2, <2>3, <2>4, <2>5 DEF SdOpenRetried
<1> QED
  BY <1>1, <1>2, <1>3, <1>4, <1>5, <1>6

\* Every reachable state of the boot sequence satisfies the inductive invariant.
THEOREM StorageInvariant == Spec => []StorageInv
<1>1. StorageInv /\ UNCHANGED vars => StorageInv'
  BY DEF StorageInv, TypeOK, FormatInv, EraseRecovers, FallbackInv, FallbackReported,
         RetriedOnlyFrom4Bit, vars, ramVars
<1>2. StorageInv /\ [Next]_vars => StorageInv'
  BY <1>1, FlashInv, SdInv DEF Next
<1> QED
  BY <1>2, InitInv, PTL DEF Spec

\* Whatever the diagnostics say of the 1-bit fallback happened in this boot.
THEOREM DiagnosticsTruthful == Spec => []FallbackReported
BY StorageInvariant, PTL DEF StorageInv

\* A boot of an image built to erase the flash comes to the mount with a fresh
\* volume, whatever earlier boots left behind.
THEOREM EraseAlwaysRecovers == Spec => []EraseRecovers
BY StorageInvariant, PTL DEF StorageInv

\* No boot of the firmware, interrupted or not, destroys a file or a volume of
\* another origin on the flash, unless it is built to erase the chip.
THEOREM FlashContentsSurvive == Spec => ContentsSurvive
<1>1. StorageInv /\ [Next]_vars => [~erase_on_boot => (mapped \cap Contents) \subseteq mapped']_vars
  <2> SUFFICES ASSUME StorageInv, Next, ~erase_on_boot
               PROVE  (mapped \cap Contents) \subseteq mapped'
    OBVIOUS
  <2>1. CASE FormatWrite
    BY <2>1 DEF FormatWrite, StorageInv, FormatInv, FormatSectors, Contents
  <2>2. CASE EraseBlock
    BY <2>2 DEF EraseBlock, StorageInv, FormatInv
  <2>3. CASE FlashOpenFails \/ StoreFile
    BY <2>3 DEF FlashOpenFails, StoreFile
  <2>4. CASE UNCHANGED mapped
    BY <2>4
  <2> QED
    BY <2>1, <2>2, <2>3, <2>4
       DEF Next, PowerOn, PowerLoss, FlashFails, initialize_qspi, EraseDone, open_levelx,
           close_levelx, FormatDone, FlashOpens, SdInit4Bit, SdInit4BitFails,
           SdInit1Bit, SdInit1BitFails, SdOpen, SdOpenRetried, SdReopen
<1> QED
  BY <1>1, StorageInvariant, PTL DEF Spec, ContentsSurvive
=============================================================================
