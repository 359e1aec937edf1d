----------------------------- MODULE OtaUpdate -----------------------------
(***************************************************************************)
(* src/ota_update.c over the POST side of src/http_rest.c: a firmware      *)
(* image is streamed into the partition that is not running, sector by     *)
(* sector, the update is recorded in the EEPROM, the bootrom boots it on   *)
(* trial, and the new image confirms itself once the network has proven    *)
(* stable; otherwise the bootrom falls back and the old image reports it.  *)
(*                                                                         *)
(* Bytes are counted in units, SectorSize of them to a flash sector; unit  *)
(* i of upload n is <<n, i>>.  Time is counted in polls of the health      *)
(* timer.  lwIP's thread serves one callback at a time; the timer daemon   *)
(* and a reset come in between.                                            *)
(***************************************************************************)
EXTENDS Integers, Sequences

CONSTANTS
  Connections,    \* HTTP connections that may post to /ota_upload
  SectorSize,     \* FLASH_SECTOR_SIZE
  PartitionSize,  \* OTA_PARTITION_SIZE_BYTES, a whole number of sectors
  Chunks,         \* lengths of a received pbuf; none exceeds a sector
  MaxUploads,     \* bound on the uploads accepted
  MinStable,      \* OTA_HEALTH_MIN_STABLE_MS
  MaxWait         \* OTA_HEALTH_MAX_WAIT_MS

ASSUME OtaAssumption ==
  /\ SectorSize \in Nat \ {0}
  /\ PartitionSize \in Nat \ {0} /\ PartitionSize % SectorSize = 0
  /\ Chunks \subseteq 1..SectorSize
  /\ MaxUploads \in Nat
  /\ MinStable \in Nat \ {0} /\ MaxWait \in Nat \ {0}

Partitions == {0, 1}
Other(p) == IF p = 0 THEN 1 ELSE 0
Pad == <<0, 1>>   \* 0xFF
Old == <<0, 0>>   \* what is not part of an upload
Units == {Pad, Old} \cup ((1..MaxUploads) \X (0..(PartitionSize - 1)))

VARIABLES
  \* what survives a reset
  flash,      \* contents of the two partitions
  preferred,  \* the partition whose image is permanent, for the bootrom
  stored,     \* EEPROM: update_pending, target_partition, last_result
  \* the bootrom's view of this boot
  power,      \* "boot" until ota_update_init has run
  running, tentative,
  \* RAM
  running_partition,  \* -1 if rom_get_boot_info failed
  ota,                \* eeprom_ota_data
  rollback_fault,
  confirm_timer, elapsed, ready_since, network_currently_ready,
  daemon,             \* "idle", "buy" or "record": where _ota_confirm_now is
  download_active, target_partition, expected_len, bytes_received,
  staging, next_write_offset,
  left,               \* post_content_len_left of each connection
  tcpip,              \* "idle", "save" or "timer": where httpd_post_finished is
  reboot_timer,
  \* history
  uploads,            \* uploads accepted
  good_polls,         \* polls in a row that saw the network ready
  fell_back,          \* the bootrom dropped an update, and no boot has said so
  hurried, glitches   \* fixed by Init: see PostBegin, Saved and Boot

permanent == <<flash, preferred, stored>>
boot == <<power, running, tentative, running_partition, fell_back>>
health == <<confirm_timer, elapsed, ready_since, network_currently_ready, good_polls>>
upload == <<download_active, target_partition, expected_len, bytes_received,
            staging, next_write_offset, left, uploads>>
fixed == <<hurried, glitches>>
vars == <<permanent, boot, ota, rollback_fault, health, daemon, upload, tcpip,
          reboot_timer, fixed>>

NoUpdate == [pending |-> FALSE, target |-> 0, result |-> "NONE"]
On == power = "on"

(* ota_update_config_save: nobody looks at whether it worked. *)
Saved == stored' \in {ota'} \cup (IF glitches THEN {stored} ELSE {})

-----------------------------------------------------------------------------
\* Seeded fault in PostBegin: the running partition is not looked at.
PostBeginUnchecked(c, len) ==
  /\ On /\ tcpip = "idle" /\ left[c] = 0
  /\ uploads < MaxUploads
  /\ hurried \/ (~reboot_timer /\ ~confirm_timer /\ daemon = "idle" /\ ~tentative)
  /\ ~download_active
  /\ target_partition' = Other(running_partition)
  /\ expected_len' = len
  /\ bytes_received' = 0 /\ staging' = <<>> /\ next_write_offset' = 0
  /\ download_active' = TRUE
  /\ left' = [left EXCEPT ![c] = len]
  /\ uploads' = uploads + 1
  /\ UNCHANGED <<permanent, boot, ota, rollback_fault, health, daemon, tcpip, reboot_timer, fixed>>

\* Seeded fault in PostBegin: what the last upload left staged is kept.
PostBeginStale(c, len) ==
  /\ On /\ tcpip = "idle" /\ left[c] = 0
  /\ uploads < MaxUploads
  /\ hurried \/ (~reboot_timer /\ ~confirm_timer /\ daemon = "idle" /\ ~tentative)
  /\ ~download_active
  /\ running_partition \in Partitions
  /\ target_partition' = Other(running_partition)
  /\ expected_len' = len
  /\ bytes_received' = 0 /\ UNCHANGED <<staging, next_write_offset>>
  /\ download_active' = TRUE
  /\ left' = [left EXCEPT ![c] = len]
  /\ uploads' = uploads + 1
  /\ UNCHANGED <<permanent, boot, ota, rollback_fault, health, daemon, tcpip, reboot_timer, fixed>>

(* httpd_post_begin accepts.  (Debug mode is on.  A refusal changes        *)
(* nothing.)  Unless the operator is hurried, no upload is begun while the *)
(* one before it is still to be tried or confirmed.                        *)
PostBegin(c, len) ==
  /\ On /\ tcpip = "idle" /\ left[c] = 0
  /\ uploads < MaxUploads
  /\ hurried \/ (~reboot_timer /\ ~confirm_timer /\ daemon = "idle" /\ ~tentative)
  /\ ~download_active
  /\ running_partition \in Partitions
  /\ target_partition' = Other(running_partition)
  /\ expected_len' = len
  /\ bytes_received' = 0 /\ staging' = <<>> /\ next_write_offset' = 0
  /\ download_active' = TRUE
  /\ left' = [left EXCEPT ![c] = len]
  /\ uploads' = uploads + 1
  /\ UNCHANGED <<permanent, boot, ota, rollback_fault, health, daemon, tcpip, reboot_timer, fixed>>

(* A sector of data at an offset of the target partition *)
Programmed(sector, offset) ==
  [flash EXCEPT ![target_partition] =
     [i \in DOMAIN @ |-> IF i \in offset..(offset + SectorSize - 1)
                         THEN sector[i - offset + 1] ELSE @[i]]]

Padded(s) == s \o [i \in 1..(SectorSize - Len(s)) |-> Pad]

(* The units of a pbuf of connection c *)
Received(c, k) == [i \in 1..k |-> <<uploads, expected_len - left[c] + i - 1>>]

(* httpd_post_finished for an upload that failed, or whose connection went *)
PostFailed ==
  /\ download_active' = FALSE
  /\ UNCHANGED <<tcpip, reboot_timer>>

(* http_post_rxpbuf: more of the body than was declared, or a flash sector *)
(* that cannot be written, ends the upload.  What it staged is dead: the   *)
(* next PostBegin starts afresh.                                           *)
ReceiveFails(c, k) ==
  /\ On /\ tcpip = "idle" /\ left[c] > 0
  /\ k > left[c] \/ Len(staging) + k >= SectorSize
  /\ left' = [left EXCEPT ![c] = 0]
  /\ PostFailed
  /\ UNCHANGED <<permanent, boot, ota, rollback_fault, health, daemon, target_partition,
                 expected_len, bytes_received, staging, next_write_offset, uploads, fixed>>

\* Seeded fault in Ingest: the offset does not move on.
IngestInPlace(c, k) ==
  LET all == staging \o Received(c, k)
      full == Len(all) >= SectorSize
  IN  /\ bytes_received' = bytes_received + k
      /\ flash' = IF full THEN Programmed(SubSeq(all, 1, SectorSize), next_write_offset) ELSE flash
      /\ staging' = IF full THEN SubSeq(all, SectorSize + 1, Len(all)) ELSE all
      /\ next_write_offset' = next_write_offset

(* _ota_ingest_bytes: fill the staging sector, write it out when it is full *)
Ingest(c, k) ==
  LET all == staging \o Received(c, k)
      full == Len(all) >= SectorSize
  IN  /\ bytes_received' = bytes_received + k
      /\ flash' = IF full THEN Programmed(SubSeq(all, 1, SectorSize), next_write_offset) ELSE flash
      /\ staging' = IF full THEN SubSeq(all, SectorSize + 1, Len(all)) ELSE all
      /\ next_write_offset' = next_write_offset + (IF full THEN SectorSize ELSE 0)

Receive(c, k) ==
  /\ On /\ tcpip = "idle" /\ k <= left[c]
  /\ download_active /\ bytes_received + k <= expected_len
  /\ Ingest(c, k)
  /\ left' = [left EXCEPT ![c] = @ - k]
  /\ tcpip' = IF left'[c] = 0 THEN "finish" ELSE "idle"
  /\ UNCHANGED <<preferred, stored, boot, ota, rollback_fault, health, daemon, download_active,
                 target_partition, expected_len, uploads, reboot_timer, fixed>>

(* The connection is closed in the middle of the body: by the client, or   *)
(* by http_poll after HTTPD_MAX_RETRIES polls without data.                *)
CloseConnection(c) ==
  /\ On /\ tcpip = "idle" /\ left[c] > 0
  /\ left' = [left EXCEPT ![c] = 0]
  /\ PostFailed
  /\ UNCHANGED <<permanent, boot, ota, rollback_fault, health, daemon, target_partition,
                 expected_len, bytes_received, staging, next_write_offset, uploads, fixed>>

(* http_err: TCP has aborted the connection and only its state is freed. *)
ConnectionError(c) ==
  /\ On /\ tcpip = "idle" /\ left[c] > 0
  /\ left' = [left EXCEPT ![c] = 0]
  /\ UNCHANGED <<permanent, boot, ota, rollback_fault, health, daemon, download_active, target_partition,
                 expected_len, bytes_received, staging, next_write_offset, uploads, tcpip, reboot_timer, fixed>>

(* httpd_post_finished after the whole body: write the partial sector, *)
FinishFlush ==
  /\ tcpip = "finish" /\ download_active' = FALSE
  /\ \/ /\ flash' = IF staging = <<>> THEN flash ELSE Programmed(Padded(staging), next_write_offset)
        /\ tcpip' = "save"
     \/ staging # <<>> /\ tcpip' = "idle" /\ UNCHANGED flash
  /\ UNCHANGED <<preferred, stored, boot, ota, rollback_fault, health, daemon, target_partition,
                 expected_len, bytes_received, staging, next_write_offset, left, uploads, reboot_timer, fixed>>

\* Seeded fault in FinishSave: the record stays in RAM.
FinishSaveUnwritten ==
  /\ tcpip = "save" /\ tcpip' = "timer"
  /\ ota' = [ota EXCEPT !.pending = TRUE, !.target = target_partition]
  /\ UNCHANGED <<flash, preferred, stored, boot, rollback_fault, health, daemon, upload, reboot_timer, fixed>>

\* Seeded fault in FinishSave: the target is not recorded.
FinishSaveNoTarget ==
  /\ tcpip = "save" /\ tcpip' = "timer"
  /\ ota' = [ota EXCEPT !.pending = TRUE]
  /\ Saved
  /\ UNCHANGED <<flash, preferred, boot, rollback_fault, health, daemon, upload, reboot_timer, fixed>>

(* record the update, *)
FinishSave ==
  /\ tcpip = "save" /\ tcpip' = "timer"
  /\ ota' = [ota EXCEPT !.pending = TRUE, !.target = target_partition]
  /\ Saved
  /\ UNCHANGED <<flash, preferred, boot, rollback_fault, health, daemon, upload, reboot_timer, fixed>>

(* and start the timer. *)
FinishTimer ==
  /\ tcpip = "timer" /\ tcpip' = "idle"
  /\ reboot_timer' = TRUE
  /\ UNCHANGED <<permanent, boot, ota, rollback_fault, health, daemon, upload, fixed>>

-----------------------------------------------------------------------------
(* A reset: RAM is lost. *)
RamLost ==
  /\ power' = "boot" /\ running_partition' = -1
  /\ ota' = NoUpdate /\ rollback_fault' = FALSE
  /\ confirm_timer' = FALSE /\ elapsed' = 0 /\ ready_since' = 0
  /\ network_currently_ready' = FALSE /\ good_polls' = 0
  /\ daemon' = "idle" /\ tcpip' = "idle" /\ reboot_timer' = FALSE
  /\ download_active' = FALSE /\ target_partition' = 0 /\ expected_len' = 0
  /\ bytes_received' = 0 /\ staging' = <<>> /\ next_write_offset' = 0
  /\ left' = [c \in Connections |-> 0]

(* _ota_reboot_timer_callback: the bootrom tries the target, and falls     *)
(* back if its image does not start.                                       *)
RebootTimer(starts) ==
  /\ On /\ reboot_timer /\ daemon = "idle"
  /\ RamLost
  /\ running' = IF starts THEN target_partition ELSE preferred
  /\ tentative' = starts
  /\ fell_back' = ~starts
  /\ UNCHANGED <<permanent, uploads, fixed>>

(* rom_reboot returns without a reboot. *)
RebootRefused ==
  /\ glitches /\ On /\ reboot_timer /\ daemon = "idle"
  /\ reboot_timer' = FALSE
  /\ UNCHANGED <<permanent, boot, ota, rollback_fault, health, daemon, upload, tcpip, fixed>>

(* Power loss, a crash, or a reboot asked for: an image on trial is dropped. *)
Reset ==
  /\ RamLost
  /\ running' = preferred /\ tentative' = FALSE
  /\ fell_back' = (fell_back \/ tentative)
  /\ UNCHANGED <<permanent, uploads, fixed>>

-----------------------------------------------------------------------------
(* load_config of the OTA slot.  A read that fails counts as no data: the  *)
(* defaults are used, and saved.                                           *)
Loaded ==
  \/ ota' = stored /\ stored' = stored
  \/ glitches /\ ota' = NoUpdate /\ stored' = NoUpdate

NotLoaded == glitches /\ ota' = NoUpdate /\ stored' = stored

(* ota_update_init.  A pending update for the running partition is to be   *)
(* confirmed; one for another partition did not stick and is reported.     *)
BootQuiet ==
  /\ NotLoaded \/ (Loaded /\ ~ota'.pending)
  /\ fell_back' = fell_back
  /\ UNCHANGED <<rollback_fault, confirm_timer>>

BootCandidate ==
  /\ Loaded /\ ota'.pending /\ running_partition' = ota'.target
  /\ confirm_timer' = TRUE
  /\ UNCHANGED <<rollback_fault, fell_back>>

BootRolledBack ==
  /\ stored.pending /\ running_partition' # stored.target
  /\ ota' = [stored EXCEPT !.pending = FALSE, !.result = "ROLLED_BACK"]
  /\ Saved
  /\ rollback_fault' = TRUE /\ fell_back' = FALSE
  /\ UNCHANGED confirm_timer

Boot ==
  /\ power = "boot" /\ power' = "on"
  /\ running_partition' \in {running} \cup (IF glitches THEN {-1} ELSE {})
  /\ BootQuiet \/ BootCandidate \/ BootRolledBack
  /\ UNCHANGED <<flash, preferred, running, tentative, elapsed, ready_since, network_currently_ready,
                 good_polls, daemon, upload, tcpip, reboot_timer, fixed>>

-----------------------------------------------------------------------------
(* _ota_health_check_timer_callback, at each period of the timer *)
HealthPoll(ready) ==
  /\ On /\ confirm_timer /\ daemon = "idle"
  /\ elapsed' = elapsed + 1
  /\ network_currently_ready' = ready
  /\ ready_since' = IF ready /\ ~network_currently_ready THEN elapsed' ELSE ready_since
  /\ good_polls' = IF ready THEN good_polls + 1 ELSE 0
  /\ LET stable_long_enough == network_currently_ready' /\ elapsed' - ready_since' >= MinStable
         timed_out == elapsed' >= MaxWait
     IN  /\ confirm_timer' = ~(stable_long_enough \/ timed_out)
         /\ daemon' = IF confirm_timer' THEN "idle" ELSE "buy"
  /\ UNCHANGED <<permanent, boot, ota, rollback_fault, upload, tcpip, reboot_timer, fixed>>

\* Seeded fault in Buy: a refusal counts as success.
BuyUnchecked ==
  /\ daemon = "buy"
  /\ \/ preferred' = running /\ tentative' = FALSE /\ daemon' = "record"
     \/ /\ glitches \/ ~tentative
        /\ daemon' = "record" /\ UNCHANGED <<preferred, tentative>>
  /\ UNCHANGED <<flash, stored, power, running, running_partition, fell_back, ota, rollback_fault,
                 health, upload, tcpip, reboot_timer, fixed>>

(* _ota_confirm_now: rom_explicit_buy may refuse an image not on trial, *)
Buy ==
  /\ daemon = "buy"
  /\ \/ preferred' = running /\ tentative' = FALSE /\ daemon' = "record"
     \/ /\ glitches \/ ~tentative
        /\ daemon' = "idle" /\ UNCHANGED <<preferred, tentative>>
  /\ UNCHANGED <<flash, stored, power, running, running_partition, fell_back, ota, rollback_fault,
                 health, upload, tcpip, reboot_timer, fixed>>

Record ==
  /\ daemon = "record" /\ daemon' = "idle"
  /\ ota' = [ota EXCEPT !.pending = FALSE, !.result = "CONFIRMED"]
  /\ Saved
  /\ UNCHANGED <<flash, preferred, boot, rollback_fault, health, upload, tcpip, reboot_timer, fixed>>

(* /rest/ota_update with ack *)
Acknowledge ==
  /\ On /\ tcpip = "idle" /\ rollback_fault
  /\ rollback_fault' = FALSE
  /\ UNCHANGED <<permanent, boot, ota, health, daemon, upload, tcpip, reboot_timer, fixed>>

-----------------------------------------------------------------------------
(* A board that was flashed over USB *)
Init ==
  /\ preferred \in Partitions /\ running = preferred /\ tentative = FALSE
  /\ flash = [p \in Partitions |-> [i \in 0..(PartitionSize - 1) |-> Old]]
  /\ stored = NoUpdate /\ ota = NoUpdate
  /\ power = "boot" /\ running_partition = -1 /\ rollback_fault = FALSE
  /\ confirm_timer = FALSE /\ elapsed = 0 /\ ready_since = 0 /\ network_currently_ready = FALSE
  /\ daemon = "idle" /\ tcpip = "idle" /\ reboot_timer = FALSE
  /\ download_active = FALSE /\ target_partition = 0 /\ expected_len = 0
  /\ bytes_received = 0 /\ staging = <<>> /\ next_write_offset = 0
  /\ left = [c \in Connections |-> 0]
  /\ uploads = 0 /\ good_polls = 0 /\ fell_back = FALSE
  /\ hurried \in BOOLEAN /\ glitches \in BOOLEAN

Finish == FinishFlush \/ FinishSave \/ FinishTimer
Confirm == (\E ready \in BOOLEAN : HealthPoll(ready)) \/ Buy \/ Record

Client(c) ==
  \/ \E len \in 1..PartitionSize : PostBegin(c, len)
  \/ \E k \in Chunks : Receive(c, k) \/ ReceiveFails(c, k)
  \/ CloseConnection(c) \/ ConnectionError(c)

Next ==
  \/ \E c \in Connections : Client(c)
  \/ Finish \/ Confirm \/ Boot \/ Reset \/ Acknowledge
  \/ (\E starts \in BOOLEAN : RebootTimer(starts)) \/ RebootRefused

Spec == Init /\ [][Next]_vars

(* Callbacks under way end, timers that run expire and a board that was    *)
(* reset boots; nobody needs to post and nothing needs to fail.            *)
FairSpec ==
  /\ Spec
  /\ WF_vars(Finish) /\ WF_vars(Confirm) /\ WF_vars(Boot)
  /\ WF_vars(\E starts \in BOOLEAN : RebootTimer(starts))
-----------------------------------------------------------------------------
(* The unit of the upload in progress, or of the last one, that belongs at *)
(* offset i of its target: data up to the declared length, then padding.   *)
ImageUnit(i) == IF i < expected_len THEN <<uploads, i>> ELSE Pad

(* The smallest whole number of sectors that holds n units *)
Sectors(n) == ((n + SectorSize - 1) \div SectorSize) * SectorSize

TypesOK ==
  /\ flash \in [Partitions -> [0..(PartitionSize - 1) -> Units]]
  /\ {preferred, running, target_partition} \subseteq Partitions
  /\ {stored, ota} \subseteq [pending : BOOLEAN, target : Partitions,
                              result : {"NONE", "CONFIRMED", "ROLLED_BACK"}]
  /\ power \in {"boot", "on"} /\ running_partition \in {-1, running}
  /\ {tentative, rollback_fault, confirm_timer, network_currently_ready, download_active,
      reboot_timer, fell_back, hurried, glitches} \subseteq BOOLEAN
  /\ elapsed \in 0..MaxWait /\ ready_since \in 0..elapsed /\ good_polls \in 0..elapsed
  /\ daemon \in {"idle", "buy", "record"} /\ tcpip \in {"idle", "finish", "save", "timer"}
  /\ {expected_len, bytes_received, next_write_offset} \subseteq 0..PartitionSize
  /\ left \in [Connections -> 0..PartitionSize] /\ uploads \in 0..MaxUploads

(* The staging buffer and what was flashed of an upload are, together, the *)
(* bytes received so far, each at its place; a connection that still has   *)
(* body to send is the only one and has exactly the rest of the image.     *)
StreamOK ==
  /\ staging \in Seq(Units) /\ Len(staging) < SectorSize
  /\ download_active =>
       /\ uploads > 0
       /\ bytes_received = next_write_offset + Len(staging)
       /\ bytes_received <= expected_len
       /\ next_write_offset % SectorSize = 0
       /\ \A i \in 1..Len(staging) : staging[i] = <<uploads, next_write_offset + i - 1>>
       /\ \A i \in 0..(next_write_offset - 1) : flash[target_partition][i] = <<uploads, i>>
  /\ \A c \in Connections : left[c] > 0 =>
       /\ download_active /\ left[c] = expected_len - bytes_received
       /\ \A d \in Connections \ {c} : left[d] = 0

(* An image is made permanent only after the network was seen ready at     *)
(* each poll over MinStable, or after MaxWait (ota_update.c:22-32).        *)
ConfirmNeedsHealth ==
  daemon = "buy" => good_polls > MinStable \/ elapsed >= MaxWait

(* What the health timer remembers is the polls since the network came up. *)
HealthOK ==
  /\ confirm_timer => elapsed < MaxWait /\ daemon = "idle"
  /\ IF network_currently_ready
       THEN ready_since \in 1..elapsed /\ good_polls = elapsed - ready_since + 1
       ELSE good_polls = 0
  /\ ConfirmNeedsHealth

(* Nothing runs before ota_update_init. *)
BootOK ==
  power = "boot" => /\ ~confirm_timer /\ elapsed = 0 /\ ~network_currently_ready
                    /\ daemon = "idle" /\ tcpip = "idle"
                    /\ ~reboot_timer /\ ~download_active

Uploading == download_active \/ tcpip # "idle" \/ reboot_timer

(* The target holds the whole image as posted and 0xFF up to the end of    *)
(* its last sector.                                                        *)
ImageStored ==
  \A i \in 0..(Sectors(expected_len) - 1) : flash[target_partition][i] = ImageUnit(i)

(* httpd_post_finished is called for a whole image and goes on only with   *)
(* one that is stored; the target is never the running partition.          *)
UploadOK ==
  /\ Uploading => target_partition # running
  /\ tcpip = "finish" => download_active /\ bytes_received = expected_len
  /\ tcpip # "idle" => \A c \in Connections : left[c] = 0
  /\ tcpip \in {"save", "timer"} => ~download_active /\ ImageStored
  /\ ~hurried /\ reboot_timer => ~download_active /\ ImageStored

(* Where uploads wait for the one before to be tried and confirmed: the    *)
(* record in the EEPROM is about the image that is uploaded or on trial.   *)
TrialOK ==
  /\ ~tentative => running = preferred
  /\ ~hurried =>
       /\ Uploading => ~confirm_timer /\ daemon = "idle" /\ ~tentative
       /\ confirm_timer \/ daemon = "buy" => stored.pending
       /\ confirm_timer \/ daemon # "idle" => ota.target = running
       /\ daemon = "record" => ~tentative
  /\ ~hurried /\ ~glitches =>
       /\ tcpip = "timer" \/ reboot_timer =>
            stored.pending /\ stored.target = target_partition
       /\ tentative => /\ stored.pending /\ stored.target = running
                       /\ running # preferred
       /\ fell_back => /\ power = "boot" /\ ~tentative
                       /\ stored.pending /\ stored.target # running

(* The type invariant; an upload is stored as it was received              *)
(* (_ota_ingest_bytes, http_post_rxpbuf); no image is confirmed early; and *)
(* what ties the record, the timers and the partitions together.           *)
OtaInv == TypesOK /\ StreamOK /\ HealthOK /\ BootOK /\ UploadOK /\ TrialOK

(* When the reboot into an update is scheduled, its partition holds the    *)
(* whole image as posted and 0xFF up to the end of its last sector         *)
(* (httpd_post_finished), whatever happened to the uploads before it.      *)
ScheduledImageIsComplete == ~hurried /\ reboot_timer => ImageStored

(* The image being executed is never written, even when the bootrom could  *)
(* not say which one it is (httpd_post_begin's "wrong guess").             *)
RunningImageIntact == [][flash'[running] = flash[running]]_vars

(* If nothing fails, an image that runs knows of every update that the     *)
(* bootrom dropped, at the first boot after it (ota_update_init).          *)
RollbackIsReported == ~glitches /\ ~hurried /\ power = "on" => ~fell_back

(* A stored verdict "confirmed" is about the image that is permanent, even *)
(* if the bootrom refuses and saves and loads fail (_ota_confirm_now).     *)
ConfirmedIsTrue ==
  ~hurried /\ ~stored.pending /\ stored.result = "CONFIRMED" => preferred = stored.target

(* An image on trial is bought or dropped: it does not stay "permanently   *)
(* tentative forever" (ota_update.c:30-32).                                *)
NotTentativeForever == ~glitches /\ ~hurried /\ tentative ~> ~tentative

(* "make sure the post code knows that the connection is closed"           *)
(* (http_rest.c:608): an upload in progress has a connection feeding it.   *)
UploadHasAConnection ==
  download_active => tcpip = "finish" \/ \E c \in Connections : left[c] > 0
=============================================================================
