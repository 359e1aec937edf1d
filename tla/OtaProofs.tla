----------------------------- MODULE OtaProofs ------------------------------
(***************************************************************************)
(* For every size of the sectors, the partitions and the received pieces,  *)
(* any number of connections and uploads, and any limits of the health     *)
(* check: what ota_update.c stores is what was posted, the running image   *)
(* is not written, and no verdict is lost or given early.                  *)
(***************************************************************************)
EXTENDS OtaUpdate, SequenceTheorems, TLAPS

(* A number is its sector times the size of one, and its place in it. *)
LEMMA DivMod ==
  ASSUME NEW n \in Nat
  PROVE  /\ n \div SectorSize \in Nat
         /\ n % SectorSize \in 0..(SectorSize - 1)
         /\ n = SectorSize * (n \div SectorSize) + (n % SectorSize)
BY OtaAssumption DEF OtaAssumption

LEMMA DivModUnique ==
  ASSUME NEW n \in Nat, NEW q \in Nat, NEW r \in 0..(SectorSize - 1),
         n = SectorSize * q + r
  PROVE  n \div SectorSize = q /\ n % SectorSize = r
BY OtaAssumption DEF OtaAssumption

LEMMA WholeSectors ==
  ASSUME NEW n \in Nat, n % SectorSize = 0
  PROVE  \E q \in Nat : n = SectorSize * q
<1>1. n = SectorSize * (n \div SectorSize) + 0 /\ n \div SectorSize \in Nat
  BY DivMod
<1>2. n = SectorSize * (n \div SectorSize)
  BY <1>1, OtaAssumption DEF OtaAssumption
<1>3. QED
  BY <1>1, <1>2, Zenon

(* The offset of the sector after this one is a whole number of sectors. *)
LEMMA NextSector ==
  ASSUME NEW n \in Nat, n % SectorSize = 0
  PROVE  (n + SectorSize) % SectorSize = 0
<1> USE OtaAssumption DEF OtaAssumption
<1>1. PICK q \in Nat : n = SectorSize * q
  BY WholeSectors
<1>2. n + SectorSize = SectorSize * (q + 1) + 0
  BY <1>1
<1>3. QED
  BY <1>2, DivModUnique, q + 1 \in Nat, n + SectorSize \in Nat, 0 \in 0..(SectorSize - 1)

(* A sector that begins in a partition ends in it. *)
LEMMA SectorFits ==
  ASSUME NEW n \in Nat, n % SectorSize = 0, n < PartitionSize
  PROVE  n + SectorSize <= PartitionSize
<1> USE OtaAssumption DEF OtaAssumption
<1>1. PICK q \in Nat : n = SectorSize * q
  BY WholeSectors
<1>2. PICK m \in Nat : PartitionSize = SectorSize * m
  BY WholeSectors
<1>3. q < m
  <2>1. SUFFICES ASSUME m <= q PROVE FALSE
    OBVIOUS
  <2>2. SectorSize * m <= SectorSize * q
    BY <2>1
  <2>3. QED
    BY <1>1, <1>2, <2>2
<1>4. SectorSize * (q + 1) <= SectorSize * m
  BY <1>3
<1>5. SectorSize * (q + 1) = SectorSize * q + SectorSize
  OBVIOUS
<1>6. QED
  BY <1>1, <1>2, <1>4, <1>5

(* The sectors of n units that end in the middle of one, and at its end *)
LEMMA SectorsWhole ==
  ASSUME NEW n \in Nat, n % SectorSize = 0
  PROVE  Sectors(n) = n
<1> USE OtaAssumption DEF OtaAssumption
<1>1. PICK q \in Nat : n = SectorSize * q
  BY WholeSectors
<1>2. n + SectorSize - 1 = SectorSize * q + (SectorSize - 1)
  BY <1>1
<1>3. (n + SectorSize - 1) \div SectorSize = q
  BY <1>2, DivModUnique, n + SectorSize - 1 \in Nat, SectorSize - 1 \in 0..(SectorSize - 1)
<1>4. QED
  BY <1>1, <1>3 DEF Sectors

LEMMA SectorsPartial ==
  ASSUME NEW n \in Nat, n % SectorSize = 0, NEW k \in 1..(SectorSize - 1)
  PROVE  Sectors(n + k) = n + SectorSize
<1> USE OtaAssumption DEF OtaAssumption
<1>1. PICK q \in Nat : n = SectorSize * q
  BY WholeSectors
<1>2. n + k + SectorSize - 1 = SectorSize * (q + 1) + (k - 1)
  BY <1>1
<1>3. (n + k + SectorSize - 1) \div SectorSize = q + 1
  BY <1>2, DivModUnique, n + k + SectorSize - 1 \in Nat, k - 1 \in 0..(SectorSize - 1),
     q + 1 \in Nat
<1>4. SectorSize * (q + 1) = n + SectorSize
  BY <1>1
<1>5. QED
  BY <1>3, <1>4 DEF Sectors

-----------------------------------------------------------------------------
(* A programmed sector replaces its units of the target, and nothing else. *)
LEMMA ProgrammedSector ==
  ASSUME flash \in [Partitions -> [0..(PartitionSize - 1) -> Units]],
         target_partition \in Partitions,
         NEW sector \in Seq(Units), Len(sector) = SectorSize, NEW offset \in Nat
  PROVE  /\ Programmed(sector, offset) \in [Partitions -> [0..(PartitionSize - 1) -> Units]]
         /\ \A p \in Partitions \ {target_partition} : Programmed(sector, offset)[p] = flash[p]
         /\ \A i \in 0..(PartitionSize - 1) :
              Programmed(sector, offset)[target_partition][i] =
                IF i \in offset..(offset + SectorSize - 1) THEN sector[i - offset + 1]
                                                          ELSE flash[target_partition][i]
<1> USE OtaAssumption DEF OtaAssumption
<1>1. \A i \in 0..(PartitionSize - 1) :
        i \in offset..(offset + SectorSize - 1) => sector[i - offset + 1] \in Units
  OBVIOUS
<1>2. QED
  BY <1>1 DEF Programmed

(* A partial sector is padded to a whole one. *)
LEMMA PaddedSector ==
  ASSUME NEW s \in Seq(Units), Len(s) < SectorSize
  PROVE  /\ Padded(s) \in Seq(Units) /\ Len(Padded(s)) = SectorSize
         /\ \A i \in 1..SectorSize : Padded(s)[i] = IF i <= Len(s) THEN s[i] ELSE Pad
<1> USE OtaAssumption DEF OtaAssumption
<1> DEFINE pads == [i \in 1..(SectorSize - Len(s)) |-> Pad]
<1>1. pads \in Seq(Units) /\ Len(pads) = SectorSize - Len(s)
  BY DEF Units
<1>2. \A i \in 1..Len(pads) : pads[i] = Pad
  BY <1>1
<1> HIDE DEF pads
<1>3. QED
  BY <1>1, <1>2 DEF Padded, pads

(* A pbuf goes on where the bytes received so far end. *)
LEMMA ReceivedUnits ==
  ASSUME NEW c \in Connections, NEW k \in Nat, TypesOK, uploads > 0,
         left[c] = expected_len - bytes_received, bytes_received + k <= expected_len
  PROVE  /\ Received(c, k) \in Seq(Units) /\ Len(Received(c, k)) = k
         /\ \A i \in 1..k : Received(c, k)[i] = <<uploads, bytes_received + i - 1>>
<1> USE OtaAssumption DEF OtaAssumption, TypesOK
<1>1. \A i \in 1..k : expected_len - left[c] + i - 1 = bytes_received + i - 1
  OBVIOUS
<1>2. \A i \in 1..k : <<uploads, bytes_received + i - 1>> \in Units
  BY DEF Units
<1>3. \A i \in 1..k : Received(c, k)[i] = <<uploads, bytes_received + i - 1>>
  BY <1>1 DEF Received
<1>4. QED
  BY <1>2, <1>3 DEF Received

-----------------------------------------------------------------------------
(* The parts of TypesOK, by what the provers need for them *)
FlashOK == flash \in [Partitions -> [0..(PartitionSize - 1) -> Units]]

RecordsOK ==
  /\ preferred \in Partitions /\ running \in Partitions /\ target_partition \in Partitions
  /\ {stored, ota} \subseteq [pending : BOOLEAN, target : Partitions,
                              result : {"NONE", "CONFIRMED", "ROLLED_BACK"}]
  /\ power \in {"boot", "on"} /\ running_partition \in {-1, running}
  /\ daemon \in {"idle", "buy", "record"} /\ tcpip \in {"idle", "finish", "save", "timer"}

FlagsOK ==
  /\ tentative \in BOOLEAN /\ rollback_fault \in BOOLEAN /\ confirm_timer \in BOOLEAN
  /\ network_currently_ready \in BOOLEAN /\ download_active \in BOOLEAN
  /\ reboot_timer \in BOOLEAN /\ fell_back \in BOOLEAN
  /\ hurried \in BOOLEAN /\ glitches \in BOOLEAN

CountsOK ==
  /\ elapsed \in 0..MaxWait /\ ready_since \in 0..elapsed /\ good_polls \in 0..elapsed
  /\ expected_len \in 0..PartitionSize /\ bytes_received \in 0..PartitionSize
  /\ next_write_offset \in 0..PartitionSize
  /\ left \in [Connections -> 0..PartitionSize] /\ uploads \in 0..MaxUploads

LEMMA TypesParts == TypesOK <=> FlashOK /\ RecordsOK /\ FlagsOK /\ CountsOK
<1>1. RecordsOK <=>
        /\ {preferred, running, target_partition} \subseteq Partitions
        /\ {stored, ota} \subseteq [pending : BOOLEAN, target : Partitions,
                                    result : {"NONE", "CONFIRMED", "ROLLED_BACK"}]
        /\ power \in {"boot", "on"} /\ running_partition \in {-1, running}
        /\ daemon \in {"idle", "buy", "record"} /\ tcpip \in {"idle", "finish", "save", "timer"}
  BY Zenon DEF RecordsOK
<1>2. FlagsOK <=>
        {tentative, rollback_fault, confirm_timer, network_currently_ready, download_active,
         reboot_timer, fell_back, hurried, glitches} \subseteq BOOLEAN
  BY Zenon DEF FlagsOK
<1>3. CountsOK <=>
        /\ elapsed \in 0..MaxWait /\ ready_since \in 0..elapsed /\ good_polls \in 0..elapsed
        /\ {expected_len, bytes_received, next_write_offset} \subseteq 0..PartitionSize
        /\ left \in [Connections -> 0..PartitionSize] /\ uploads \in 0..MaxUploads
  BY Zenon DEF CountsOK
<1>4. QED
  BY <1>1, <1>2, <1>3, Zenon DEF TypesOK, FlashOK

(* A received pbuf is staged, and a sector it fills is programmed: staging *)
(* and flash go on holding the bytes received so far (_ota_ingest_bytes).  *)
LEMMA Ingested ==
  ASSUME TypesOK, StreamOK, NEW c \in Connections, NEW k \in Chunks, Receive(c, k)
  PROVE  /\ FlashOK' /\ \A p \in Partitions \ {target_partition} : flash'[p] = flash[p]
         /\ staging' \in Seq(Units) /\ Len(staging') < SectorSize
         /\ bytes_received' = bytes_received + k
         /\ bytes_received' = next_write_offset' + Len(staging')
         /\ next_write_offset' \in 0..PartitionSize /\ next_write_offset' % SectorSize = 0
         /\ \A i \in 1..Len(staging') : staging'[i] = <<uploads, next_write_offset' + i - 1>>
         /\ \A i \in 0..(next_write_offset' - 1) : flash'[target_partition][i] = <<uploads, i>>
<1> USE OtaAssumption DEF OtaAssumption
<1> DEFINE new == Received(c, k)
           all == staging \o new
<1>1. /\ k \in 1..SectorSize /\ k <= left[c] /\ download_active
      /\ bytes_received + k <= expected_len /\ Ingest(c, k)
  BY DEF Receive
<1>2. /\ staging \in Seq(Units) /\ Len(staging) < SectorSize /\ uploads > 0
      /\ bytes_received = next_write_offset + Len(staging)
      /\ next_write_offset % SectorSize = 0
      /\ \A i \in 1..Len(staging) : staging[i] = <<uploads, next_write_offset + i - 1>>
      /\ \A i \in 0..(next_write_offset - 1) : flash[target_partition][i] = <<uploads, i>>
  BY <1>1 DEF StreamOK
<1>3. left[c] = expected_len - bytes_received
  BY <1>1 DEF StreamOK, TypesOK
<1>4. /\ FlashOK /\ target_partition \in Partitions
      /\ next_write_offset \in 0..PartitionSize /\ bytes_received \in 0..PartitionSize
      /\ expected_len \in 0..PartitionSize
  BY DEF TypesOK, FlashOK
<1>5. /\ new \in Seq(Units) /\ Len(new) = k
      /\ \A i \in 1..k : new[i] = <<uploads, bytes_received + i - 1>>
  BY <1>1, <1>2, <1>3, ReceivedUnits
<1>6. all \in Seq(Units) /\ Len(all) = Len(staging) + k
  BY <1>2, <1>5
<1>7. ASSUME NEW i \in 1..Len(all)
      PROVE  all[i] = <<uploads, next_write_offset + i - 1>>
  <2>1. CASE i <= Len(staging)
    BY <2>1, <1>2, <1>5
  <2>2. CASE i > Len(staging)
    <3>1. all[i] = new[i - Len(staging)] /\ i - Len(staging) \in 1..k
      BY <2>2, <1>2, <1>5, <1>6
    <3>2. bytes_received + (i - Len(staging)) - 1 = next_write_offset + i - 1
      BY <1>2, <1>4
    <3>3. QED
      BY <3>1, <3>2, <1>5
  <2>3. QED
    BY <2>1, <2>2, <1>2
<1> HIDE DEF all, new
<1>8. /\ bytes_received' = bytes_received + k
      /\ flash' = IF Len(all) >= SectorSize
                    THEN Programmed(SubSeq(all, 1, SectorSize), next_write_offset) ELSE flash
      /\ staging' = IF Len(all) >= SectorSize THEN SubSeq(all, SectorSize + 1, Len(all)) ELSE all
      /\ next_write_offset' = next_write_offset + (IF Len(all) >= SectorSize THEN SectorSize ELSE 0)
  BY <1>1 DEF Ingest, all, new
<1>9. CASE Len(all) < SectorSize
  <2>1. /\ flash' = flash /\ staging' = all /\ next_write_offset' = next_write_offset
    BY <1>9, <1>8, <1>6, <1>4, <1>2, <1>1
  <2>2. FlashOK'
    BY <2>1, <1>4 DEF FlashOK
  <2>3. /\ staging' \in Seq(Units) /\ Len(staging') < SectorSize
        /\ bytes_received' = next_write_offset' + Len(staging')
    BY <2>1, <1>1, <1>2, <1>4, <1>6, <1>8, <1>9
  <2>4. \A i \in 1..Len(staging') : staging'[i] = <<uploads, next_write_offset' + i - 1>>
    BY <2>1, <1>7
  <2>5. \A i \in 0..(next_write_offset' - 1) : flash'[target_partition][i] = <<uploads, i>>
    BY <2>1, <1>2
  <2>6. next_write_offset' \in 0..PartitionSize /\ next_write_offset' % SectorSize = 0
    BY <2>1, <1>2, <1>4
  <2>7. \A p \in Partitions \ {target_partition} : flash'[p] = flash[p]
    BY <2>1
  <2>8. QED
    BY <2>2, <2>3, <2>4, <2>5, <2>6, <2>7, <1>8
<1>10. CASE Len(all) >= SectorSize
  <2> DEFINE sector == SubSeq(all, 1, SectorSize)
             rest == SubSeq(all, SectorSize + 1, Len(all))
  <2>1. /\ flash' = Programmed(sector, next_write_offset) /\ staging' = rest
        /\ next_write_offset' = next_write_offset + SectorSize
    BY <1>10, <1>8
  <2>2. /\ sector \in Seq(Units) /\ Len(sector) = SectorSize
        /\ \A i \in 1..SectorSize : sector[i] = all[i]
    BY <1>6, <1>10
  <2>3. /\ rest \in Seq(Units) /\ Len(rest) = Len(all) - SectorSize
        /\ \A i \in 1..Len(rest) : rest[i] = all[SectorSize + i]
    BY <1>6, <1>10
  <2> HIDE DEF sector, rest
  <2>4. /\ FlashOK' /\ \A p \in Partitions \ {target_partition} : flash'[p] = flash[p]
        /\ \A i \in 0..(PartitionSize - 1) :
             flash'[target_partition][i] =
               IF i \in next_write_offset..(next_write_offset + SectorSize - 1)
                 THEN sector[i - next_write_offset + 1] ELSE flash[target_partition][i]
    BY <2>1, <2>2, <1>4, ProgrammedSector DEF FlashOK
  <2>5. next_write_offset' <= PartitionSize /\ next_write_offset' % SectorSize = 0
    BY <2>1, <1>1, <1>2, <1>4, <1>6, <1>10, NextSector
  <2>6. ASSUME NEW i \in 1..Len(rest)
        PROVE  rest[i] = <<uploads, next_write_offset' + i - 1>>
    <3>1. SectorSize + i \in 1..Len(all)
      BY <2>3, <1>6, <1>2, <1>1
    <3>2. rest[i] = <<uploads, next_write_offset + (SectorSize + i) - 1>>
      BY <3>1, <2>3, <1>7
    <3>3. next_write_offset + (SectorSize + i) - 1 = next_write_offset' + i - 1
      BY <2>1, <1>4
    <3>4. QED
      BY <3>2, <3>3
  <2>7. ASSUME NEW i \in 0..(next_write_offset' - 1)
        PROVE  flash'[target_partition][i] = <<uploads, i>>
    <3>1. i \in 0..(PartitionSize - 1)
      BY <2>5, <2>1, <1>4
    <3>2. CASE i < next_write_offset
      BY <3>1, <3>2, <2>4, <1>2, <1>4
    <3>3. CASE i >= next_write_offset
      <4>1. i - next_write_offset + 1 \in 1..SectorSize
        BY <3>3, <2>1, <1>4
      <4>2. flash'[target_partition][i] = all[i - next_write_offset + 1]
        BY <4>1, <3>1, <3>3, <2>1, <2>2, <2>4, <1>4
      <4>3. i - next_write_offset + 1 \in 1..Len(all)
        BY <4>1, <1>10, <1>6, <1>2, <1>1
      <4>4. next_write_offset + (i - next_write_offset + 1) - 1 = i
        BY <1>4
      <4>5. QED
        BY <4>2, <4>3, <4>4, <1>7
    <3>4. QED
      BY <3>2, <3>3, <1>4
  <2>8. /\ Len(rest) < SectorSize
        /\ bytes_received' = next_write_offset' + Len(rest)
    BY <2>1, <2>3, <1>1, <1>2, <1>4, <1>6, <1>8
  <2>9. next_write_offset' \in 0..PartitionSize
    BY <2>1, <2>5, <1>4
  <2>10. \A i \in 1..Len(staging') : staging'[i] = <<uploads, next_write_offset' + i - 1>>
    BY <2>1, <2>6
  <2>11. staging' \in Seq(Units)
    BY <2>1, <2>3
  <2>12. Len(staging') < SectorSize /\ bytes_received' = next_write_offset' + Len(staging')
    BY <2>1, <2>8
  <2>13. QED
    BY <2>4, <2>5, <2>7, <2>9, <2>10, <2>11, <2>12, <1>8
<1>11. Len(all) < SectorSize \/ Len(all) >= SectorSize
  BY <1>6, <1>2, <1>1
<1>12. QED
  BY <1>9, <1>10, <1>11, Zenon

(* When the last sector is programmed the target holds the whole image and *)
(* its padding (httpd_post_finished).                                      *)
LEMMA Flushed ==
  ASSUME TypesOK, StreamOK, UploadOK, FinishFlush
  PROVE  /\ FlashOK' /\ \A p \in Partitions \ {target_partition} : flash'[p] = flash[p]
         /\ tcpip' = "save" => ImageStored'
<1> USE OtaAssumption DEF OtaAssumption
<1>1. /\ staging \in Seq(Units) /\ Len(staging) < SectorSize
      /\ expected_len = next_write_offset + Len(staging)
      /\ next_write_offset % SectorSize = 0
      /\ \A i \in 1..Len(staging) : staging[i] = <<uploads, next_write_offset + i - 1>>
      /\ \A i \in 0..(next_write_offset - 1) : flash[target_partition][i] = <<uploads, i>>
  BY DEF StreamOK, UploadOK, FinishFlush
<1>2. /\ FlashOK /\ target_partition \in Partitions
      /\ next_write_offset \in 0..PartitionSize /\ expected_len \in 0..PartitionSize
  BY DEF TypesOK, FlashOK
<1>3. UNCHANGED <<target_partition, expected_len, uploads>>
  BY DEF FinishFlush
<1>4. CASE flash' = flash /\ (tcpip' = "save" => staging = <<>>)
  <2>1. FlashOK'
    BY <1>2, <1>4 DEF FlashOK
  <2>2. ASSUME tcpip' = "save" PROVE ImageStored'
    <3>1. staging = <<>> /\ expected_len = next_write_offset
      BY <2>2, <1>1, <1>2, <1>4
    <3>2. Sectors(expected_len)' = expected_len
      BY <3>1, <1>1, <1>2, <1>3, SectorsWhole DEF Sectors
    <3>3. QED
      <4>1. ASSUME NEW i \in 0..(Sectors(expected_len)' - 1)
            PROVE  flash'[target_partition'][i] = ImageUnit(i)'
        <5>1. i \in 0..(next_write_offset - 1) /\ i < expected_len
          BY <3>1, <3>2, <1>2
        <5>2. flash'[target_partition'][i] = <<uploads, i>>
          BY <5>1, <1>1, <1>3, <1>4
        <5>3. QED
          BY <5>1, <5>2, <1>3 DEF ImageUnit
      <4>2. QED
        BY <4>1 DEF ImageStored
  <2>3. QED
    BY <2>1, <2>2, <1>4
<1>5. CASE staging # <<>> /\ flash' = Programmed(Padded(staging), next_write_offset)
  <2> DEFINE sector == Padded(staging)
             n == Len(staging)
  <2>1. n \in 1..(SectorSize - 1)
    BY <1>1, <1>5
  <2>2. /\ sector \in Seq(Units) /\ Len(sector) = SectorSize
        /\ \A i \in 1..SectorSize : sector[i] = IF i <= n THEN staging[i] ELSE Pad
    BY <1>1, PaddedSector
  <2> HIDE DEF sector
  <2>3. /\ FlashOK' /\ \A p \in Partitions \ {target_partition} : flash'[p] = flash[p]
        /\ \A i \in 0..(PartitionSize - 1) :
             flash'[target_partition][i] =
               IF i \in next_write_offset..(next_write_offset + SectorSize - 1)
                 THEN sector[i - next_write_offset + 1] ELSE flash[target_partition][i]
    <3>1. flash' = Programmed(sector, next_write_offset)
      BY <1>5 DEF sector
    <3>2. QED
      BY <3>1, <2>2, <1>2, ProgrammedSector DEF FlashOK
  <2>4. next_write_offset + SectorSize <= PartitionSize
    BY <2>1, <1>1, <1>2, SectorFits
  <2>5. Sectors(expected_len)' = next_write_offset + SectorSize
    <3>1. next_write_offset \in Nat
      BY <1>2
    <3>2. Sectors(next_write_offset + n) = next_write_offset + SectorSize
      BY <3>1, <2>1, <1>1, SectorsPartial, Zenon
    <3>3. QED
      BY <3>2, <1>1, <1>3 DEF Sectors
  <2>6. ASSUME NEW i \in 0..(Sectors(expected_len)' - 1)
        PROVE  flash'[target_partition][i] = ImageUnit(i)'
    <3>1. i \in 0..(PartitionSize - 1) /\ i < next_write_offset + SectorSize
      BY <2>4, <2>5, <1>2
    <3>2. CASE i < next_write_offset
      <4>1. i < expected_len
        BY <3>1, <3>2, <2>1, <1>1, <1>2
      <4>2. flash'[target_partition][i] = <<uploads, i>>
        BY <3>1, <3>2, <2>3, <1>1, <1>2
      <4>3. QED
        BY <4>1, <4>2, <1>3 DEF ImageUnit
    <3>3. CASE i >= next_write_offset
      <4>1. i - next_write_offset + 1 \in 1..SectorSize
        BY <3>1, <3>3, <1>2
      <4>2. flash'[target_partition][i] =
              IF i - next_write_offset + 1 <= n THEN staging[i - next_write_offset + 1] ELSE Pad
        BY <4>1, <3>1, <3>3, <2>2, <2>3, <1>2
      <4>3. CASE i - next_write_offset + 1 <= n
        <5>1. i - next_write_offset + 1 \in 1..Len(staging) /\ i < expected_len
          BY <4>1, <4>3, <2>1, <1>1, <1>2
        <5>2. next_write_offset + (i - next_write_offset + 1) - 1 = i
          BY <1>2
        <5>3. staging[i - next_write_offset + 1] = <<uploads, i>>
          BY <5>1, <5>2, <1>1
        <5>4. QED
          BY <5>1, <5>3, <4>2, <4>3, <1>3 DEF ImageUnit
      <4>4. CASE ~(i - next_write_offset + 1 <= n)
        <5>1. ~(i < expected_len)
          BY <4>1, <4>4, <2>1, <1>1, <1>2
        <5>2. QED
          BY <5>1, <4>2, <4>4, <1>3 DEF ImageUnit
      <4>5. QED
        BY <4>3, <4>4
    <3>4. QED
      BY <3>1, <3>2, <3>3, <1>2
  <2>7. ImageStored'
    BY <2>6, <1>3 DEF ImageStored
  <2>8. QED
    BY <2>3, <2>7
<1>6. QED
  BY <1>4, <1>5 DEF FinishFlush

-----------------------------------------------------------------------------
(* A step writes a partition that exists, and never the running one. *)
LEMMA FlashStep ==
  ASSUME TypesOK, StreamOK, UploadOK, [Next]_vars
  PROVE  FlashOK' /\ flash'[running] = flash[running]
<1>1. FlashOK /\ running \in Partitions
  BY DEF TypesOK, FlashOK
<1>2. ASSUME NEW c \in Connections, NEW k \in Chunks, Receive(c, k)
      PROVE  FlashOK' /\ flash'[running] = flash[running]
  <2>1. target_partition # running
    BY <1>2 DEF Receive, UploadOK, Uploading
  <2>2. QED
    BY <2>1, <1>1, <1>2, Ingested
<1>3. CASE FinishFlush
  <2>1. target_partition # running
    BY <1>3 DEF FinishFlush, UploadOK, Uploading
  <2>2. QED
    BY <2>1, <1>1, <1>3, Flushed
<1>4. ASSUME UNCHANGED flash PROVE FlashOK' /\ flash'[running] = flash[running]
  BY <1>1, <1>4 DEF FlashOK
<1>5. ASSUME NEW c \in Connections, NEW len \in 1..PartitionSize, PostBegin(c, len)
      PROVE  UNCHANGED flash
  BY <1>5 DEF PostBegin, permanent
<1>6. ASSUME NEW c \in Connections, NEW k \in Chunks, ReceiveFails(c, k)
      PROVE  UNCHANGED flash
  BY <1>6 DEF ReceiveFails, permanent
<1>7. ASSUME NEW c \in Connections, CloseConnection(c) \/ ConnectionError(c)
      PROVE  UNCHANGED flash
  BY <1>7 DEF CloseConnection, ConnectionError, permanent
<1>8. ASSUME FinishSave \/ FinishTimer PROVE UNCHANGED flash
  BY <1>8 DEF FinishSave, FinishTimer, permanent
<1>9. ASSUME NEW ready \in BOOLEAN, HealthPoll(ready) PROVE UNCHANGED flash
  BY <1>9 DEF HealthPoll, permanent
<1>10. ASSUME Buy \/ Record \/ Acknowledge \/ Boot \/ Reset \/ RebootRefused
       PROVE  UNCHANGED flash
  BY <1>10 DEF Buy, Record, Acknowledge, Boot, Reset, RebootRefused, permanent
<1>11. ASSUME NEW starts \in BOOLEAN, RebootTimer(starts) PROVE UNCHANGED flash
  BY <1>11 DEF RebootTimer, permanent
<1>12. ASSUME UNCHANGED vars PROVE UNCHANGED flash
  BY <1>12 DEF vars, permanent
<1>13. QED
  BY <1>2, <1>3, <1>4, <1>5, <1>6, <1>7, <1>8, <1>9, <1>10, <1>11, <1>12
     DEF Next, Client, Finish, Confirm

(* Partitions, EEPROM records and the places the callbacks have come to *)
LEMMA RecordsStep ==
  ASSUME RecordsOK, FlagsOK, [Next]_vars
  PROVE  RecordsOK'
<1> USE DEF RecordsOK, Partitions, permanent, boot, upload, NoUpdate
<1>1. ASSUME NEW c \in Connections, NEW len \in 1..PartitionSize, PostBegin(c, len)
      PROVE  RecordsOK'
  BY <1>1 DEF PostBegin, Other
<1>2. ASSUME NEW c \in Connections, NEW k \in Chunks, Receive(c, k) \/ ReceiveFails(c, k)
      PROVE  RecordsOK'
  BY <1>2 DEF Receive, ReceiveFails, PostFailed
<1>3. ASSUME NEW c \in Connections, CloseConnection(c) \/ ConnectionError(c)
      PROVE  RecordsOK'
  BY <1>3 DEF CloseConnection, ConnectionError, PostFailed
<1>4. CASE FinishFlush \/ FinishTimer
  BY <1>4 DEF FinishFlush, FinishTimer
<1>5. CASE FinishSave
  BY <1>5 DEF FinishSave, Saved
<1>6. ASSUME NEW ready \in BOOLEAN, HealthPoll(ready)
      PROVE  RecordsOK'
  BY <1>6 DEF HealthPoll
<1>7. CASE Buy \/ Acknowledge \/ RebootRefused
  BY <1>7 DEF Buy, Acknowledge, RebootRefused
<1>8. CASE Record
  BY <1>8 DEF Record, Saved
<1>9. CASE Boot
  <2> DEFINE Records == [pending : BOOLEAN, target : Partitions,
                         result : {"NONE", "CONFIRMED", "ROLLED_BACK"}]
  <2>1. stored \in Records /\ NoUpdate \in Records
        /\ [stored EXCEPT !.pending = FALSE, !.result = "ROLLED_BACK"] \in Records
    OBVIOUS
  <2>2. ota' \in Records /\ stored' \in Records
    <3>1. Loaded \/ NotLoaded \/ BootRolledBack
      BY <1>9 DEF Boot, BootQuiet, BootCandidate
    <3> HIDE DEF Records, NoUpdate
    <3>2. QED
      BY <3>1, <2>1 DEF Loaded, NotLoaded, BootRolledBack, Saved
  <2>3. /\ UNCHANGED <<preferred, running, target_partition, daemon, tcpip>> /\ power' = "on"
        /\ running_partition' \in {-1, running}
    BY <1>9 DEF Boot
  <2>4. QED
    BY <2>2, <2>3
<1>10. CASE Reset
  BY <1>10 DEF Reset, RamLost
<1>11. ASSUME NEW starts \in BOOLEAN, RebootTimer(starts)
       PROVE  RecordsOK'
  BY <1>11 DEF RebootTimer, RamLost
<1>12. CASE UNCHANGED vars
  BY <1>12 DEF vars
<1> HIDE DEF RecordsOK
<1>13. QED
  BY <1>1, <1>2, <1>3, <1>4, <1>5, <1>6, <1>7, <1>8, <1>9, <1>10, <1>11, <1>12
     DEF Next, Client, Finish, Confirm

(* Flags are flags. *)
LEMMA FlagsStep ==
  ASSUME FlagsOK, [Next]_vars
  PROVE  FlagsOK'
<1> USE DEF FlagsOK, permanent, boot, health, upload, fixed
<1>1. ASSUME NEW c \in Connections, NEW len \in 1..PartitionSize, PostBegin(c, len)
      PROVE  FlagsOK'
  BY <1>1, Zenon DEF PostBegin
<1>2. ASSUME NEW c \in Connections, NEW k \in Chunks, Receive(c, k)
      PROVE  FlagsOK'
  BY <1>2, Zenon DEF Receive
<1>3. ASSUME NEW c \in Connections, NEW k \in Chunks, ReceiveFails(c, k)
      PROVE  FlagsOK'
  BY <1>3, Zenon DEF ReceiveFails, PostFailed
<1>4. ASSUME NEW c \in Connections, CloseConnection(c)
      PROVE  FlagsOK'
  BY <1>4, Zenon DEF CloseConnection, PostFailed
<1>5. ASSUME NEW c \in Connections, ConnectionError(c)
      PROVE  FlagsOK'
  BY <1>5, Zenon DEF ConnectionError
<1>6. CASE FinishFlush
  BY <1>6, Zenon DEF FinishFlush
<1>7. CASE FinishSave
  BY <1>7, Zenon DEF FinishSave
<1>8. CASE FinishTimer
  BY <1>8, Zenon DEF FinishTimer
<1>9. ASSUME NEW ready \in BOOLEAN, HealthPoll(ready)
      PROVE  FlagsOK'
  BY <1>9, Zenon DEF HealthPoll
<1>10. CASE Buy
  BY <1>10, Zenon DEF Buy
<1>11. CASE Record
  BY <1>11, Zenon DEF Record
<1>12. CASE Acknowledge
  BY <1>12, Zenon DEF Acknowledge
<1>13. CASE Boot
  BY <1>13, Zenon DEF Boot, BootQuiet, BootCandidate, BootRolledBack
<1>14. CASE Reset
  BY <1>14, Zenon DEF Reset, RamLost
<1>15. ASSUME NEW starts \in BOOLEAN, RebootTimer(starts)
       PROVE  FlagsOK'
  BY <1>15, Zenon DEF RebootTimer, RamLost
<1>16. CASE RebootRefused
  BY <1>16, Zenon DEF RebootRefused
<1>17. CASE UNCHANGED vars
  BY <1>17, Zenon DEF vars
<1> HIDE DEF FlagsOK
<1>18. QED
  BY <1>1, <1>2, <1>3, <1>4, <1>5, <1>6, <1>7, <1>8, <1>9, <1>10, <1>11, <1>12,
     <1>13, <1>14, <1>15, <1>16, <1>17 DEF Next, Client, Finish, Confirm

(* Counters and lengths stay in their ranges: the health timer stops in    *)
(* time, and an upload that fits its partition is written into it.         *)
LEMMA CountsStep ==
  ASSUME TypesOK, StreamOK, HealthOK, [Next]_vars
  PROVE  CountsOK'
<1> CountsOK
  BY TypesParts
<1> USE OtaAssumption DEF OtaAssumption, CountsOK, permanent, boot, health, upload
<1>1. ASSUME NEW c \in Connections, NEW len \in 1..PartitionSize, PostBegin(c, len)
      PROVE  CountsOK'
  BY <1>1 DEF PostBegin
<1>2. ASSUME NEW c \in Connections, NEW k \in Chunks, Receive(c, k)
      PROVE  CountsOK'
  <2> HIDE DEF CountsOK
  <2>1. /\ bytes_received' = bytes_received + k
        /\ bytes_received' = next_write_offset' + Len(staging')
        /\ next_write_offset' \in 0..PartitionSize /\ staging' \in Seq(Units)
    BY <1>2, Ingested
  <2>2. /\ left' = [left EXCEPT ![c] = @ - k] /\ k <= left[c] /\ k \in Nat
        /\ bytes_received + k <= expected_len
        /\ UNCHANGED <<elapsed, ready_since, good_polls, expected_len, uploads>>
    BY <1>2 DEF Receive
  <2>3. QED
    BY <2>1, <2>2 DEF CountsOK
<1>3. ASSUME NEW c \in Connections, NEW k \in Chunks, ReceiveFails(c, k)
      PROVE  CountsOK'
  BY <1>3 DEF ReceiveFails, PostFailed
<1>4. ASSUME NEW c \in Connections, CloseConnection(c) \/ ConnectionError(c)
      PROVE  CountsOK'
  BY <1>4 DEF CloseConnection, ConnectionError, PostFailed
<1>5. CASE FinishFlush \/ FinishSave \/ FinishTimer
  BY <1>5 DEF FinishFlush, FinishSave, FinishTimer
<1>6. ASSUME NEW ready \in BOOLEAN, HealthPoll(ready)
      PROVE  CountsOK'
  BY <1>6 DEF HealthPoll, HealthOK
<1>7. CASE Buy \/ Record \/ Acknowledge \/ RebootRefused
  BY <1>7 DEF Buy, Record, Acknowledge, RebootRefused
<1>8. CASE Boot
  BY <1>8 DEF Boot
<1>9. CASE Reset
  BY <1>9 DEF Reset, RamLost
<1>10. ASSUME NEW starts \in BOOLEAN, RebootTimer(starts)
       PROVE  CountsOK'
  BY <1>10 DEF RebootTimer, RamLost
<1>11. CASE UNCHANGED vars
  BY <1>11 DEF vars
<1> HIDE DEF CountsOK
<1>12. QED
  BY <1>1, <1>2, <1>3, <1>4, <1>5, <1>6, <1>7, <1>8, <1>9, <1>10, <1>11
     DEF Next, Client, Finish, Confirm

LEMMA TypesStep ==
  ASSUME TypesOK, StreamOK, HealthOK, UploadOK, [Next]_vars
  PROVE  TypesOK'
<1>1. FlashOK' /\ RecordsOK' /\ FlagsOK' /\ CountsOK'
  BY TypesParts, FlashStep, RecordsStep, FlagsStep, CountsStep
<1>2. QED
  BY <1>1, TypesParts, PTL

(* Staging and flash hold the bytes received so far, and the connection    *)
(* that sends them still has the rest.                                     *)
LEMMA StreamStep ==
  ASSUME TypesOK, StreamOK, UploadOK, [Next]_vars
  PROVE  StreamOK'
<1> USE OtaAssumption DEF OtaAssumption, permanent, boot, health, upload
<1> /\ left \in [Connections -> 0..PartitionSize] /\ expected_len \in 0..PartitionSize
    /\ bytes_received \in 0..PartitionSize /\ uploads \in Nat
  BY DEF TypesOK
<1>1. ASSUME NEW c \in Connections, NEW len \in 1..PartitionSize, PostBegin(c, len)
      PROVE  StreamOK'
  <2>1. \A d \in Connections : left[d] = 0
    BY <1>1 DEF PostBegin, StreamOK
  <2>2. /\ staging' = <<>> /\ next_write_offset' = 0 /\ bytes_received' = 0
        /\ expected_len' = len /\ uploads' = uploads + 1 /\ download_active'
        /\ left' = [left EXCEPT ![c] = len]
    BY <1>1 DEF PostBegin
  <2>3. staging' \in Seq(Units) /\ Len(staging') = 0
    BY <2>2
  <2>4. 0 % SectorSize = 0
    BY DivModUnique
  <2>5. QED
    BY <2>1, <2>2, <2>3, <2>4 DEF StreamOK
<1>2. ASSUME NEW c \in Connections, NEW k \in Chunks, Receive(c, k)
      PROVE  StreamOK'
  <2>1. /\ k \in 1..SectorSize /\ k <= left[c] /\ download_active
        /\ bytes_received + k <= expected_len
        /\ left' = [left EXCEPT ![c] = @ - k]
        /\ UNCHANGED <<download_active, target_partition, expected_len, uploads>>
    BY <1>2 DEF Receive
  <2>2. /\ uploads > 0 /\ left[c] = expected_len - bytes_received
        /\ \A d \in Connections \ {c} : left[d] = 0
    BY <2>1 DEF StreamOK
  <2>3. /\ staging' \in Seq(Units) /\ Len(staging') < SectorSize
        /\ bytes_received' = bytes_received + k
        /\ bytes_received' = next_write_offset' + Len(staging')
        /\ next_write_offset' % SectorSize = 0
        /\ \A i \in 1..Len(staging') : staging'[i] = <<uploads, next_write_offset' + i - 1>>
        /\ \A i \in 0..(next_write_offset' - 1) : flash'[target_partition][i] = <<uploads, i>>
    BY <1>2, Ingested
  <2>4. \A d \in Connections : left'[d] > 0 =>
          /\ left'[d] = expected_len' - bytes_received'
          /\ \A e \in Connections \ {d} : left'[e] = 0
    BY <2>1, <2>2, <2>3
  <2>5. QED
    BY <2>1, <2>2, <2>3, <2>4, Zenon DEF StreamOK
<1>3. ASSUME NEW c \in Connections, NEW k \in Chunks, ReceiveFails(c, k)
      PROVE  StreamOK'
  BY <1>3 DEF ReceiveFails, PostFailed, StreamOK
<1>4. ASSUME NEW c \in Connections, CloseConnection(c)
      PROVE  StreamOK'
  BY <1>4 DEF CloseConnection, PostFailed, StreamOK
<1>5. ASSUME NEW c \in Connections, ConnectionError(c)
      PROVE  StreamOK'
  BY <1>5 DEF ConnectionError, StreamOK
<1>6. CASE FinishFlush
  BY <1>6 DEF FinishFlush, StreamOK, UploadOK
<1>7. ASSUME UNCHANGED <<flash, upload>> PROVE StreamOK'
  BY <1>7 DEF StreamOK
<1>8. CASE FinishSave \/ FinishTimer
  BY <1>7, <1>8 DEF FinishSave, FinishTimer
<1>9. ASSUME NEW ready \in BOOLEAN, HealthPoll(ready)
      PROVE  StreamOK'
  BY <1>7, <1>9 DEF HealthPoll
<1>10. CASE Buy \/ Record \/ Acknowledge \/ RebootRefused
  BY <1>7, <1>10 DEF Buy, Record, Acknowledge, RebootRefused
<1>11. CASE Boot
  BY <1>7, <1>11 DEF Boot
<1>12. ASSUME RamLost PROVE StreamOK'
  BY <1>12 DEF RamLost, StreamOK
<1>13. CASE Reset
  BY <1>12, <1>13 DEF Reset
<1>14. ASSUME NEW starts \in BOOLEAN, RebootTimer(starts)
       PROVE  StreamOK'
  BY <1>12, <1>14 DEF RebootTimer
<1>15. CASE UNCHANGED vars
  BY <1>7, <1>15 DEF vars
<1>16. QED
  BY <1>1, <1>2, <1>3, <1>4, <1>5, <1>6, <1>8, <1>9, <1>10, <1>11, <1>13, <1>14, <1>15
     DEF Next, Client, Finish, Confirm

(* The health timer's memory is the polls since the network came up. *)
LEMMA HealthStep ==
  ASSUME TypesOK, HealthOK, BootOK, [Next]_vars
  PROVE  HealthOK'
<1> USE OtaAssumption DEF OtaAssumption, permanent, boot, health, upload
<1> FlagsOK /\ CountsOK
  BY TypesParts
<1>1. ASSUME UNCHANGED <<health, daemon>> PROVE HealthOK'
  BY <1>1 DEF HealthOK, ConfirmNeedsHealth
<1>2. ASSUME NEW c \in Connections, Client(c) PROVE HealthOK'
  BY <1>1, <1>2, Zenon
     DEF Client, PostBegin, Receive, ReceiveFails, CloseConnection, ConnectionError
<1>3. CASE Finish \/ Acknowledge \/ RebootRefused
  BY <1>1, <1>3, Zenon DEF Finish, FinishFlush, FinishSave, FinishTimer, Acknowledge, RebootRefused
<1>4. ASSUME NEW ready \in BOOLEAN, HealthPoll(ready)
      PROVE  HealthOK'
  <2> DEFINE stable == network_currently_ready' /\ elapsed' - ready_since' >= MinStable
             timed_out == elapsed' >= MaxWait
  <2>1. /\ confirm_timer /\ daemon = "idle" /\ elapsed' = elapsed + 1
        /\ network_currently_ready' = ready
        /\ ready_since' = IF ready /\ ~network_currently_ready THEN elapsed' ELSE ready_since
        /\ good_polls' = IF ready THEN good_polls + 1 ELSE 0
    BY <1>4 DEF HealthPoll
  <2>2. confirm_timer' = ~(stable \/ timed_out) /\ daemon' = IF confirm_timer' THEN "idle" ELSE "buy"
    BY <1>4, Zenon DEF HealthPoll
  <2>3. elapsed' \in 1..MaxWait
    BY <2>1 DEF HealthOK, CountsOK
  <2>4. CASE ready
    <3>1. network_currently_ready'
      BY <2>1, <2>4
    <3>2. /\ ready_since' \in 1..elapsed' /\ good_polls' = elapsed' - ready_since' + 1
          /\ elapsed' - ready_since' >= MinStable => good_polls' > MinStable
      BY <2>1, <2>4 DEF HealthOK, CountsOK
    <3>3. ~timed_out => elapsed' < MaxWait
      BY <2>3
    <3>4. QED
      BY <2>2, <3>1, <3>2, <3>3, Zenon DEF HealthOK, ConfirmNeedsHealth
  <2>5. CASE ~ready
    <3>1. ~network_currently_ready' /\ good_polls' = 0
      BY <2>1, <2>5
    <3>2. ~timed_out => elapsed' < MaxWait
      BY <2>3
    <3>3. QED
      BY <2>2, <3>1, <3>2, Zenon DEF HealthOK, ConfirmNeedsHealth
  <2>6. QED
    BY <2>4, <2>5
<1>5. CASE Buy \/ Record
  BY <1>5 DEF Buy, Record, HealthOK, ConfirmNeedsHealth
<1>6. CASE Boot
  <2>1. /\ elapsed = 0 /\ ~network_currently_ready /\ daemon = "idle"
        /\ UNCHANGED <<elapsed, ready_since, network_currently_ready, good_polls, daemon>>
    BY <1>6 DEF Boot, BootOK
  <2>2. QED
    BY <2>1 DEF HealthOK, ConfirmNeedsHealth
<1>7. ASSUME RamLost PROVE HealthOK'
  BY <1>7 DEF RamLost, HealthOK, ConfirmNeedsHealth
<1>8. CASE Reset
  BY <1>7, <1>8 DEF Reset
<1>9. ASSUME NEW starts \in BOOLEAN, RebootTimer(starts)
      PROVE  HealthOK'
  BY <1>7, <1>9 DEF RebootTimer
<1>10. CASE UNCHANGED vars
  BY <1>1, <1>10 DEF vars
<1>11. QED
  BY <1>2, <1>3, <1>4, <1>5, <1>6, <1>8, <1>9, <1>10 DEF Next, Confirm

(* Nothing starts before ota_update_init. *)
LEMMA BootStep ==
  ASSUME BootOK, [Next]_vars
  PROVE  BootOK'
<1> USE DEF BootOK, permanent, boot, health, upload, On
<1>1. ASSUME NEW c \in Connections, Client(c) PROVE BootOK'
  BY <1>1 DEF Client, PostBegin, Receive, ReceiveFails, CloseConnection, ConnectionError
<1>2. CASE Finish \/ Confirm \/ Acknowledge \/ RebootRefused
  BY <1>2 DEF Finish, FinishFlush, FinishSave, FinishTimer, Confirm, HealthPoll, Buy, Record,
              Acknowledge, RebootRefused
<1>3. CASE Boot
  BY <1>3 DEF Boot
<1>4. CASE Reset \/ \E starts \in BOOLEAN : RebootTimer(starts)
  BY <1>4 DEF Reset, RebootTimer, RamLost
<1>5. CASE UNCHANGED vars
  BY <1>5 DEF vars
<1>6. QED
  BY <1>1, <1>2, <1>3, <1>4, <1>5 DEF Next

(* The target is not the running partition, and what is stored of an image *)
(* stays until the next upload is accepted.                                *)
LEMMA UploadStep ==
  ASSUME TypesOK, StreamOK, BootOK, UploadOK, [Next]_vars
  PROVE  UploadOK'
<1> USE DEF permanent, boot, health, upload, fixed, On
<1> /\ left \in [Connections -> 0..PartitionSize] /\ expected_len \in 0..PartitionSize
    /\ bytes_received \in 0..PartitionSize /\ running \in Partitions
    /\ running_partition \in {-1, running}
  BY DEF TypesOK
<1>1. ASSUME UNCHANGED <<flash, target_partition, expected_len, uploads>>
      PROVE  ImageStored' <=> ImageStored
  BY <1>1 DEF ImageStored, ImageUnit, Sectors
<1>2. ASSUME NEW c \in Connections, NEW len \in 1..PartitionSize, PostBegin(c, len)
      PROVE  UploadOK'
  <2>1. Other(running_partition) # running
    BY <1>2 DEF PostBegin, Other, Partitions
  <2>2. QED
    BY <2>1, <1>2 DEF PostBegin, UploadOK, Uploading
<1>3. ASSUME NEW c \in Connections, NEW k \in Chunks, Receive(c, k)
      PROVE  UploadOK'
  <2>1. /\ k \in 1..SectorSize /\ k <= left[c] /\ download_active /\ tcpip = "idle"
        /\ left' = [left EXCEPT ![c] = @ - k]
        /\ tcpip' = IF left'[c] = 0 THEN "finish" ELSE "idle"
        /\ UNCHANGED <<download_active, target_partition, expected_len, running, reboot_timer,
                       hurried>>
    BY <1>3, OtaAssumption DEF OtaAssumption, Receive
  <2>2. /\ left[c] = expected_len - bytes_received
        /\ \A d \in Connections \ {c} : left[d] = 0
    BY <2>1, OtaAssumption DEF OtaAssumption, StreamOK
  <2>3. bytes_received' = bytes_received + k
    BY <1>3, Ingested
  <2>4. tcpip' = "finish" =>
          /\ bytes_received' = expected_len' /\ \A d \in Connections : left'[d] = 0
    BY <2>1, <2>2, <2>3, OtaAssumption DEF OtaAssumption
  <2>5. target_partition # running /\ ~(~hurried /\ reboot_timer)
    BY <2>1 DEF UploadOK, Uploading
  <2>6. QED
    BY <2>1, <2>4, <2>5 DEF UploadOK, Uploading
<1>4. ASSUME NEW c \in Connections, \/ \E k \in Chunks : ReceiveFails(c, k)
                                    \/ CloseConnection(c) \/ ConnectionError(c)
      PROVE  UploadOK'
  BY <1>1, <1>4 DEF ReceiveFails, CloseConnection, ConnectionError, PostFailed, UploadOK, Uploading
<1>5. CASE FinishFlush
  <2>1. /\ UNCHANGED <<target_partition, running, left, reboot_timer, hurried>>
        /\ ~download_active' /\ tcpip' \in {"idle", "save"}
        /\ tcpip = "finish" /\ download_active
    BY <1>5 DEF FinishFlush, UploadOK
  <2>2. target_partition # running /\ ~(~hurried /\ reboot_timer)
    BY <2>1 DEF UploadOK, Uploading
  <2>3. \A d \in Connections : left'[d] = 0
    BY <2>1 DEF UploadOK
  <2>4. tcpip' = "save" => ImageStored'
    BY <1>5, Flushed
  <2>5. QED
    BY <2>1, <2>2, <2>3, <2>4 DEF UploadOK, Uploading
<1>6. CASE FinishSave \/ FinishTimer \/ Acknowledge \/ RebootRefused
  BY <1>1, <1>6 DEF FinishSave, FinishTimer, Acknowledge, RebootRefused, UploadOK, Uploading
<1>7. CASE Confirm
  BY <1>1, <1>7 DEF Confirm, HealthPoll, Buy, Record, UploadOK, Uploading
<1>8. CASE Boot
  BY <1>1, <1>8 DEF Boot, BootOK, UploadOK, Uploading
<1>9. ASSUME RamLost PROVE UploadOK'
  BY <1>9 DEF RamLost, UploadOK, Uploading
<1>10. CASE Reset \/ \E starts \in BOOLEAN : RebootTimer(starts)
  BY <1>9, <1>10 DEF Reset, RebootTimer
<1>11. CASE UNCHANGED vars
  BY <1>1, <1>11 DEF vars, UploadOK, Uploading
<1>12. QED
  BY <1>2, <1>3, <1>4, <1>5, <1>6, <1>7, <1>8, <1>10, <1>11 DEF Next, Client, Finish

(* The record in the EEPROM is about the image that is uploaded or tried. *)
LEMMA TrialStep ==
  ASSUME TypesOK, HealthOK, BootOK, UploadOK, TrialOK, [Next]_vars
  PROVE  TrialOK'
<1> USE DEF permanent, boot, health, upload, fixed, On
<1> /\ preferred \in Partitions /\ running \in Partitions
    /\ running_partition \in {-1, running}
    /\ stored \in [pending : BOOLEAN, target : Partitions,
                   result : {"NONE", "CONFIRMED", "ROLLED_BACK"}]
    /\ ota \in [pending : BOOLEAN, target : Partitions,
                result : {"NONE", "CONFIRMED", "ROLLED_BACK"}]
  BY DEF TypesOK
<1>1. ASSUME NEW c \in Connections, NEW len \in 1..PartitionSize, PostBegin(c, len)
      PROVE  TrialOK'
  <2>1. /\ hurried \/ (~reboot_timer /\ ~confirm_timer /\ daemon = "idle" /\ ~tentative)
        /\ tcpip = "idle"
        /\ UNCHANGED <<tentative, running, preferred, hurried, glitches, confirm_timer, daemon,
                       stored, ota, tcpip, reboot_timer, fell_back, power>>
    BY <1>1 DEF PostBegin
  <2>2. QED
    BY <2>1 DEF TrialOK, Uploading
<1>2. ASSUME NEW c \in Connections, NEW k \in Chunks, Receive(c, k)
      PROVE  TrialOK'
  <2>1. /\ download_active /\ tcpip' # "timer" /\ tcpip = "idle"
        /\ UNCHANGED <<tentative, running, preferred, hurried, glitches, confirm_timer, daemon,
                       stored, ota, reboot_timer, fell_back, power, target_partition,
                       download_active>>
    BY <1>2 DEF Receive
  <2>2. QED
    BY <2>1 DEF TrialOK, Uploading
<1>3. ASSUME NEW c \in Connections, \/ \E k \in Chunks : ReceiveFails(c, k)
                                    \/ CloseConnection(c) \/ ConnectionError(c)
      PROVE  TrialOK'
  BY <1>3 DEF ReceiveFails, CloseConnection, ConnectionError, PostFailed, TrialOK, Uploading
<1>4. CASE FinishFlush
  BY <1>4 DEF FinishFlush, TrialOK, Uploading
<1>5. CASE FinishSave
  <2>1. /\ tcpip = "save" /\ tcpip' = "timer"
        /\ ota' = [ota EXCEPT !.pending = TRUE, !.target = target_partition]
        /\ stored' = ota' \/ (glitches /\ stored' = stored)
        /\ UNCHANGED <<tentative, running, preferred, hurried, glitches, confirm_timer, daemon,
                       reboot_timer, fell_back, power, target_partition, download_active>>
    BY <1>5 DEF FinishSave, Saved
  <2>2. ota'.pending /\ ota'.target = target_partition
    BY <2>1
  <2>3. power # "boot"
    BY <2>1 DEF BootOK
  <2>4. QED
    BY <2>1, <2>2, <2>3 DEF TrialOK, Uploading
<1>6. CASE FinishTimer \/ Acknowledge \/ RebootRefused
  BY <1>6 DEF FinishTimer, Acknowledge, RebootRefused, TrialOK, Uploading
<1>7. ASSUME NEW ready \in BOOLEAN, HealthPoll(ready)
      PROVE  TrialOK'
  <2>1. /\ confirm_timer /\ daemon = "idle" /\ daemon' \in {"idle", "buy"}
        /\ UNCHANGED <<tentative, running, preferred, hurried, glitches, stored, ota, tcpip,
                       reboot_timer, fell_back, power, target_partition, download_active>>
    BY <1>7 DEF HealthPoll
  <2>2. QED
    BY <2>1 DEF TrialOK, Uploading
<1>8. CASE Buy
  BY <1>8 DEF Buy, TrialOK, Uploading, HealthOK, BootOK
<1>9. CASE Record
  <2>1. /\ daemon = "record" /\ daemon' = "idle"
        /\ stored' = ota' \/ (glitches /\ stored' = stored)
        /\ UNCHANGED <<tentative, running, preferred, hurried, glitches, confirm_timer, tcpip,
                       reboot_timer, fell_back, power, target_partition, download_active>>
    BY <1>9 DEF Record, Saved
  <2>2. ~confirm_timer /\ power # "boot"
    BY <2>1 DEF HealthOK, BootOK
  <2>3. QED
    BY <2>1, <2>2 DEF TrialOK, Uploading
<1>10. CASE Boot
  <2>1. /\ power = "boot" /\ power' = "on" /\ ~confirm_timer /\ daemon = "idle" /\ ~Uploading
        /\ UNCHANGED <<tentative, running, preferred, hurried, glitches, daemon, tcpip,
                       reboot_timer, target_partition, download_active>>
        /\ running_partition' = running \/ (glitches /\ running_partition' = -1)
    BY <1>10 DEF Boot, BootOK, Uploading
  <2>2. ~Uploading'
    BY <2>1 DEF Uploading
  <2>3. CASE BootQuiet
    BY <2>1, <2>2, <2>3 DEF BootQuiet, Loaded, NotLoaded, NoUpdate, TrialOK, Uploading
  <2>4. CASE BootCandidate
    <3>1. /\ ota' = stored /\ stored' = stored /\ stored.pending
          /\ confirm_timer' /\ fell_back' = fell_back /\ running_partition' = stored.target
      BY <2>4 DEF BootCandidate, Loaded, NoUpdate
    <3>2. stored.target = running
      BY <3>1, <2>1 DEF Partitions
    <3>3. QED
      BY <3>1, <3>2, <2>1, <2>2 DEF TrialOK, Uploading
  <2>5. CASE BootRolledBack
    BY <2>1, <2>2, <2>5 DEF BootRolledBack, Saved, TrialOK, Uploading
  <2>6. QED
    BY <1>10, <2>3, <2>4, <2>5 DEF Boot
<1>11. CASE Reset
  <2>1. /\ ~Uploading' /\ power' = "boot" /\ ~confirm_timer' /\ daemon' = "idle"
        /\ running' = preferred /\ ~tentative' /\ tcpip' = "idle" /\ ~reboot_timer'
        /\ UNCHANGED <<preferred, stored, hurried, glitches>>
    BY <1>11 DEF Reset, RamLost, Uploading
  <2>2. fell_back' => fell_back \/ tentative
    BY <1>11, Zenon DEF Reset
  <2>3. QED
    BY <2>1, <2>2 DEF TrialOK
<1>12. ASSUME NEW starts \in BOOLEAN, RebootTimer(starts)
       PROVE  TrialOK'
  <2>1. /\ ~Uploading' /\ power' = "boot" /\ ~confirm_timer' /\ daemon' = "idle"
        /\ tcpip' = "idle" /\ ~reboot_timer' /\ reboot_timer
        /\ UNCHANGED <<preferred, stored, hurried, glitches>>
        /\ running' = IF starts THEN target_partition ELSE preferred
    BY <1>12 DEF RebootTimer, RamLost, Uploading
  <2>2. (tentative' <=> starts) /\ (fell_back' <=> ~starts)
    BY <1>12, Zenon DEF RebootTimer
  <2>3. target_partition # running
    BY <2>1 DEF UploadOK, Uploading
  <2>4. QED
    BY <2>1, <2>2, <2>3 DEF TrialOK, Uploading
<1>13. CASE UNCHANGED vars
  BY <1>13 DEF vars, TrialOK, Uploading
<1>14. QED
  BY <1>1, <1>2, <1>3, <1>4, <1>5, <1>6, <1>7, <1>8, <1>9, <1>10, <1>11, <1>12, <1>13
     DEF Next, Client, Finish, Confirm

(* Only the image that is bought is recorded as confirmed, and none is     *)
(* bought while the record says so of another.                             *)
LEMMA ConfirmedStep ==
  ASSUME TypesOK, TrialOK, ConfirmedIsTrue, [Next]_vars
  PROVE  ConfirmedIsTrue'
<1> USE DEF permanent, boot, health, upload, fixed
<1> /\ stored \in [pending : BOOLEAN, target : Partitions,
                   result : {"NONE", "CONFIRMED", "ROLLED_BACK"}]
    /\ ota \in [pending : BOOLEAN, target : Partitions,
                result : {"NONE", "CONFIRMED", "ROLLED_BACK"}]
  BY DEF TypesOK
<1>1. ASSUME UNCHANGED <<preferred, stored, hurried>> PROVE ConfirmedIsTrue'
  BY <1>1 DEF ConfirmedIsTrue
<1>2. ASSUME NEW c \in Connections, Client(c) PROVE ConfirmedIsTrue'
  BY <1>1, <1>2 DEF Client, PostBegin, Receive, ReceiveFails, CloseConnection, ConnectionError
<1>3. CASE FinishSave
  <2>1. /\ ota' = [ota EXCEPT !.pending = TRUE, !.target = target_partition]
        /\ stored' = ota' \/ stored' = stored
        /\ UNCHANGED <<preferred, hurried>>
    BY <1>3 DEF FinishSave, Saved
  <2>2. QED
    BY <2>1 DEF ConfirmedIsTrue
<1>4. CASE FinishFlush \/ FinishTimer \/ Acknowledge \/ RebootRefused
  BY <1>1, <1>4 DEF FinishFlush, FinishTimer, Acknowledge, RebootRefused
<1>5. ASSUME NEW ready \in BOOLEAN, HealthPoll(ready) PROVE ConfirmedIsTrue'
  BY <1>1, <1>5 DEF HealthPoll
<1>6. CASE Buy
  BY <1>6 DEF Buy, TrialOK, ConfirmedIsTrue
<1>7. CASE Record
  <2>1. /\ daemon = "record"
        /\ ota' = [ota EXCEPT !.pending = FALSE, !.result = "CONFIRMED"]
        /\ stored' = ota' \/ stored' = stored
        /\ UNCHANGED <<preferred, hurried>>
    BY <1>7 DEF Record, Saved
  <2>2. ~hurried => ota'.target = preferred
    BY <2>1 DEF TrialOK
  <2>3. QED
    BY <2>1, <2>2 DEF ConfirmedIsTrue
<1>8. CASE Boot
  <2>1. UNCHANGED <<preferred, hurried>>
    BY <1>8 DEF Boot
  <2>2. stored' = stored \/ stored' = NoUpdate
        \/ stored' = [stored EXCEPT !.pending = FALSE, !.result = "ROLLED_BACK"]
    BY <1>8 DEF Boot, BootQuiet, BootCandidate, BootRolledBack, Loaded, NotLoaded, Saved
  <2>3. CASE stored' = stored
    BY <1>1, <2>1, <2>3
  <2>4. CASE stored' = NoUpdate
    BY <2>4 DEF NoUpdate, ConfirmedIsTrue
  <2>5. CASE stored' = [stored EXCEPT !.pending = FALSE, !.result = "ROLLED_BACK"]
    <3>1. stored'.result = "ROLLED_BACK"
      BY <2>5
    <3>2. QED
      BY <3>1 DEF ConfirmedIsTrue
  <2>6. QED
    BY <2>2, <2>3, <2>4, <2>5
<1>9. CASE Reset \/ \E starts \in BOOLEAN : RebootTimer(starts)
  BY <1>1, <1>9 DEF Reset, RebootTimer
<1>10. CASE UNCHANGED vars
  BY <1>1, <1>10 DEF vars
<1>11. QED
  BY <1>2, <1>3, <1>4, <1>5, <1>6, <1>7, <1>8, <1>9, <1>10 DEF Next, Finish, Confirm

-----------------------------------------------------------------------------
LEMMA InitOK == Init => OtaInv /\ ConfirmedIsTrue
<1> SUFFICES ASSUME Init PROVE OtaInv /\ ConfirmedIsTrue
  OBVIOUS
<1> USE OtaAssumption DEF OtaAssumption, Init, NoUpdate
<1>1. TypesOK
  <2>1. FlashOK
    BY DEF FlashOK, Units
  <2>2. RecordsOK
    BY DEF RecordsOK, Partitions
  <2>3. FlagsOK
    BY Zenon DEF FlagsOK
  <2>4. CountsOK
    BY DEF CountsOK
  <2>5. QED
    BY <2>1, <2>2, <2>3, <2>4, TypesParts
<1>2. StreamOK
  BY DEF StreamOK
<1>3. HealthOK /\ BootOK
  BY DEF HealthOK, ConfirmNeedsHealth, BootOK
<1>4. UploadOK /\ TrialOK /\ ConfirmedIsTrue
  BY DEF UploadOK, TrialOK, Uploading, ConfirmedIsTrue
<1>5. QED
  BY <1>1, <1>2, <1>3, <1>4 DEF OtaInv

LEMMA StepOK == OtaInv /\ ConfirmedIsTrue /\ [Next]_vars => OtaInv' /\ ConfirmedIsTrue'
<1> SUFFICES ASSUME OtaInv, ConfirmedIsTrue, [Next]_vars
             PROVE  OtaInv' /\ ConfirmedIsTrue'
  OBVIOUS
<1> USE DEF OtaInv
<1>1. TypesOK' /\ StreamOK' /\ HealthOK' /\ BootOK'
  BY TypesStep, StreamStep, HealthStep, BootStep
<1>2. UploadOK' /\ TrialOK' /\ ConfirmedIsTrue'
  BY UploadStep, TrialStep, ConfirmedStep
<1>3. QED
  BY <1>1, <1>2

LEMMA Invariant == Spec => [](OtaInv /\ ConfirmedIsTrue)
<1>1. QED
  BY InitOK, StepOK, PTL DEF Spec

(* An upload is staged and flashed as it is received; an image is bought   *)
(* only after MinStable good polls or MaxWait; the target is never the     *)
(* running partition; the EEPROM record is about the image on trial.       *)
THEOREM UpdateIsSound == Spec => []OtaInv
BY Invariant, PTL

(* When the reboot into an update is scheduled, its partition holds the    *)
(* whole image as posted, padded to the end of its last sector.            *)
THEOREM ScheduledIsStored == Spec => []ScheduledImageIsComplete
<1>1. OtaInv => ScheduledImageIsComplete
  BY DEF OtaInv, UploadOK, ScheduledImageIsComplete
<1>2. QED
  BY <1>1, Invariant, PTL

(* If nothing fails, an update the bootrom dropped is known to the image   *)
(* that runs in its place from its first boot on.                          *)
THEOREM RollbackIsKnown == Spec => []RollbackIsReported
<1>1. OtaInv => RollbackIsReported
  BY DEF OtaInv, TrialOK, RollbackIsReported
<1>2. QED
  BY <1>1, Invariant, PTL

(* A stored verdict "confirmed" is about the permanent image, whatever the *)
(* bootrom refuses and the EEPROM loses.                                   *)
THEOREM VerdictIsTrue == Spec => []ConfirmedIsTrue
BY Invariant, PTL

(* No step writes the partition that is being executed. *)
THEOREM RunningIsNotWritten == Spec => RunningImageIntact
<1>1. OtaInv /\ [Next]_vars => [flash'[running] = flash[running]]_vars
  BY FlashStep DEF OtaInv
<1>2. QED
  BY <1>1, Invariant, PTL DEF Spec, RunningImageIntact
=============================================================================
