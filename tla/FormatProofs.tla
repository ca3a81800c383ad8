--------------------------- MODULE FormatProofs ----------------------------
(****************************************************************************)
(* Proofs about Format, for any disks: the layout that partition_format    *)
(* computes from a number of sectors fits the partition, and holds of every*)
(* super block that is on a disk, whatever the partition tables hold and   *)
(* whenever the machine stops.                                             *)
(****************************************************************************)
EXTENDS Format, TLAPS, SequenceTheorems

-----------------------------------------------------------------------------
(* The layout of one partition.                                            *)

(* What \div gives for a positive divisor. *)
LEMMA DivBounds ==
  ASSUME NEW x \in Nat, NEW b \in Nat \ {0}
  PROVE  /\ x \div b \in Nat
         /\ b * (x \div b) <= x
         /\ x < b * (x \div b) + b
  BY SMT

(* DIV_ROUND_UP gives the least number of steps that is enough. *)
LEMMA RoundUp ==
  ASSUME NEW x \in Nat, NEW step \in Nat \ {0}
  PROVE  /\ DIV_ROUND_UP(x, step) \in Nat
         /\ x <= DIV_ROUND_UP(x, step) * step
         /\ DIV_ROUND_UP(x, step) * step < x + step
  BY DivBounds, x + step - 1 \in Nat DEF DIV_ROUND_UP

(* Less to round up gives no more. *)
LEMMA RoundUpMonotone ==
  ASSUME NEW x \in Nat, NEW y \in Nat, NEW step \in Nat \ {0}, x <= y
  PROVE  DIV_ROUND_UP(x, step) <= DIV_ROUND_UP(y, step)
<1> DEFINE m == DIV_ROUND_UP(x, step)
           n == DIV_ROUND_UP(y, step)
<1>1. m \in Nat /\ n \in Nat /\ m * step < x + step /\ y <= n * step
  BY RoundUp, ZenonT(60)
<1>2. SUFFICES ASSUME n + 1 <= m PROVE FALSE
  BY <1>1
<1> HIDE DEF m, n
<1>3. (n + 1) * step <= m * step
  BY <1>1, <1>2
<1> QED BY <1>1, <1>3

-----------------------------------------------------------------------------
Part == [start_lba : Nat, sec_cnt : SecCnts]
SuperBlocks == {super_block(p) : p \in Part}

(* The numbers of the layout. *)
LEMMA Numbers ==
  /\ BITS_PER_SECTOR \in Nat \ {0} /\ SECTOR_SIZE \in Nat \ {0}
  /\ inode_bitmap_sects \in Nat /\ inode_table_sects \in Nat /\ used_sects \in Nat
<1>1. SECTOR_SIZE \in Nat \ {0} /\ MAX_FILES_PER_PART \in Nat \ {0} /\ InodeSize \in Nat \ {0}
  BY FormatAssumption
<1>2. BITS_PER_SECTOR \in Nat \ {0}
  BY <1>1 DEF BITS_PER_SECTOR
<1>3. InodeSize * MAX_FILES_PER_PART \in Nat
  BY <1>1
<1>4. inode_bitmap_sects \in Nat /\ inode_table_sects \in Nat
  BY <1>1, <1>2, <1>3, RoundUp, ZenonT(60) DEF inode_bitmap_sects, inode_table_sects
<1> QED BY <1>1, <1>2, <1>4 DEF used_sects

(* The data blocks and their bitmap fit in what the other areas leave. *)
LEMMA RoomForData ==
  ASSUME NEW n \in SecCnts
  PROVE  /\ bit_len(n) \in Nat /\ bit_len(n) >= 8
         /\ DIV_ROUND_UP(bit_len(n), BITS_PER_SECTOR) \in Nat
         /\ DIV_ROUND_UP(bit_len(n), BITS_PER_SECTOR) + bit_len(n) <= n - used_sects
<1> DEFINE b == BITS_PER_SECTOR
           free == n - used_sects
           sects == DIV_ROUND_UP(free, b)
           len == free - sects
<1>1. free \in Nat /\ free > 9 /\ b \in Nat \ {0} /\ b >= 8
  BY Numbers, FormatAssumption DEF SecCnts, BITS_PER_SECTOR
<1>2. bit_len(n) = len
  BY DEF bit_len
<1> HIDE DEF b, free
<1>3. sects \in Nat /\ sects * b < free + b
  BY <1>1, RoundUp
<1> HIDE DEF sects
<1>4. ((sects - 1) * b < free /\ (sects - 1) * 8 <= (sects - 1) * b) \/ sects = 0
  BY <1>1, <1>3
<1>5. (sects - 1) * 8 < free \/ sects = 0
  BY <1>1, <1>3, <1>4
<1>6. len \in Nat /\ len >= 8 /\ len <= free
  BY <1>1, <1>3, <1>5
<1> HIDE DEF len
<1>7. DIV_ROUND_UP(len, b) \in Nat
  BY <1>1, <1>6, RoundUp, SMTT(30)
<1>8. DIV_ROUND_UP(len, b) <= sects
  BY <1>1, <1>6, RoundUpMonotone DEF sects
<1>9. DIV_ROUND_UP(len, b) + len <= free
  BY <1>1, <1>3, <1>6, <1>7, <1>8, SMTT(30) DEF len
<1> QED BY <1>2, <1>6, <1>7, <1>9, SMTT(30) DEF b, free

(* What LayoutFits and BlocksFree say of one file system. *)
Fits(sb) ==
  \A i \in 1 .. 5 :
    /\ Layout(sb)[i] \subseteq sb.part_lba_base + 1 .. sb.part_lba_base + sb.sec_cnt - 1
    /\ \A j \in 1 .. i - 1 : Layout(sb)[i] \cap Layout(sb)[j] = {}
Frees(sb) == \A i \in Blocks(sb) : i \in DOMAIN sb.bitmap /\ sb.bitmap[i] = (i = 0)

(* The layout partition_format computes. *)
LEMMA SuperBlockFits ==
  ASSUME NEW p \in Part
  PROVE  Fits(super_block(p))
<1> DEFINE n == p.sec_cnt
           base == p.start_lba
           len == bit_len(n)
           sects == DIV_ROUND_UP(len, BITS_PER_SECTOR)
           ib == inode_bitmap_sects
           it == inode_table_sects
           data == {base + 2 + sects + ib + it + i : i \in 0 .. len - 1}
           lay == <<{base + 1},
                    base + 2 .. base + 2 + sects - 1,
                    base + 2 + sects .. base + 2 + sects + ib - 1,
                    base + 2 + sects + ib .. base + 2 + sects + ib + it - 1,
                    data>>
<1>1. n \in Nat /\ base \in Nat /\ n \in SecCnts
  BY DEF Part, SecCnts
<1>2. /\ len \in Nat /\ len >= 8 /\ sects \in Nat /\ ib \in Nat /\ it \in Nat
      /\ sects + len <= n - (2 + ib + it)
  BY <1>1, RoomForData, Numbers, SMTT(30) DEF used_sects
<1>3. Layout(super_block(p)) = lay
  BY DEF Layout, super_block, Blocks
<1>4. super_block(p).part_lba_base = base /\ super_block(p).sec_cnt = n
  BY DEF super_block
<1> HIDE DEF n, base, len, sects, ib, it
<1>5. data \subseteq base + 2 + sects + ib + it .. base + n - 1
  BY <1>1, <1>2, SMTT(30)
<1> HIDE DEF data
<1> DEFINE lo == <<base + 1, base + 2, base + 2 + sects, base + 2 + sects + ib, base + 2 + sects + ib + it>>
           hi == <<base + 1, base + 1 + sects, base + 1 + sects + ib, base + 1 + sects + ib + it, base + n - 1>>
<1>6. ASSUME NEW i \in 1 .. 5
      PROVE  lay[i] \subseteq lo[i] .. hi[i] /\ lo[i] \in Int /\ hi[i] \in Int /\ lo[i] >= base + 1 /\ hi[i] <= base + n - 1
  <2>1. CASE i = 1  BY <1>1, <1>2, <2>1, SMTT(30)
  <2>2. CASE i = 2  BY <1>1, <1>2, <2>2, SMTT(30)
  <2>3. CASE i = 3  BY <1>1, <1>2, <2>3, SMTT(30)
  <2>4. CASE i = 4  BY <1>1, <1>2, <2>4, SMTT(30)
  <2>5. CASE i = 5  BY <1>1, <1>2, <1>5, <2>5, SMTT(30)
  <2> QED BY <2>1, <2>2, <2>3, <2>4, <2>5, SMTT(30)
<1>7. ASSUME NEW i \in 1 .. 5, NEW j \in 1 .. i - 1
      PROVE  hi[j] < lo[i]
  <2>1. CASE i = 2  BY <1>1, <1>2, <2>1, SMTT(30)
  <2>2. CASE i = 3  BY <1>1, <1>2, <2>2, SMTT(30)
  <2>3. CASE i = 4  BY <1>1, <1>2, <2>3, SMTT(30)
  <2>4. CASE i = 5  BY <1>1, <1>2, <2>4, SMTT(30)
  <2> QED BY <2>1, <2>2, <2>3, <2>4, SMTT(30)
<1> HIDE DEF lay, lo, hi
<1>8. ASSUME NEW i \in 1 .. 5
      PROVE  lay[i] \subseteq base + 1 .. base + n - 1
  BY <1>1, <1>6
<1>9. ASSUME NEW i \in 1 .. 5, NEW j \in 1 .. i - 1
      PROVE  lay[i] \cap lay[j] = {}
  BY <1>6, <1>7, j \in 1 .. 5
<1> QED BY <1>3, <1>4, <1>8, <1>9, SMTT(30) DEF Fits

(* The bitmap it writes. *)
LEMMA SuperBlockFrees ==
  ASSUME NEW p \in Part
  PROVE  Frees(super_block(p))
<1> DEFINE len == bit_len(p.sec_cnt)
           sects == DIV_ROUND_UP(len, BITS_PER_SECTOR)
           last_byte == len \div 8
           last_size == SECTOR_SIZE - (last_byte % SECTOR_SIZE)
<1>1. len \in Nat /\ len >= 8 /\ sects \in Nat
  BY RoomForData DEF Part
<1>2. len <= sects * BITS_PER_SECTOR
  BY <1>1, Numbers, RoundUp, SMTT(30)
<1>3. super_block(p).bitmap = block_bitmap(len) /\ Blocks(super_block(p)) = 0 .. len - 1
  BY DEF super_block, Blocks
<1>4. block_bitmap(len) =
        [i \in 0 .. sects * BITS_PER_SECTOR - 1 |->
           IF i \div 8 = last_byte THEN i % 8 > len % 8
           ELSE i = 0 \/ i \div 8 \in last_byte .. last_byte + last_size - 1]
  BY DEF block_bitmap
<1> HIDE DEF len, sects, last_size
<1>5. ASSUME NEW i \in 0 .. len - 1
      PROVE  i \in DOMAIN block_bitmap(len) /\ block_bitmap(len)[i] = (i = 0)
  <2>1. i \in Nat /\ i < len /\ i \div 8 <= last_byte /\ last_byte >= 1
    BY <1>1
  <2>2. i \in 0 .. sects * BITS_PER_SECTOR - 1
    BY <1>1, <1>2, <2>1, Numbers, SMTT(30)
  <2>3. i \div 8 = last_byte => i % 8 < len % 8 /\ i # 0
    BY <1>1, <2>1, SMTT(30)
  <2>4. i \div 8 # last_byte => i \div 8 \notin last_byte .. last_byte + last_size - 1
    BY <1>1, <2>1
  <2> HIDE DEF last_byte
  <2>5. i \div 8 = last_byte => ~(i % 8 > len % 8)
    BY <1>1, <2>1, <2>3, SMTT(30)
  <2>6. i \div 8 = last_byte => block_bitmap(len)[i] = (i = 0)
    <3>1. i \div 8 = last_byte => block_bitmap(len)[i] = (i % 8 > len % 8)
      BY <1>4, <2>2
    <3> QED BY <2>3, <2>5, <3>1, SMTT(30)
  <2>7. i \div 8 # last_byte => block_bitmap(len)[i] = (i = 0)
    BY <1>4, <2>2, <2>4, ZenonT(60)
  <2>8. i \in DOMAIN block_bitmap(len)
    BY <1>4, <2>2, ZenonT(60)
  <2> QED BY <2>6, <2>7, <2>8, SMTT(30)
<1> QED BY <1>3, <1>5 DEF Frees

-----------------------------------------------------------------------------
(* The disks.                                                              *)

Chans == 0 .. Channels - 1
Slots == 0 .. Primary + Logical - 1
AnyPart == [start_lba : Nat, sec_cnt : SecCnts \cup {0}]
Frame == [ext_lba : Nat, part_num : 0 .. 4]

(* What partition_scan puts in the tables of partitions is the sum of      *)
(* numbers in tables on the disk, and what is on the disk was made by      *)
(* partition_format.                                                       *)
FInv ==
  /\ disks \in [Chans -> Disks]
  /\ parts \in [Chans -> [Slots -> AnyPart]]
  /\ scan \in Seq(Frame) /\ ext_lba_base \in Nat
  /\ scan_no \in 0 .. Channels /\ (scan # <<>> => scan_no < Channels)
  /\ fs \in [Chans -> SUBSET [sb : SuperBlocks, written : 1 .. 5]]
  /\ channel_no \in 0 .. Channels /\ part_idx \in Nat

(* The invariant says what is wanted of every file system. *)
LEMMA FInvEnough == FInv => LayoutFits /\ BlocksFree
<1> SUFFICES ASSUME FInv PROVE LayoutFits /\ BlocksFree
  OBVIOUS
<1>1. Supers \subseteq SuperBlocks
  BY DEF FInv, Supers, Chans
<1>2. \A sb \in SuperBlocks : Fits(sb) /\ Frees(sb)
  BY SuperBlockFits, SuperBlockFrees DEF SuperBlocks
<1>3. \A sb \in Supers : Fits(sb) /\ Frees(sb)
  BY <1>1, <1>2
<1>4. LayoutFits
  BY <1>3 DEF LayoutFits, Fits
<1>5. BlocksFree
  BY <1>3 DEF BlocksFree, Frees
<1> QED BY <1>4, <1>5

LEMMA FInvInit == Init => FInv
<1> SUFFICES ASSUME Init PROVE FInv
  OBVIOUS
<1>1. Channels \in Nat \ {0} /\ Primary \in Nat /\ Logical \in Nat
  BY FormatAssumption
<1>2. None \in AnyPart
  BY DEF None, AnyPart
<1>3. ScanCall(0) \in Frame
  BY DEF ScanCall, Frame
<1>4. scan \in Seq(Frame) /\ scan # <<>>
  BY <1>3 DEF Init, ScanInit
<1> QED BY <1>1, <1>2, <1>4 DEF Init, ScanInit, FsInit, FInv, Chans, Slots

(* What is read from a table. *)
LEMMA EntryType ==
  ASSUME FInv, scan # <<>>, NEW lba, NEW k \in Entries
  PROVE  LET e == boot_sector(scan_no, lba)[k] IN
         e.start_lba \in Nat /\ (e.fs_type \notin {0, 5} => e.sec_cnt \in SecCnts)
<1>1. scan_no \in Chans /\ disks[scan_no] \in Disks
  BY FormatAssumption, SMTT(30) DEF FInv, Chans
<1>2. CASE lba \in DOMAIN disks[scan_no].tables
  BY <1>1, <1>2, FormatAssumption, SMTT(30) DEF boot_sector
<1>3. CASE lba \notin DOMAIN disks[scan_no].tables
  BY <1>3 DEF boot_sector
<1> QED BY <1>2, <1>3, SMTT(30)

(* Sequences of calls. *)
LEMMA Frames ==
  ASSUME NEW s \in Seq(Frame), s # <<>>
  PROVE  Last(s) \in Frame /\ Front(s) \in Seq(Frame)
<1>1. Len(s) \in Nat \ {0}
  BY EmptySeq
<1>2. s[Len(s)] \in Frame
  BY <1>1, ElementOfSeq
<1>3. SubSeq(s, 1, Len(s) - 1) \in Seq(Frame)
  BY <1>1, SubSeqProperties
<1> QED BY <1>2, <1>3 DEF Last, Front

(* One entry of a table. *)
LEMMA FInvScan ==
  ASSUME FInv, partition_scan, UNCHANGED fsvars
  PROVE  FInv'
<1> DEFINE top == Last(scan)
           e == boot_sector(scan_no, top.ext_lba)[top.part_num + 1]
           next == [top EXCEPT !.part_num = @ + 1]
           rest == Append(Front(scan), next)
           part == [start_lba |-> top.ext_lba + e.start_lba, sec_cnt |-> e.sec_cnt]
<1>1. scan # <<>> /\ scan \in Seq(Frame) /\ top.part_num < 4
  BY DEF partition_scan, FInv
<1>2. top \in Frame /\ Front(scan) \in Seq(Frame)
  BY <1>1, Frames
<1>3. top.ext_lba \in Nat /\ top.part_num \in 0 .. 3 /\ next \in Frame
  <2>1. top \in [ext_lba : Nat, part_num : 0 .. 4]
    BY <1>2 DEF Frame
  <2> HIDE DEF top
  <2>2. top.ext_lba \in Nat /\ top.part_num \in 0 .. 3
    BY <1>1, <2>1
  <2>3. next = [ext_lba |-> top.ext_lba, part_num |-> top.part_num + 1]
    BY <2>1
  <2> QED BY <2>2, <2>3 DEF Frame
<1>4. rest \in Seq(Frame)
  BY <1>2, <1>3, AppendProperties, SMTT(30)
<1>5. top.part_num + 1 \in Entries
  BY <1>3 DEF Entries
<1>6. e.start_lba \in Nat /\ (e.fs_type \notin {0, 5} => e.sec_cnt \in SecCnts)
  BY <1>1, <1>5, EntryType, SMTT(30)
<1>7. e.fs_type \notin {0, 5} => part \in AnyPart
  <2> HIDE DEF top, e
  <2> QED BY <1>3, <1>6 DEF AnyPart
<1>8. ScanCall(next_table(e, top.ext_lba)) \in Frame
  <2> HIDE DEF top, e
  <2> QED BY <1>6 DEF FInv, ScanCall, next_table, Frame
<1>9. Append(rest, ScanCall(next_table(e, top.ext_lba))) \in Seq(Frame)
  <2> HIDE DEF top, e, rest
  <2> QED BY <1>4, <1>8, AppendProperties, SMTT(30)
<1>10. scan' \in Seq(Frame)
  <2>1. \/ scan' = Append(rest, ScanCall(next_table(e, top.ext_lba)))
        \/ scan' = rest
        \/ scan' = Front(scan)
    BY SMTT(30) DEF partition_scan
  <2> QED BY <1>2, <1>4, <1>9, <2>1, ZenonT(60)
<1>11. ext_lba_base' \in Nat
  <2>1. ext_lba_base' \in {e.start_lba, ext_lba_base}
    BY DEF partition_scan
  <2> QED BY <1>6, <2>1, ZenonT(60) DEF FInv
<1>12. parts' \in [Chans -> [Slots -> AnyPart]]
  <2>1. \/ parts' = parts
        \/ e.fs_type \notin {0, 5} /\ \E k : parts' = [parts EXCEPT ![scan_no][k] = part]
    BY Zenon DEF partition_scan
  <2> HIDE DEF part, e
  <2>2. ASSUME NEW k, part \in AnyPart, parts' = [parts EXCEPT ![scan_no][k] = part]
        PROVE  parts' \in [Chans -> [Slots -> AnyPart]]
    <3>1. parts \in [Chans -> [Slots -> AnyPart]]
      BY DEF FInv
    <3>2. scan_no \in Chans => [parts[scan_no] EXCEPT ![k] = part] \in [Slots -> AnyPart]
      BY <2>2, <3>1, ZenonT(60)
    <3> QED BY <2>2, <3>1, <3>2, ZenonT(60)
  <2> QED BY <1>7, <2>1, <2>2, SMTT(30) DEF FInv
<1>13. UNCHANGED <<disks, scan_no>> /\ scan_no < Channels
  BY <1>1 DEF partition_scan, FInv
<1> QED BY <1>10, <1>11, <1>12, <1>13, ZenonT(60) DEF FInv, fsvars

(* partition_format, its writes, and the loops around them. *)
LEMMA FInvFormat ==
  ASSUME FInv, SkipPartition \/ partition_format \/ WriteArea \/ NextDisk \/ mount_partition
  PROVE  FInv'
<1>1. UNCHANGED <<disks, scanvars>>
  BY DEF SkipPartition, partition_format, WriteArea, NextDisk, mount_partition
<1>2. channel_no' \in 0 .. Channels /\ part_idx' \in Nat
  <2>1. Channels \in Nat /\ channel_no \in 0 .. Channels /\ part_idx \in Nat
    BY FormatAssumption DEF FInv
  <2>2. channel_no' = channel_no \/ (channel_no' = channel_no + 1 /\ channel_no < Channels)
    <3>1. CASE NextDisk
      BY <3>1 DEF NextDisk
    <3>2. CASE SkipPartition
      BY <3>2, SMTT(30) DEF SkipPartition
    <3>3. CASE partition_format
      BY <3>3 DEF partition_format
    <3>4. CASE WriteArea
      BY <2>1, <3>4 DEF WriteArea
    <3>5. CASE mount_partition
      BY <2>1, <3>5 DEF mount_partition
    <3> QED BY <3>1, <3>2, <3>3, <3>4, <3>5, SMTT(30)
  <2>3. part_idx' = part_idx \/ part_idx' = part_idx + 1
    <3>1. CASE WriteArea
      BY <3>1 DEF WriteArea
    <3>2. CASE SkipPartition
      BY <3>2, SMTT(30) DEF SkipPartition
    <3>3. CASE partition_format
      BY <3>3 DEF partition_format
    <3>4. CASE NextDisk
      BY <3>4 DEF NextDisk
    <3>5. CASE mount_partition
      BY <3>5, SMTT(30) DEF mount_partition
    <3> QED BY <3>1, <3>2, <3>3, <3>4, <3>5, SMTT(30)
  <2> QED BY <2>1, <2>2, <2>3, SMTT(30)
<1>3. fs' \in [Chans -> SUBSET [sb : SuperBlocks, written : 1 .. 5]]
  <2> DEFINE p == parts[channel_no][part_idx]
  <2>1. CASE UNCHANGED fs
    BY <2>1 DEF FInv
  <2>2. CASE partition_format
    <3>1. channel_no \in Chans /\ part_idx \in Slots /\ p.sec_cnt # 0
      BY <2>2, FormatAssumption, SMTT(30) DEF FInv, partition_format, Chans, Slots
    <3>2. p \in AnyPart
      BY <3>1 DEF FInv
    <3>3. p \in Part
      <4> HIDE DEF p
      <4> QED BY <3>1, <3>2, SMTT(30) DEF AnyPart, Part
    <3>4. [sb |-> super_block(p), written |-> 1] \in [sb : SuperBlocks, written : 1 .. 5]
      BY <3>3, SMTT(30) DEF SuperBlocks
    <3>5. fs' = [fs EXCEPT ![channel_no] = @ \cup {[sb |-> super_block(p), written |-> 1]}]
      BY <2>2 DEF partition_format
    <3> HIDE DEF p
    <3> QED BY <3>1, <3>4, <3>5, ZenonT(60) DEF FInv
  <2>3. CASE WriteArea
    <3> DEFINE mine == OnDisk(channel_no, p)
    <3>1. fs' = [fs EXCEPT ![channel_no] = (@ \ mine) \cup {[s EXCEPT !.written = areas + 1] : s \in mine}]
      BY <2>3 DEF WriteArea
    <3>2. areas + 1 \in 1 .. 5
      BY <2>3 DEF WriteArea
    <3>3. mine \subseteq fs[channel_no]
      BY DEF OnDisk
    <3> HIDE DEF mine, p
    <3> QED BY <3>1, <3>2, <3>3, ZenonT(60) DEF FInv
  <2> QED BY <2>1, <2>2, <2>3, SMTT(30) DEF SkipPartition, NextDisk, mount_partition
<1> QED BY <1>1, <1>2, <1>3, SMTT(30) DEF FInv, scanvars

LEMMA FInvNext == FInv /\ [Next]_vars => FInv'
<1> SUFFICES ASSUME FInv, [Next]_vars PROVE FInv'
  OBVIOUS
<1>1. Channels \in Nat \ {0}
  BY FormatAssumption
<1>2. ScanCall(0) \in Frame /\ None \in AnyPart
  BY DEF ScanCall, Frame, None, AnyPart
<1>3. <<ScanCall(0)>> \in Seq(Frame)
  BY <1>2
<1>4. CASE partition_scan /\ UNCHANGED fsvars
  BY <1>4, FInvScan, SMTT(30)
<1>5. CASE ScanReturn /\ UNCHANGED fsvars
  <2>1. scan # <<>> /\ scan' \in Seq(Frame)
    BY <1>5, Frames, SMTT(30) DEF ScanReturn, FInv
  <2> QED BY <1>5, <2>1, SMTT(30) DEF ScanReturn, FInv, fsvars
<1>6. CASE NextChannel /\ UNCHANGED fsvars
  <2>1. scan_no' \in 0 .. Channels
    BY <1>1, <1>6, SMTT(30) DEF NextChannel, FInv
  <2>2. scan' \in Seq(Frame) /\ (scan' # <<>> => scan_no' < Channels)
    BY <1>3, <1>6 DEF NextChannel
  <2> QED BY <1>6, <2>1, <2>2, SMTT(30) DEF NextChannel, FInv, fsvars
<1>7. CASE SkipPartition \/ partition_format \/ WriteArea \/ NextDisk \/ mount_partition
  BY <1>7, FInvFormat, SMTT(30)
<1>8. CASE Restart
  <2>1. parts' \in [Chans -> [Slots -> AnyPart]]
    BY <1>2, <1>8, SMTT(30) DEF Restart, Chans, Slots
  <2>2. scan' \in Seq(Frame) /\ scan_no' = 0 /\ ext_lba_base' = 0 /\ channel_no' = 0 /\ part_idx' = 0
    BY <1>3, <1>8 DEF Restart
  <2>3. UNCHANGED <<disks, fs>>
    BY <1>8 DEF Restart
  <2> QED BY <1>1, <2>1, <2>2, <2>3, SMTT(30) DEF FInv
<1>9. CASE UNCHANGED vars
  BY <1>9 DEF FInv, vars, scanvars, fsvars
<1> QED BY <1>4, <1>5, <1>6, <1>7, <1>8, <1>9, SMTT(30) DEF Next, Scanning, ScanNext

(* Whatever partitions the tables name, and after any number of restarts,  *)
(* also when the power goes while partition_format is writing, the areas   *)
(* of a file system are apart and inside its partition.                    *)
THEOREM LayoutAlwaysFits == Spec => []LayoutFits
<1>1. FInv => LayoutFits
  BY FInvEnough, SMTT(30)
<1> QED BY <1>1, FInvInit, FInvNext, PTL DEF Spec

(* Likewise every data block partition_format counts, but the root's, has  *)
(* a clear bit in the block bitmap it writes.                              *)
THEOREM BlocksAlwaysFree == Spec => []BlocksFree
<1>1. FInv => BlocksFree
  BY FInvEnough
<1> QED BY <1>1, FInvInit, FInvNext, PTL DEF Spec
=============================================================================
