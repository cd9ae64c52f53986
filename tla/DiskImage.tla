----------------------------- MODULE DiskImage ------------------------------
(***************************************************************************)
(* The disk image that src/tools/mbr_maker.cpp and then                    *)
(* src/tools/fat32_maker.cpp write, sector by sector: the master boot      *)
(* record with the first stage, and in its partition a FAT32 volume with   *)
(* the second stage in the reserved sectors.  Each action is one function  *)
(* called by the main programs; a step that fails leaves the image as it   *)
(* is at that point.                                                       *)
(***************************************************************************)
EXTENDS Integers

CONSTANTS
  Reserved,    \* reserved_sectors_count
  Entries,     \* entries of a FAT sector: sector_size/4
  MinClusters, \* MIN_FAT32_CLUSTERS
  Word,        \* 2^32, scaled: the modulus of the 32 bit sizes
  MaxSector,   \* sectors of the image that are looked at
  FirstStages, \* sectors the first stage takes besides the MBR
  Volumes, FatSizes, ClusterSizes,   \* parameters of fat32_maker, in sectors
  CodeSizes    \* sectors of second stage after the first part, -1: no file

Sectors == 0..MaxSector
Fats == 2
FsInfo == 1
Backup == 6
RootCluster == 2
EndOfChain == 1
Marked == 2        \* what FAT[0] and FAT[1] hold
Param == [volume : Volumes, fat : FatSizes, cluster : ClusterSizes, code : CodeSizes]

VARIABLES
  disk,   \* the contents of each sector
  part,   \* the partition entry: first sector and size
  par,    \* the parameters, and then the VBR's fields
  pc      \* the function main calls next

vars == <<disk, part, par, pc>>

-----------------------------------------------------------------------------
Other == <<"none">>
Blank == <<"blank">>
Vbr(code) == <<"vbr", code>>
Info(free) == <<"fsinfo", free>>
Dir == <<"dir">>
Code(i) == <<"code", i>>

(* The getters that read the VBR, with their 32 bit arithmetic.             *)
getFatAreaStart == Reserved

getFatAreaSize == Fats * par.fat

getDataAreaFirstSector == Reserved + Fats * par.fat

getDataAreaSize == (par.volume - getDataAreaFirstSector) % Word

getClusterCount == getDataAreaSize \div par.cluster

(* FileImage: sector n of the volume, with the start of the partition that  *)
(* mbr_maker has printed as the offset.                                     *)
Place(n) == part.start + n

WriteSectors(new) ==
  disk' = [s \in Sectors |-> IF s - part.start \in DOMAIN new THEN new[s - part.start] ELSE disk[s]]

-----------------------------------------------------------------------------
Init ==
  /\ disk = [s \in Sectors |-> Other]
  /\ part = [start |-> 0, size |-> 0]
  /\ par \in Param
  /\ pc = "makeMbr"

(* main of mbr_maker: the MBR, the rest of the first stage, and a partition *)
(* of blank sectors behind it.                                              *)
makeMbr ==
  /\ pc = "makeMbr"
  /\ \E e \in FirstStages :
       /\ part' = [start |-> 1 + e, size |-> par.volume]
       /\ disk' = [s \in Sectors |->
                     CASE s = 0 -> <<"mbr">>
                       [] s \in 1..e -> <<"stage1", s>>
                       [] s \in 1 + e..e + par.volume -> Blank
                       [] OTHER -> Other]
  /\ pc' = "makeVbr" /\ UNCHANGED par

TotalSize == Reserved + Fats * par.fat - 1

makeFat32VBR ==
  /\ pc = "makeVbr"
  /\ pc' = IF TotalSize > par.volume \/ getClusterCount < MinClusters
           THEN "error" ELSE "writeVbr"
  /\ UNCHANGED <<disk, part, par>>

(* The VBR and, next to it, the FSInfo sector.                              *)
makeFSInfoSector ==
  /\ pc = "writeVbr"
  /\ WriteSectors([n \in {0, FsInfo} |-> IF n = 0 THEN Vbr(FALSE) ELSE Info(getClusterCount)])
  /\ pc' = "backup" /\ UNCHANGED <<part, par>>

updateFat32Backup ==
  /\ pc = "backup"
  /\ WriteSectors([n \in Backup..Backup + 2 |-> disk[Place(n - Backup)]])
  /\ pc' = "fat" /\ UNCHANGED <<part, par>>

(* writeFatEntry: entries of the first FAT; the others keep their values,   *)
(* which are zero in a new FAT.                                             *)
FatWith(entries) ==
  [n \in getFatAreaStart..getFatAreaStart + getFatAreaSize - 1 |->
     <<"fat", [e \in 0..Entries - 1 |->
                LET i == (n - getFatAreaStart) * Entries + e
                IN IF i \in DOMAIN entries THEN entries[i]
                   ELSE IF disk[Place(n)][1] = "fat" THEN disk[Place(n)][2][e] ELSE 0]>>]

initializeFileAllocationTable ==
  /\ pc = "fat"
  /\ WriteSectors(FatWith([i \in {0, 1} |-> Marked]))
  /\ pc' = "root" /\ UNCHANGED <<part, par>>

(* The product with the sector size, not the cluster size, is zero for the  *)
(* only cluster this is used for.                                           *)
getFirstSectorOfCluster(cluster) == getDataAreaFirstSector + (cluster - 2) * Entries * 4

makeRootDirectory ==
  /\ pc = "root"
  /\ LET first == getFirstSectorOfCluster(RootCluster)
         dir == [n \in first..first + par.cluster - 1 |-> Dir]
         fat == FatWith([i \in {RootCluster} |-> EndOfChain])
     IN WriteSectors([n \in DOMAIN dir \cup DOMAIN fat |->
                        IF n \in DOMAIN dir THEN dir[n] ELSE fat[n]])
  /\ pc' = "code" /\ UNCHANGED <<part, par>>

(* Parts of the second stage go behind the backup until the assertion that  *)
(* they stay in the reserved sectors fails.                                 *)
FirstCode == Backup + 3

CodeFits_Any == TRUE

CodeFits == FirstCode + par.code <= getFatAreaStart

writeBootCode ==
  /\ pc = "code"
  /\ LET last == IF CodeFits THEN FirstCode + par.code - 1 ELSE getFatAreaStart - 1
     IN IF par.code = -1 THEN UNCHANGED disk
        ELSE WriteSectors([n \in {0} \cup FirstCode..last |->
                             IF n = 0 THEN Vbr(TRUE) ELSE Code(n - FirstCode + 1)])
  /\ pc' = IF par.code >= 0 /\ CodeFits THEN "done" ELSE "error"
  /\ UNCHANGED <<part, par>>

Next ==
  \/ makeMbr \/ makeFat32VBR \/ makeFSInfoSector \/ updateFat32Backup
  \/ initializeFileAllocationTable \/ makeRootDirectory \/ writeBootCode

Spec == Init /\ [][Next]_vars
-----------------------------------------------------------------------------
(* The type of the state: every sector has contents of one of the kinds,    *)
(* and the size of the data area is an unsigned number.                     *)
TypeOK ==
  /\ par \in Param /\ getDataAreaSize \in 0..Word - 1
  /\ part.start \in {0} \cup {1 + e : e \in FirstStages}
  /\ \A s \in Sectors : disk[s][1] \in {"none", "blank", "mbr", "stage1", "vbr", "fsinfo", "fat", "dir", "code"}

(* Whatever the parameters are, fat32_maker changes nothing in front of the *)
(* partition or behind it: the MBR and the first stage stay, and the image  *)
(* ends where the MBR says.                                                 *)
InsidePartition ==
  pc # "makeMbr" =>
    \A s \in Sectors :
      IF s >= part.start
      THEN (disk[s] # Other) = (s < part.start + part.size)
      ELSE disk[s] = IF s = 0 THEN <<"mbr">> ELSE <<"stage1", s>>

(* The cluster i is free, or the end of the root directory, according to    *)
(* the first FAT as a driver reads it.                                      *)
FatEntry(i) == disk[Place(Reserved + i \div Entries)][2][i % Entries]

(* When the programs end without an error the volume can be read: the       *)
(* second stage is whole and in order, the backup holds the sectors 0 to 2  *)
(* of before, the root directory is one chain of empty sectors in the data  *)
(* area, every other cluster is free, and no area has overwritten another.  *)
ImageReadable ==
  pc = "done" =>
    /\ disk[Place(0)] = Vbr(TRUE) /\ disk[Place(Backup)] = Vbr(FALSE)
    /\ disk[Place(FsInfo)] = Info(getClusterCount)
    /\ \A n \in 1..2 : disk[Place(n)] = disk[Place(Backup + n)]
    /\ \A i \in 1..par.code : disk[Place(FirstCode + i - 1)] = Code(i)
    /\ \A n \in 0..2 * par.fat - 1 : disk[Place(Reserved + n)][1] = "fat"
    /\ \A i \in 0..par.fat * Entries - 1 :
         FatEntry(i) = CASE i \in {0, 1} -> Marked [] i = RootCluster -> EndOfChain [] OTHER -> 0
    /\ {n \in 0..par.volume - 1 : disk[Place(n)] = Dir} =
         Reserved + 2 * par.fat..Reserved + 2 * par.fat + par.cluster - 1

(* The image tools write only where they may, and a run that ends without   *)
(* an error leaves a volume that can be read.                               *)
ImageSound == TypeOK /\ InsidePartition /\ ImageReadable
=============================================================================
