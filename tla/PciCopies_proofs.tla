-------------------------- MODULE PciCopies_proofs --------------------------
(***************************************************************************)
(* The backup and the example the driver was written from: their steps are *)
(* those of pcidev-01 but for the regions, so that what is proved of its   *)
(* table holds of theirs.                                                  *)
(***************************************************************************)
EXTENDS PciCopies, PciPair_proofs

LEMMA CopiesAreAny == [CopiesNext]_copyvars => [AnyNext]_sans /\ source' = source
<1>1. SUFFICES ASSUME [CopiesNext]_copyvars PROVE [AnyNext]_sans /\ source' = source
  OBVIOUS
<1>2. source' = source
  BY <1>1 DEF CopiesNext, copyvars
<1>3. CASE Halted \/ UNCHANGED copyvars
  BY <1>2, <1>3 DEF Halted, copyvars, vars, kernel, sans
<1>4. CASE undefined = "no" /\ Backup
  <2>1. ASSUME NEW d \in Devices, BackupProbe(d) \/ BackupRemove(d)
        PROVE  AnyProbe(d) \/ AnyRemove(d)
    BY <2>1 DEF BackupProbe, BackupRemove, AnyProbe, AnyRemove,
                ProbeRegionsFail, GiveUp, ProbeRegions, Bind, ReleaseRegions, LetGo
  <2> QED
    BY <1>2, <1>4, <2>1 DEF Backup, BackupLoad, BackupUnload, BackupFileOp, AnyNext
<1>5. CASE undefined = "no" /\ Example
  <2>1. ASSUME NEW d \in Devices, ExampleProbe(d) \/ ExampleRemove(d)
        PROVE  AnyProbe(d) \/ AnyRemove(d)
    BY <2>1 DEF ExampleProbe, ExampleRemove, AnyProbe, AnyRemove,
                ExampleRequested, ExampleNotRequested, GiveUp, Bind, ReleaseIo, LetGo
  <2> QED
    BY <1>2, <1>5, <2>1 DEF Example, ExampleLoad, ExampleUnload, ExampleFileOp, AnyNext
<1> QED
  BY <1>1, <1>3, <1>4, <1>5 DEF CopiesNext

(* In the backup and in the example too a minor that can be opened has its *)
(* device and the one registered cdev in the table, until two probes take  *)
(* one entry: also where the example handles a device whose region it did  *)
(* not get, and gives up one whose region it did.                          *)
THEOREM CopiesNodesHaveDevices ==
  CopiesSpec => []NodeHasDevice
<1>1. CopiesInit => PairInv
  BY PairInit DEF CopiesInit
<1>2. PairInv /\ [CopiesNext]_copyvars => PairInv'
  BY CopiesAreAny, PairStep
<1>3. PairInv => NodeHasDevice
  BY DEF PairInv, Tidy, Nodes, Served, NodeHasDevice, Public, Open
<1> QED
  BY <1>1, <1>2, <1>3, PTL DEF CopiesSpec

(* The table fills up with no failures in them either.                     *)
THEOREM CopiesLoseNoEntry ==
  CopiesSpec => []NoEntryLost
<1>1. CopiesInit => PairInv
  BY PairInit DEF CopiesInit
<1>2. PairInv /\ [CopiesNext]_copyvars => PairInv'
  BY CopiesAreAny, PairStep
<1>3. PairInv => NoEntryLost
  BY HeldIsEnough DEF PairInv
<1> QED
  BY <1>1, <1>2, <1>3, PTL DEF CopiesSpec

=============================================================================
