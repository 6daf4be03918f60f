----------------------------- MODULE PciCopies -----------------------------
(***************************************************************************)
(* Two relatives of src/src/pcidev-01/pcidev.c that neither Makefile       *)
(* builds: the backup src/src/pcidev-02/pcidev-bak.c, a copy that was      *)
(* being given the ports and the messages of the card, and the example the *)
(* driver was written from, src/src/pcidev-01/pci-driver.c.  Table, load,  *)
(* unload and file operations are those of PciPair; what differs is which  *)
(* regions probe asks for and remove gives back.  (The backup also stores  *)
(* the ports it finds, as fields of the table, an array, which is not C    *)
(* yet; that is left out.)                                                 *)
(***************************************************************************)
EXTENDS PciPair

VARIABLE source   (* the file at hand: "backup" or "example"               *)

copyvars == <<vars, source>>

-----------------------------------------------------------------------------
(* The backup: as pcidev-01, but remove gives every region back.           *)

BackupLoad == ModuleLoad

BackupUnload == ModuleUnload \/ UnloadDone

BackupProbe(d) ==
  Search(d) \/ Publish(d) \/ ProbeRegionsFail(d) \/ ProbeRegions(d)

ReleaseRegions(d) ==
  /\ pc[d] = "r_region"
  /\ regions' = [regions EXCEPT ![d] = "none"]
  /\ pc' = [pc EXCEPT ![d] = "unbound"]
  /\ UNCHANGED <<phase, table, reserved, cdevs, cdev_map, probe, users, undefined, raced>>

BackupRemove(d) == RemoveCdev(d) \/ RemovePair(d) \/ ReleaseRegions(d)

BackupFileOp(u) == FileOp(u)

Backup ==
  \/ BackupLoad \/ BackupUnload
  \/ \E d \in Devices : BackupProbe(d) \/ BackupRemove(d)
  \/ \E u \in Users : BackupFileOp(u)

-----------------------------------------------------------------------------
(* The example: probe asks for the one region BAR_IO ...                   *)

ExampleLoad == ModuleLoad

ExampleUnload == ModuleUnload \/ UnloadDone

(* ... and takes the 0 of a request that went through for a failure: the   *)
(* cdev is deleted, and the region stays with the driver.                  *)
ExampleRequested(d) ==
  /\ pc[d] = "p_regions"
  /\ regions[d] = "none"
  /\ regions' = [regions EXCEPT ![d] = "io"]
  /\ cdev_del(cdev_of[d])
  /\ ReturnZero(d)
  /\ UNCHANGED <<phase, table, reserved, cdevs, probe, users, raced>>

(* A request that fails is taken for success, and the device is handled    *)
(* when the BAR is one of ports.                                           *)
ExampleNotRequested(d) ==
  /\ pc[d] = "p_regions"
  /\ regions[d] # "none" \/ MayFail("regions")
  /\ \/ /\ pc' = [pc EXCEPT ![d] = "bound"]
        /\ UNCHANGED <<cdev_map, undefined>>
     \/ /\ cdev_del(cdev_of[d])
        /\ ReturnZero(d)
  /\ UNCHANGED <<phase, table, reserved, cdevs, regions, probe, users, raced>>

ExampleProbe(d) ==
  Search(d) \/ Publish(d) \/ ExampleRequested(d) \/ ExampleNotRequested(d)

ReleaseIo(d) ==
  /\ pc[d] = "r_region"
  /\ regions' = [regions EXCEPT ![d] = IF @ = "io" THEN "none" ELSE @]
  /\ pc' = [pc EXCEPT ![d] = "unbound"]
  /\ UNCHANGED <<phase, table, reserved, cdevs, cdev_map, probe, users, undefined, raced>>

ExampleRemove(d) == RemoveCdev(d) \/ RemovePair(d) \/ ReleaseIo(d)

ExampleFileOp(u) == FileOp(u)

Example ==
  \/ ExampleLoad \/ ExampleUnload
  \/ \E d \in Devices : ExampleProbe(d) \/ ExampleRemove(d)
  \/ \E u \in Users : ExampleFileOp(u)

-----------------------------------------------------------------------------
CopiesInit == Init /\ source \in {"backup", "example"}

CopiesNext ==
  /\ \/ undefined = "no" /\ source = "backup" /\ Backup
     \/ undefined = "no" /\ source = "example" /\ Example
     \/ Halted
  /\ UNCHANGED source

CopiesSpec == CopiesInit /\ [][CopiesNext]_copyvars

=============================================================================
