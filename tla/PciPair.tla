------------------------------ MODULE PciPair ------------------------------
(***************************************************************************)
(* The first PCI driver, src/src/pcidev-01/pcidev.c: the table pci_cdev    *)
(* that links a minor number, a PCI device and its character device, the   *)
(* probe and remove callbacks that fill and clear it, and the file         *)
(* operations that look a device up by its minor.                          *)
(*                                                                         *)
(* The PCI core may call back for two devices at once, and opens and reads *)
(* come in between the steps of its callbacks.  An entry of the table is   *)
(* two functions here, pair_dev and pair_cdev, and its minor is its index. *)
(***************************************************************************)
EXTENDS Integers, FiniteSets

CONSTANTS
  Devices,      (* the PCI devices that match pci_ids                       *)
  Users,        (* the processes that open the device nodes                 *)
  MAX_DEVICE,
  NULL,
  Faults,       (* the kernel calls that may fail                           *)
  MaxCdevs,     (* a bound: how many cdevs are allocated                    *)
  MaxReserved   (* a bound: how many minors may be left reserved            *)

ASSUME PairAssumption ==
  /\ MAX_DEVICE \in Nat \ {0} /\ MaxCdevs \in Nat /\ MaxReserved \in Nat
  /\ NULL \notin Devices /\ NULL \notin Int
  /\ Faults \subseteq {"register", "alloc", "cdev", "regions"}

VARIABLES
  phase,      (* where module_load and module_unload are                    *)
  reserved,   (* how many minors alloc_chrdev_region has given this driver  *)
  pair_dev,   (* pci_cdev[i].pci_dev                                        *)
  pair_cdev,  (* pci_cdev[i].cdev, named by the order of allocation         *)
  cdevs,      (* how many cdevs have been allocated                        *)
  cdev_map,   (* the cdevs the kernel has registered for each minor         *)
  regions,    (* the BARs of d this driver holds: "none", "all", or "rest", *)
              (* all but BAR 0                                              *)
  pc,         (* where the callback for d is                                *)
  minor_of,   (* the entry the probe of d looks at, then its minor          *)
  cdev_of,    (* the cdev the probe of d has allocated                      *)
  opening,    (* the minor whose pci_open u is about to run, or NULL        *)
  file,       (* "none", or u's private_data: a device or NULL              *)
  undefined,  (* "no", or what the code did that leaves defined behaviour   *)
  raced       (* history: two probes have taken one entry                   *)

table == <<pair_dev, pair_cdev>>
kernel == <<reserved, cdevs, cdev_map, regions>>
users == <<opening, file>>
probe == <<minor_of, cdev_of>>
vars == <<phase, table, kernel, pc, probe, users, undefined, raced>>

Slots == 0 .. MAX_DEVICE - 1
Cdevs == 1 .. MaxCdevs

AtRest == {"unbound", "bound", "failed"}
Probing == {"p_search", "p_take", "p_add", "p_store", "p_regions"}
Removing == {"r_pair", "r_region"}

MayFail(call) == call \in Faults

First(S) == CHOOSE i \in S : \A j \in S : i <= j

-----------------------------------------------------------------------------
(* The table *)

(* Fault for the mutation runs: one entry too many.                        *)
pci_cdev_init_TooLong ==
  /\ pair_dev' = [i \in 0 .. MAX_DEVICE |-> NULL]
  /\ pair_cdev' = [i \in 0 .. MAX_DEVICE |-> NULL]

pci_cdev_init ==
  /\ pair_dev' = [i \in Slots |-> NULL]
  /\ pair_cdev' = [i \in Slots |-> NULL]

Free == {i \in Slots : pair_dev[i] = NULL}
Owned(d) == {i \in Slots : pair_dev[i] = d}

(* cdev_del of a cdev that is not registered leaves defined behaviour.     *)
cdev_del(c) ==
  /\ cdev_map' = [m \in Slots |-> cdev_map[m] \ {c}]
  /\ undefined' = IF \E m \in Slots : c \in cdev_map[m] THEN "no" ELSE "deleted twice"

-----------------------------------------------------------------------------
(* module_load and module_unload *)

Init ==
  /\ phase = "absent" /\ reserved = 0
  /\ pair_dev = [i \in Slots |-> NULL] /\ pair_cdev = [i \in Slots |-> NULL]
  /\ cdevs = 0 /\ cdev_map = [i \in Slots |-> {}]
  /\ regions = [d \in Devices |-> "none"]
  /\ pc = [d \in Devices |-> "unbound"] /\ minor_of = [d \in Devices |-> 0]
  /\ cdev_of = [d \in Devices |-> NULL]
  /\ opening = [u \in Users |-> NULL] /\ file = [u \in Users |-> "none"]
  /\ undefined = "no" /\ raced = FALSE

(* A load whose alloc_chrdev_region fails changes nothing.  One that       *)
(* cannot register its driver asks for one minor to be given back, and     *)
(* the kernel, which looks for a region of that size, finds none.          *)
ModuleLoad ==
  /\ phase = "absent" /\ reserved <= MaxReserved
  /\ pci_cdev_init
  /\ \/ /\ phase' = "loaded"
        /\ reserved' = reserved + MAX_DEVICE
     \/ /\ MayFail("register")
        /\ reserved' = IF MAX_DEVICE = 1 THEN reserved ELSE reserved + MAX_DEVICE
        /\ UNCHANGED phase
  /\ UNCHANGED <<cdevs, cdev_map, regions, pc, probe, users, undefined, raced>>

(* rmmod, when no file is open; pci_unregister_driver then has the devices *)
(* removed ...                                                             *)
ModuleUnload ==
  /\ phase = "loaded"
  /\ \A u \in Users : opening[u] = NULL /\ file[u] = "none"
  /\ phase' = "unloading"
  /\ UNCHANGED <<table, kernel, pc, probe, users, undefined, raced>>

(* ... and then the cdev of every entry that is still taken is deleted.    *)
UnloadDone ==
  /\ phase = "unloading" /\ \A d \in Devices : pc[d] = "unbound"
  /\ phase' = "absent"
  /\ reserved' = reserved - MAX_DEVICE
  /\ LET taken == Slots \ Free
     IN  /\ cdev_map' = [m \in Slots |-> cdev_map[m] \ {pair_cdev[i] : i \in taken}]
         /\ undefined' = IF \A i \in taken : pair_cdev[i] \in cdev_map[i]
                         THEN "no" ELSE "deleted twice"
  /\ UNCHANGED <<table, cdevs, regions, pc, probe, users, raced>>

-----------------------------------------------------------------------------
(* pci_probe *)

(* The PCI core takes 0, as it does 1, for a probe that has gone through:  *)
(* the device stays with the driver until remove is called for it.         *)
ReturnZero(d) == pc' = [pc EXCEPT ![d] = "failed"]

ProbeStart(d) ==
  /\ phase = "loaded" /\ pc[d] = "unbound"
  /\ minor_of' = [minor_of EXCEPT ![d] = 0]
  /\ pc' = [pc EXCEPT ![d] = "p_search"]
  /\ UNCHANGED <<phase, table, kernel, cdev_of, users, undefined, raced>>

(* pci_cdev_add goes through the table, without a lock: past the entries   *)
(* that are taken ...                                                      *)
ProbeNext(d) ==
  /\ pc[d] = "p_search"
  /\ pair_dev[minor_of[d]] # NULL /\ minor_of[d] + 1 < MAX_DEVICE
  /\ minor_of' = [minor_of EXCEPT ![d] = @ + 1]
  /\ UNCHANGED <<phase, table, kernel, pc, cdev_of, users, undefined, raced>>

ProbeFull(d) ==
  /\ pc[d] = "p_search"
  /\ pair_dev[minor_of[d]] # NULL /\ minor_of[d] + 1 = MAX_DEVICE
  /\ ReturnZero(d)
  /\ UNCHANGED <<phase, table, kernel, probe, users, undefined, raced>>

(* ... to the first that is free ...                                       *)
ProbeFree(d) ==
  /\ pc[d] = "p_search"
  /\ pair_dev[minor_of[d]] = NULL
  /\ pc' = [pc EXCEPT ![d] = "p_take"]
  /\ UNCHANGED <<phase, table, kernel, probe, users, undefined, raced>>

(* ... and takes it.                                                       *)
ProbeTake(d) ==
  /\ pc[d] = "p_take"
  /\ pair_dev' = [pair_dev EXCEPT ![minor_of[d]] = d]
  /\ raced' = (raced \/ pair_dev[minor_of[d]] # NULL)
  /\ pc' = [pc EXCEPT ![d] = "p_add"]
  /\ UNCHANGED <<phase, pair_cdev, kernel, probe, users, undefined>>

(* cdev_alloc, cdev_init of what it returned, NULL or not, and cdev_add:   *)
(* the node can be opened.  When that fails the entry stays taken, with    *)
(* whatever cdev it had ...                                                *)
ProbeAdd(d) ==
  /\ pc[d] = "p_add"
  /\ cdevs < MaxCdevs
  /\ \/ /\ cdevs' = cdevs + 1
        /\ cdev_of' = [cdev_of EXCEPT ![d] = cdevs + 1]
        /\ \/ /\ cdev_map' = [cdev_map EXCEPT ![minor_of[d]] = @ \cup {cdevs + 1}]
              /\ pc' = [pc EXCEPT ![d] = "p_store"]
           \/ /\ MayFail("cdev")
              /\ ReturnZero(d)
              /\ UNCHANGED cdev_map
        /\ UNCHANGED undefined
     \/ /\ MayFail("alloc")
        /\ undefined' = "null cdev"
        /\ UNCHANGED <<cdevs, cdev_of, cdev_map, pc>>
  /\ UNCHANGED <<phase, table, reserved, regions, minor_of, users, raced>>

(* ... and else gets the new one.                                          *)
ProbeStore(d) ==
  /\ pc[d] = "p_store"
  /\ pair_cdev' = [pair_cdev EXCEPT ![minor_of[d]] = cdev_of[d]]
  /\ pc' = [pc EXCEPT ![d] = "p_regions"]
  /\ UNCHANGED <<phase, pair_dev, kernel, probe, users, undefined, raced>>

(* pci_request_regions asks for every BAR: it fails, and holds no more     *)
(* than before, when one is held already.                                  *)
ProbeRegionsFail(d) ==
  /\ pc[d] = "p_regions"
  /\ regions[d] # "none" \/ MayFail("regions")
  /\ cdev_del(cdev_of[d])
  /\ ReturnZero(d)
  /\ UNCHANGED <<phase, table, reserved, cdevs, regions, probe, users, raced>>

ProbeRegions(d) ==
  /\ pc[d] = "p_regions"
  /\ regions[d] = "none"
  /\ regions' = [regions EXCEPT ![d] = "all"]
  /\ pc' = [pc EXCEPT ![d] = "bound"]
  /\ UNCHANGED <<phase, table, reserved, cdevs, cdev_map, probe, users, undefined, raced>>

-----------------------------------------------------------------------------
(* pci_remove *)

(* The cdev of the first entry d has, if it has one.                       *)
CdevOf(d) == IF Owned(d) = {} THEN NULL ELSE pair_cdev[First(Owned(d))]

(* Fault for the mutation runs: remove goes by the minor the probe was     *)
(* given and does not look whether the entry is d's.                       *)
RemoveCdev_ByMinor(d) ==
  /\ phase # "absent" /\ pc[d] \in {"bound", "failed"}
  /\ pc' = [pc EXCEPT ![d] = "r_pair"]
  /\ IF pair_cdev[minor_of[d]] = NULL
     THEN UNCHANGED <<cdev_map, undefined>>
     ELSE cdev_del(pair_cdev[minor_of[d]])
  /\ UNCHANGED <<phase, table, reserved, cdevs, regions, probe, users, raced>>

RemoveCdev(d) ==
  /\ phase # "absent" /\ pc[d] \in {"bound", "failed"}
  /\ pc' = [pc EXCEPT ![d] = "r_pair"]
  /\ IF CdevOf(d) = NULL
     THEN UNCHANGED <<cdev_map, undefined>>
     ELSE cdev_del(CdevOf(d))
  /\ UNCHANGED <<phase, table, reserved, cdevs, regions, probe, users, raced>>

(* Fault for the mutation runs: remove forgets the table.                  *)
RemovePair_Skipped(d) ==
  /\ pc[d] = "r_pair"
  /\ pc' = [pc EXCEPT ![d] = "r_region"]
  /\ UNCHANGED <<phase, table, kernel, probe, users, undefined, raced>>

(* pci_cdev_del: every entry of d is free again, and keeps its cdev.       *)
RemovePair(d) ==
  /\ pc[d] = "r_pair"
  /\ pair_dev' = [i \in Slots |-> IF pair_dev[i] = d THEN NULL ELSE pair_dev[i]]
  /\ pc' = [pc EXCEPT ![d] = "r_region"]
  /\ UNCHANGED <<phase, pair_cdev, kernel, probe, users, undefined, raced>>

(* pci_release_region of BAR 0.                                            *)
RemoveRegion(d) ==
  /\ pc[d] = "r_region"
  /\ regions' = [regions EXCEPT ![d] = IF @ = "all" THEN "rest" ELSE @]
  /\ pc' = [pc EXCEPT ![d] = "unbound"]
  /\ UNCHANGED <<phase, table, reserved, cdevs, cdev_map, probe, users, undefined, raced>>

-----------------------------------------------------------------------------
(* The file operations.  An open file keeps the module in memory.          *)

(* The VFS finds the cdev of the minor ...                                 *)
OpenEnter(u) ==
  /\ phase = "loaded"
  /\ opening[u] = NULL /\ file[u] = "none"
  /\ \E m \in Slots : cdev_map[m] # {} /\ opening' = [opening EXCEPT ![u] = m]
  /\ UNCHANGED <<phase, table, kernel, pc, probe, file, undefined, raced>>

(* ... and pci_open looks up the device.                                   *)
PciOpen(u) ==
  /\ opening[u] # NULL
  /\ file' = [file EXCEPT ![u] = pair_dev[opening[u]]]
  /\ opening' = [opening EXCEPT ![u] = NULL]
  /\ UNCHANGED <<phase, table, kernel, pc, probe, undefined, raced>>

(* pci_read and pci_write ask private_data for its ports, and nothing has  *)
(* kept the device for them: once it is removed it may be gone.            *)
PciReadWrite(u) ==
  /\ file[u] # "none"
  /\ undefined' = IF file[u] = NULL THEN "null device"
                  ELSE IF pc[file[u]] = "unbound" THEN "removed device" ELSE "no"
  /\ UNCHANGED <<phase, table, kernel, pc, probe, users, raced>>

PciRelease(u) ==
  /\ file[u] # "none"
  /\ file' = [file EXCEPT ![u] = "none"]
  /\ UNCHANGED <<phase, table, kernel, pc, probe, opening, undefined, raced>>

-----------------------------------------------------------------------------
Search(d) == ProbeStart(d) \/ ProbeNext(d) \/ ProbeFull(d) \/ ProbeFree(d) \/ ProbeTake(d)
Publish(d) == ProbeAdd(d) \/ ProbeStore(d)
Probe(d) == Search(d) \/ Publish(d) \/ ProbeRegionsFail(d) \/ ProbeRegions(d)
Remove(d) == RemoveCdev(d) \/ RemovePair(d) \/ RemoveRegion(d)
FileOp(u) == OpenEnter(u) \/ PciOpen(u) \/ PciReadWrite(u) \/ PciRelease(u)

(* After undefined behaviour nothing more is claimed of the machine; and   *)
(* the bounds end the model where the code goes on.                        *)
Halted == (undefined # "no" \/ cdevs = MaxCdevs \/ reserved > MaxReserved) /\ UNCHANGED vars

Next ==
  \/ /\ undefined = "no"
     /\ \/ ModuleLoad \/ ModuleUnload \/ UnloadDone
        \/ \E d \in Devices : Probe(d) \/ Remove(d)
        \/ \E u \in Users : FileOp(u)
  \/ Halted

Spec == Init /\ [][Next]_vars

-----------------------------------------------------------------------------
(* Properties *)

TypeOK ==
  /\ phase \in {"absent", "loaded", "unloading"} /\ reserved \in Nat
  /\ pair_dev \in [Slots -> Devices \cup {NULL}]
  /\ pair_cdev \in [Slots -> Cdevs \cup {NULL}]
  /\ cdevs \in 0 .. MaxCdevs /\ cdev_map \in [Slots -> SUBSET Cdevs]
  /\ regions \in [Devices -> {"none", "all", "rest"}]
  /\ pc \in [Devices -> AtRest \cup Probing \cup Removing]
  /\ minor_of \in [Devices -> Slots] /\ cdev_of \in [Devices -> Cdevs \cup {NULL}]
  /\ opening \in [Users -> Slots \cup {NULL}]
  /\ file \in [Users -> Devices \cup {NULL, "none"}]
  /\ undefined \in {"no", "deleted twice", "null device", "null cdev", "removed device"}
  /\ raced \in BOOLEAN

(* As long as no two probes have taken one entry (the search in            *)
(* pcidev.c:96-100 has no lock), a node that can be opened has its device  *)
(* in the table, so that pci_open finds it, and the one cdev that is       *)
(* registered, so that remove does (pcidev.c:176, 461); the cdev comes     *)
(* into the table a step after it is registered, within the probe.         *)
NodeHasDevice ==
  ~raced => \A m \in Slots : \A c \in cdev_map[m] : \E d \in Devices :
    /\ pair_dev[m] = d /\ minor_of[d] = m /\ cdev_of[d] = c
    /\ pc[d] = "p_store" \/ (pc[d] \in {"p_regions", "bound"} /\ pair_cdev[m] = c)

(* A device has at most one entry of the table, and none when it is not    *)
(* bound: no entry is lost, whatever failed in probe and even after two    *)
(* probes have taken the same one.                                         *)
NoEntryLost ==
  \A d \in Devices : Cardinality(Owned(d)) <= (IF pc[d] = "unbound" THEN 0 ELSE 1)

(* A cdev is deleted twice only when a device whose probe gave up is       *)
(* removed all the same (pcidev.c:463), or after two probes have taken one *)
(* entry.                                                                  *)
DeletedTwiceOnlyAfterFailure ==
  [][undefined' = "deleted twice" =>
       \/ undefined = "deleted twice" \/ raced
       \/ \E d \in Devices : pc[d] = "failed" /\ pc'[d] = "r_pair"]_vars

=============================================================================
