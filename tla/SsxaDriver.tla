----------------------------- MODULE SsxaDriver -----------------------------
(***************************************************************************)
(* The life cycle of the SSX10A PCI driver, src/src/pcidev-02/pcidev.c:    *)
(* module_load and module_unload, and the two callbacks the PCI core makes *)
(* for each device, pci_driver_attach and pci_driver_detach.               *)
(*                                                                         *)
(* The driver keeps a static table of contexts, driver_contexts, and one   *)
(* counter, dev_attach_counter, that is both the number of attached        *)
(* devices and, less one, the index of the context the next attach takes.  *)
(* Nothing in the driver locks either of them.                             *)
(*                                                                         *)
(* A callback is several steps, cut where it touches what another callback *)
(* also touches; pc[d] says where the callback for device d is.            *)
(*                                                                         *)
(* The PCI core may call back in any order, and for two devices at once.   *)
(* slips only records: which of the calls the driver is not written for    *)
(* have been made, so that a property can say what holds until then.       *)
(***************************************************************************)
EXTENDS Integers, FiniteSets

CONSTANTS
  Devices,      (* the PCI devices whose vendor and device id match pci_ids *)
  MAX_DEVICE,   (* the length of driver_contexts                            *)
  NULL,         (* the null pointer                                         *)
  Faults,       (* the kernel calls that may fail                           *)
  MaySlip       (* the slips the PCI core makes, see slips                  *)

FaultKinds == {"alloc", "class", "register", "enable", "regions", "ioremap", "cdev"}
SlipKinds == {"overlap", "order", "failed"}

ASSUME DriverAssumption ==
  /\ MAX_DEVICE \in Nat \ {0}
  /\ NULL \notin Devices
  /\ NULL \notin Int
  /\ Faults \subseteq FaultKinds
  /\ MaySlip \subseteq SlipKinds

ASSUME DevicesFinite == IsFiniteSet(Devices)

VARIABLES
  phase,               (* where module_load and module_unload are           *)
  dev_class,           (* the class object behind the pointer dev_class     *)
  dev_attach_counter,
  driver_contexts,
  drvdata,             (* pci_get_drvdata(d): a context's index, or NULL    *)
  pc,                  (* where the callback for d is                       *)
  loaded,              (* the counter as a running ++ or -- for d read it; 0 *)
                       (* when there is none                                *)
  held,                (* the devices whose regions this driver reserved    *)
  mapped,              (* the live mappings: <<c, d>>, made by the attach of *)
                       (* d and to be found through context c               *)
  cdevs,               (* the contexts whose cdev is registered             *)
  node,                (* the context whose minor owns /dev/ssxa-pci        *)
  undefined,           (* TRUE once the code has used a pointer that points *)
                       (* at nothing it may use, or has unmapped, deleted   *)
                       (* or set up a second time what may be only once     *)
  slips                (* "overlap": a callback began during another's;     *)
                       (* "order": a device was detached before one that    *)
                       (* was attached later; "failed": a device was        *)
                       (* detached whose attach had given up                *)

module == <<phase, dev_class>>
kernel == <<held, mapped, cdevs, node>>
vars == <<module, dev_attach_counter, driver_contexts, drvdata, pc, loaded,
          kernel, undefined, slips>>

Slots == 0 .. MAX_DEVICE - 1
DevOrNull == Devices \cup {NULL}

(* A mapped address is named after the device whose memory it maps: base   *)
(* is base_addr, buffers what w_buffer and s_buffer point into, workers    *)
(* what the chip workers' buff_ptr and tag_ptr point into.                 *)
Context == [pci_dev : DevOrNull, base : DevOrNull, buffers : DevOrNull, workers : DevOrNull]

BlankContext == [pci_dev |-> NULL, base |-> NULL, buffers |-> NULL, workers |-> NULL]

AtRest  == {"unbound", "bound", "failed"}
Attaching == {"a_load", "a_count", "a_enable", "a_hold", "a_mount", "a_free", "a_dec", "a_put"}
Detaching == {"d_free", "d_dec", "d_put"}

(* The devices whose callback works on the context drvdata points at, and  *)
(* those attached.                                                         *)
Users == {d \in Devices : pc[d] \in {"a_hold", "a_mount", "a_free", "bound", "d_free"}}
Attached == {d \in Devices : pc[d] = "bound"}

(* The devices whose attach has counted itself and not yet uncounted.      *)
Counted == {d \in Devices :
              pc[d] \in {"a_enable", "a_hold", "a_mount", "a_free", "a_dec", "a_put",
                         "bound", "d_free", "d_dec", "d_put"}}

MayFail(call) == call \in Faults

(* The slips of a callback that begins now: another callback is running,   *)
(* the device to detach is one whose attach gave up, or is not the one     *)
(* attached last.                                                          *)
Slip(kinds) ==
  /\ kinds \subseteq MaySlip
  /\ slips' = slips \cup kinds

Overlapping == IF \A e \in Devices : pc[e] \in AtRest THEN {} ELSE {"overlap"}

Newest(d) == \A e \in Attached : drvdata[e] <= drvdata[d]

OutOfTurn(d) == IF pc[d] = "failed" THEN {"failed"} ELSE IF Newest(d) THEN {} ELSE {"order"}

-----------------------------------------------------------------------------
(* module_load and module_unload *)

(* The table after a store to one field of context c.                      *)
Store(table, c, field, value) == [table EXCEPT ![c] = [@ EXCEPT ![field] = value]]

(* Fault for the mutation runs: one context more than the table has.       *)
init_driver_contexts_TooLong == [i \in 0 .. MAX_DEVICE |-> BlankContext]

(* init_driver_contexts: every context blank, context i with minor i.      *)
init_driver_contexts == [i \in Slots |-> BlankContext]

Init ==
  /\ phase = "absent"
  /\ dev_class = "none"
  /\ dev_attach_counter = 0
  /\ driver_contexts = init_driver_contexts
  /\ drvdata = [d \in Devices |-> NULL]
  /\ pc = [d \in Devices |-> "unbound"]
  /\ loaded = [d \in Devices |-> 0]
  /\ held = {}
  /\ mapped = {}
  /\ cdevs = {}
  /\ node = NULL
  /\ undefined = FALSE
  /\ slips = {}

(* class_create reports failure as an error pointer; the test against NULL *)
(* never sees it, and the driver goes on with a class it cannot use.       *)
ClassCreated == {"live"} \cup (IF MayFail("class") THEN {"errptr"} ELSE {})

(* A load starts from a fresh image of the module: the static counter is 0. *)
ModuleLoad ==
  /\ phase = "absent"
  /\ phase' = "loaded"
  /\ dev_class' \in ClassCreated
  /\ dev_attach_counter' = 0
  /\ driver_contexts' = init_driver_contexts
  /\ UNCHANGED <<drvdata, pc, loaded, kernel, undefined, slips>>

(* alloc_chrdev_region or pci_register_driver fails: what was set up is    *)
(* taken down again and the module is not there.                           *)
ModuleLoadFails ==
  /\ phase = "absent"
  /\ \/ MayFail("alloc") /\ UNCHANGED dev_class
     \/ MayFail("register") /\ dev_class' = "destroyed"
  /\ dev_attach_counter' = 0
  /\ driver_contexts' = init_driver_contexts
  /\ UNCHANGED <<phase, drvdata, pc, loaded, kernel, undefined, slips>>

(* The first two calls of module_unload; the driver is still registered.   *)
UnloadDestroyClass ==
  /\ phase = "loaded"
  /\ phase' = "unloading"
  /\ dev_class' = "destroyed"
  /\ UNCHANGED <<dev_attach_counter, driver_contexts, drvdata, pc, loaded, kernel, undefined, slips>>

(* pci_unregister_driver: no attach starts any more ...                    *)
UnloadUnregister ==
  /\ phase = "unloading"
  /\ phase' = "draining"
  /\ UNCHANGED <<dev_class, dev_attach_counter, driver_contexts, drvdata, pc, loaded,
                 kernel, undefined, slips>>

(* ... and it returns when every device is detached.                       *)
UnloadDone ==
  /\ phase = "draining"
  /\ \A d \in Devices : pc[d] = "unbound"
  /\ phase' = "absent"
  /\ UNCHANGED <<dev_class, dev_attach_counter, driver_contexts, drvdata, pc, loaded,
                 kernel, undefined, slips>>

-----------------------------------------------------------------------------
(* hold_pci_resources, free_pci_resources, mount_chr_dev, unmount_chr_dev  *)

(* Fault for the mutation runs: the buffers are not set up.                *)
HoldSucceeds_NoBuffers(c, d) ==
  /\ driver_contexts' = Store(driver_contexts, c, "base", d)
  /\ held' = held \cup {d}
  /\ mapped' = mapped \cup {<<c, d>>}

(* hold_pci_resources goes through: regions reserved, memory mapped.       *)
HoldSucceeds(c, d) ==
  /\ driver_contexts' = Store(Store(driver_contexts, c, "base", d), c, "buffers", d)
  /\ held' = held \cup {d}
  /\ mapped' = mapped \cup {<<c, d>>}

(* ioremap fails: the regions are given back, the buffers keep what they   *)
(* pointed at, and ret_code is still the 0 that pci_request_regions left.  *)
HoldUnmapped(c) ==
  /\ MayFail("ioremap")
  /\ driver_contexts' = Store(driver_contexts, c, "base", NULL)
  /\ UNCHANGED <<held, mapped>>

(* iounmap(base_addr.addr) and pci_release_regions(pci_dev), for whatever  *)
(* the context holds by now.  iounmap leaves a null pointer alone.         *)
FreeResources(c) ==
  LET ctx == driver_contexts[c]
  IN  /\ mapped' = mapped \ {<<c, ctx.base>>}
      /\ undefined' = (ctx.base # NULL /\ <<c, ctx.base>> \notin mapped)
      /\ held' = held \ {ctx.pci_dev}

(* device_create: every device asks for the same name, so it only makes a  *)
(* node when there is none; its result is not looked at.                   *)
DeviceCreate(c) ==
  node' = IF dev_class = "live" /\ node = NULL THEN c ELSE node

(* Fault for the mutation runs: the node goes whichever minor it is for.   *)
DeviceDestroy_AnyMinor(c) ==
  node' = NULL

DeviceDestroy(c) ==
  node' = IF node = c THEN NULL ELSE node

-----------------------------------------------------------------------------
(* pci_driver_attach *)

TooMany(n) == n > MAX_DEVICE

(* The PCI core calls attach for a device it has no driver for.            *)
AttachCalled(d) ==
  /\ phase \in {"loaded", "unloading"}
  /\ pc[d] = "unbound"
  /\ Slip(Overlapping)

(* An attach that gives up returns 0.  The comment at pcidev.c:247 takes   *)
(* that for "not handled"; to the PCI core any result but a negative one   *)
(* is success: the device is bound, keeps its drvdata and is detached in   *)
(* the end.                                                                *)
AttachRefused(d) ==
  /\ AttachCalled(d)
  /\ TooMany(dev_attach_counter)
  /\ pc' = [pc EXCEPT ![d] = "failed"]
  /\ UNCHANGED <<module, dev_attach_counter, driver_contexts, drvdata, loaded, kernel, undefined>>

(* The test of dev_attach_counter ...                                      *)
AttachTest(d) ==
  /\ AttachCalled(d)
  /\ ~TooMany(dev_attach_counter)
  /\ pc' = [pc EXCEPT ![d] = "a_load"]
  /\ UNCHANGED <<module, dev_attach_counter, driver_contexts, drvdata, loaded, kernel, undefined>>

(* ... the load of ++dev_attach_counter, a read of its own ...             *)
AttachLoad(d) ==
  /\ pc[d] = "a_load"
  /\ loaded' = [loaded EXCEPT ![d] = dev_attach_counter]
  /\ pc' = [pc EXCEPT ![d] = "a_count"]
  /\ UNCHANGED <<module, dev_attach_counter, driver_contexts, drvdata, kernel, undefined, slips>>

(* ... and its store.                                                      *)
AttachCount(d) ==
  /\ pc[d] = "a_count"
  /\ dev_attach_counter' = loaded[d] + 1
  /\ loaded' = [loaded EXCEPT ![d] = 0]
  /\ pc' = [pc EXCEPT ![d] = "a_enable"]
  /\ UNCHANGED <<module, driver_contexts, drvdata, kernel, undefined, slips>>

(* Fault for the mutation runs: the index is the counter itself.           *)
ContextIndex_OffByOne == dev_attach_counter

ContextIndex == dev_attach_counter - 1

(* pci_enable_device, then the context is chosen by a new read of the      *)
(* counter and becomes the device's drvdata.  An index outside the table   *)
(* is memory the driver does not own.                                      *)
AttachEnable(d) ==
  /\ pc[d] = "a_enable"
  /\ \/ /\ MayFail("enable")
        /\ pc' = [pc EXCEPT ![d] = "a_dec"]
        /\ UNCHANGED <<drvdata, driver_contexts, undefined>>
     \/ /\ drvdata' = [drvdata EXCEPT ![d] = ContextIndex]
        /\ driver_contexts' = IF ContextIndex \in Slots
                              THEN Store(driver_contexts, ContextIndex, "pci_dev", d)
                              ELSE driver_contexts
        /\ undefined' = (ContextIndex \notin Slots)
        /\ pc' = [pc EXCEPT ![d] = "a_hold"]
  /\ UNCHANGED <<module, dev_attach_counter, loaded, kernel, slips>>

AttachHold(d) ==
  /\ pc[d] = "a_hold"
  /\ \/ /\ d \in held \/ MayFail("regions")
        /\ pc' = [pc EXCEPT ![d] = "a_dec"]
        /\ UNCHANGED <<driver_contexts, held, mapped>>
     \/ /\ d \notin held
        /\ HoldSucceeds(drvdata[d], d) \/ HoldUnmapped(drvdata[d])
        /\ pc' = [pc EXCEPT ![d] = "a_mount"]
  /\ UNCHANGED <<module, dev_attach_counter, drvdata, loaded, cdevs, node, undefined, slips>>

(* mount_chr_dev: cdev_init, which must not find a registered cdev there,  *)
(* cdev_add, the workers' pointers, device_create.                         *)
AttachMount(d) ==
  LET c == drvdata[d]
      live == c \in cdevs
  IN  /\ pc[d] = "a_mount"
      /\ \/ /\ MayFail("cdev")
            /\ undefined' = live
            /\ pc' = [pc EXCEPT ![d] = "a_free"]
            /\ UNCHANGED <<driver_contexts, cdevs, node>>
         \/ /\ cdevs' = cdevs \cup {c}
            /\ driver_contexts' = Store(driver_contexts, c, "workers", driver_contexts[c].buffers)
            /\ DeviceCreate(c)
            /\ undefined' = (live \/ dev_class = "destroyed")
            /\ pc' = [pc EXCEPT ![d] = "bound"]
      /\ UNCHANGED <<module, dev_attach_counter, drvdata, loaded, held, mapped, slips>>

(* Fault for the mutation runs: the undo skips free_pci_resources.         *)
UndoHold_Skipped(d) ==
  /\ pc[d] = "a_free"
  /\ pc' = [pc EXCEPT ![d] = "a_dec"]
  /\ UNCHANGED <<module, dev_attach_counter, driver_contexts, drvdata, loaded, kernel, undefined, slips>>

(* The undo of an attach, from the label fali_clean3 down.                 *)
UndoHold(d) ==
  /\ pc[d] = "a_free"
  /\ FreeResources(drvdata[d])
  /\ pc' = [pc EXCEPT ![d] = "a_dec"]
  /\ UNCHANGED <<module, dev_attach_counter, driver_contexts, drvdata, loaded,
                 cdevs, node, slips>>

UndoLoad(d) ==
  /\ pc[d] = "a_dec"
  /\ loaded' = [loaded EXCEPT ![d] = dev_attach_counter]
  /\ pc' = [pc EXCEPT ![d] = "a_put"]
  /\ UNCHANGED <<module, dev_attach_counter, driver_contexts, drvdata, kernel, undefined, slips>>

(* Fault for the mutation runs: two labels on the way out both decrement.  *)
UndoCount_Twice(d) ==
  /\ pc[d] = "a_put"
  /\ dev_attach_counter' = loaded[d] - 2
  /\ loaded' = [loaded EXCEPT ![d] = 0]
  /\ pc' = [pc EXCEPT ![d] = "failed"]
  /\ UNCHANGED <<module, driver_contexts, drvdata, kernel, undefined, slips>>

UndoCount(d) ==
  /\ pc[d] = "a_put"
  /\ dev_attach_counter' = loaded[d] - 1
  /\ loaded' = [loaded EXCEPT ![d] = 0]
  /\ pc' = [pc EXCEPT ![d] = "failed"]
  /\ UNCHANGED <<module, driver_contexts, drvdata, kernel, undefined, slips>>

-----------------------------------------------------------------------------
(* pci_driver_detach *)

(* unmount_chr_dev on the context drvdata points at: device_destroy and    *)
(* cdev_del, when the class or the cdev may not be there any more, and the *)
(* context may be none.                                                    *)
DetachUnmount(d) ==
  LET c == drvdata[d]
      bad == c = NULL \/ dev_class # "live" \/ c \notin cdevs
  IN  /\ phase # "absent"
      /\ pc[d] \in {"bound", "failed"}
      /\ Slip(Overlapping \cup OutOfTurn(d))
      /\ undefined' = bad
      /\ IF bad
         THEN UNCHANGED <<cdevs, node>>
         ELSE DeviceDestroy(c) /\ cdevs' = cdevs \ {c}
      /\ pc' = [pc EXCEPT ![d] = "d_free"]
      /\ UNCHANGED <<module, dev_attach_counter, driver_contexts, drvdata, loaded, held, mapped>>

DetachFree(d) ==
  /\ pc[d] = "d_free"
  /\ FreeResources(drvdata[d])
  /\ pc' = [pc EXCEPT ![d] = "d_dec"]
  /\ UNCHANGED <<module, dev_attach_counter, driver_contexts, drvdata, loaded,
                 cdevs, node, slips>>

DetachLoad(d) ==
  /\ pc[d] = "d_dec"
  /\ loaded' = [loaded EXCEPT ![d] = dev_attach_counter]
  /\ pc' = [pc EXCEPT ![d] = "d_put"]
  /\ UNCHANGED <<module, dev_attach_counter, driver_contexts, drvdata, kernel, undefined, slips>>

(* The store of dev_attach_counter--; the device is then unbound.          *)
DetachCount(d) ==
  /\ pc[d] = "d_put"
  /\ dev_attach_counter' = loaded[d] - 1
  /\ loaded' = [loaded EXCEPT ![d] = 0]
  /\ pc' = [pc EXCEPT ![d] = "unbound"]
  /\ drvdata' = [drvdata EXCEPT ![d] = NULL]
  /\ UNCHANGED <<module, driver_contexts, kernel, undefined, slips>>

-----------------------------------------------------------------------------
Attach(d) ==
  \/ AttachRefused(d) \/ AttachTest(d) \/ AttachLoad(d) \/ AttachCount(d) \/ AttachEnable(d)
  \/ AttachHold(d) \/ AttachMount(d)
  \/ UndoHold(d) \/ UndoLoad(d) \/ UndoCount(d)

Detach(d) ==
  DetachUnmount(d) \/ DetachFree(d) \/ DetachLoad(d) \/ DetachCount(d)

Module ==
  ModuleLoad \/ ModuleLoadFails \/ UnloadDestroyClass \/ UnloadUnregister \/ UnloadDone

(* After undefined behaviour nothing more is claimed of the machine.       *)
Halted == undefined /\ UNCHANGED vars

Next ==
  \/ ~undefined /\ (Module \/ \E d \in Devices : Attach(d) \/ Detach(d))
  \/ Halted

Spec == Init /\ [][Next]_vars

-----------------------------------------------------------------------------
(* Properties *)

TypeOK ==
  /\ phase \in {"absent", "loaded", "unloading", "draining"}
  /\ dev_class \in {"none", "live", "errptr", "destroyed"}
  /\ dev_attach_counter \in Int
  /\ driver_contexts \in [Slots -> Context]
  /\ drvdata \in [Devices -> Int \cup {NULL}]
  /\ pc \in [Devices -> AtRest \cup Attaching \cup Detaching]
  /\ loaded \in [Devices -> Int]
  /\ held \subseteq Devices
  /\ mapped \subseteq Slots \X Devices
  /\ cdevs \subseteq Slots
  /\ node \in Slots \cup {NULL}
  /\ undefined \in BOOLEAN
  /\ slips \subseteq SlipKinds

(* No device's callback has begun during another's, no device has been     *)
(* detached before one attached later, none after its attach gave up.      *)
Orderly == slips = {}

(* No two devices work on one context: the index taken from the counter is *)
(* never that of a context in use (pcidev.c:282), until the first slip.    *)
ExclusiveContext ==
  Orderly => \A d, e \in Users : d # e => drvdata[d] # drvdata[e]

(* The order of the detaches alone can make two devices share a context:   *)
(* what ExclusiveContext needs of it, stated for calls that come one at a  *)
(* time and a PCI core that never detaches after a failed attach.          *)
ExclusiveInAnyOrder ==
  slips \subseteq {"order"} => \A d, e \in Users : d # e => drvdata[d] # drvdata[e]

(* Until a callback overlaps another or a device whose attach gave up is   *)
(* detached, the counter is what its name says: the devices whose attach   *)
(* has passed its ++ and not yet a --, whatever failed on the way and in   *)
(* whatever order devices go (pcidev.c:274, 312, 333).                     *)
CounterIsAttached ==
  slips \subseteq {"order"} => dev_attach_counter = Cardinality(Counted)

(* An attached device whose memory was mapped finds in its context its own *)
(* live mapping, workers that point into it, its own regions and its own   *)
(* registered cdev, whatever was attached and detached until the first     *)
(* slip.                                                                   *)
ContextServesDevice ==
  Orderly =>
    \A d \in Attached :
      LET ctx == driver_contexts[drvdata[d]]
      IN  /\ ctx.pci_dev = d
          /\ drvdata[d] \in cdevs
          /\ ctx.base # NULL => /\ d \in held /\ <<drvdata[d], d>> \in mapped
                                /\ ctx.base = d /\ ctx.buffers = d /\ ctx.workers = d

(* What an attach acquired its undo or the detach gives back: a device at  *)
(* rest that is not attached holds no region and no mapping, and a cdev    *)
(* that is registered belongs to an attached device, until the first slip. *)
NothingLeftBehind ==
  Orderly =>
    /\ \A d \in Devices : pc[d] \in {"unbound", "failed"} =>
         d \notin held /\ \A c \in Slots : <<c, d>> \notin mapped
    /\ undefined \/ cdevs \subseteq {drvdata[d] : d \in Attached}

(* Until the first slip, while a device is attached under a usable class   *)
(* there is a /dev/ssxa-pci to reach one by, as the log line at            *)
(* pcidev.c:233 says.                                                      *)
NodeWhileAttached ==
  Orderly /\ Attached # {} /\ dev_class = "live" => node # NULL

(* Until the first slip the driver leaves defined behaviour in three ways  *)
(* only, whatever fails: a detach with a class that could not be made or   *)
(* is destroyed (pcidev.c:240, 389, 419); an attach that comes between the *)
(* two calls of module_unload (line 232); and the attach that the > of     *)
(* line 270 lets in when all MAX_DEVICE contexts have their device, which  *)
(* writes behind the table.                                                *)
ClassGone(d) ==
  \/ pc[d] = "d_free" /\ dev_class # "live"
  \/ pc[d] = "bound" /\ dev_class = "destroyed"

OneTooMany(d) ==
  /\ pc[d] = "a_hold" /\ drvdata[d] = MAX_DEVICE
  /\ Cardinality(Attached) = MAX_DEVICE

DefinedButFor ==
  Orderly /\ undefined => \E d \in Devices : ClassGone(d) \/ OneTooMany(d)

(* The counter and the number of devices counted part, or meet again, only *)
(* when a device whose attach returned 0 is detached all the same, or when *)
(* a ++ or -- stores over the update of another callback (pcidev.c:274,    *)
(* 312, 315, 333): no failure and no order of calls does it otherwise.     *)
Drift == dev_attach_counter - Cardinality(Counted)

FailedDetached == \E d \in Devices : pc[d] = "failed" /\ pc'[d] = "d_free"

UpdateLost == \E d \in Devices : /\ pc[d] \in {"a_count", "a_put", "d_put"} /\ pc'[d] # pc[d]
                                /\ loaded[d] # dev_attach_counter

DriftHasACause == [][Drift' = Drift \/ phase = "absent" \/ FailedDetached \/ UpdateLost]_vars

(* hold_pci_resources returns 0 only when the regions are reserved and the *)
(* memory is mapped: "return 0 success,others fail" (pcidev.c:103).        *)
HoldZeroMeansHeld ==
  \A d \in Devices :
    pc[d] = "a_mount" => d \in held /\ driver_contexts[drvdata[d]].base = d

(* Each device in use owns one entry of an abstract table.                 *)
Owner == [i \in Slots |-> IF \E d \in Users : drvdata[d] = i
                          THEN CHOOSE d \in Users : drvdata[d] = i
                          ELSE NULL]

Table == INSTANCE ContextTable WITH owner <- Owner, served <- Attached

(* The driver implements the table for as long as it is called in order:   *)
(* every step up to the first slip claims a free entry, serves, withdraws  *)
(* or releases an owned one, or leaves the table alone.                    *)
ImplementsTable ==
  Table!Init /\ [][Orderly' => Table!Next \/ UNCHANGED Table!vars]_vars

=============================================================================
