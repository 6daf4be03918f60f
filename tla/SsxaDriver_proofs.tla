-------------------------- MODULE SsxaDriver_proofs --------------------------
(***************************************************************************)
(* Proofs about SsxaDriver, for every number of devices and every length   *)
(* of the table of contexts.                                               *)
(***************************************************************************)
EXTENDS SsxaDriver, TLAPS, FiniteSetTheorems

(* While behaviour is defined, drvdata never points outside the table, and *)
(* a callback that uses its context has one.                               *)
DrvdataInTable ==
  ~undefined => \A d \in Devices : /\ drvdata[d] \in Slots \cup {NULL}
                                   /\ d \in Users => drvdata[d] \in Slots

TypeInv == TypeOK /\ DrvdataInTable

(* The table init_driver_contexts makes is a table of contexts.            *)
LEMMA BlankTable == init_driver_contexts \in [Slots -> Context]
<1>1. BlankContext \in Context BY DEF BlankContext, Context, DevOrNull
<1>2. QED BY <1>1 DEF init_driver_contexts

Fields == {"pci_dev", "base", "buffers", "workers"}

(* Storing a device or a null in a field of a context leaves a table.      *)
LEMMA StoreType ==
  ASSUME NEW t \in [Slots -> Context], NEW c, NEW f \in Fields, NEW v \in DevOrNull
  PROVE  Store(t, c, f, v) \in [Slots -> Context]
<1>1. ASSUME NEW x \in Context PROVE [x EXCEPT ![f] = v] \in Context
      BY DEF Context, Fields
<1>2. CASE c \in Slots
      BY <1>1, <1>2 DEF Store
<1>3. CASE c \notin Slots
      BY <1>3 DEF Store
<1>4. QED BY <1>2, <1>3

THEOREM TypeInvInit == Init => TypeInv
<1> SUFFICES ASSUME Init PROVE TypeInv
    OBVIOUS
<1>1. driver_contexts \in [Slots -> Context]
      BY BlankTable DEF Init
<1>2. pc \in [Devices -> AtRest]
      BY DEF Init, AtRest
<1>3. DrvdataInTable
      BY DEF Init, DrvdataInTable, Users
<1>4. /\ dev_attach_counter \in Int /\ loaded \in [Devices -> Int]
      /\ drvdata \in [Devices -> Int \cup {NULL}] /\ slips \subseteq SlipKinds
      BY DEF Init
<1>5. QED BY <1>1, <1>2, <1>3, <1>4 DEF Init, TypeInv, TypeOK

(* Slips are only ever added.                                              *)
LEMMA SlipsGrow == [Next]_vars => slips \subseteq slips'
BY DEF Next, vars, Halted, Module, ModuleLoad, ModuleLoadFails, UnloadDestroyClass,
   UnloadUnregister, UnloadDone, Attach, AttachRefused, AttachCalled, AttachTest, AttachLoad,
   AttachCount, AttachEnable, AttachHold, AttachMount, UndoHold, UndoLoad, UndoCount,
   Detach, DetachUnmount, DetachFree, DetachLoad, DetachCount, Slip

THEOREM TypeInvStep == TypeInv /\ [Next]_vars => TypeInv'
<1> SUFFICES ASSUME TypeInv, [Next]_vars PROVE TypeInv'
    OBVIOUS
<1> USE DriverAssumption DEF TypeInv, TypeOK, DrvdataInTable, Users, Slots
<1>1. CASE UNCHANGED vars
      BY <1>1 DEF vars, module, kernel
<1>2. CASE ~undefined /\ Module
  <2>1. driver_contexts' \in [Slots -> Context]
        BY <1>2, BlankTable DEF Module, ModuleLoad, ModuleLoadFails, UnloadDestroyClass,
           UnloadUnregister, UnloadDone
  <2>2. dev_class' \in {"none", "live", "errptr", "destroyed"}
        BY <1>2 DEF Module, ModuleLoad, ModuleLoadFails, UnloadDestroyClass, UnloadUnregister,
           UnloadDone, ClassCreated
  <2>3. /\ pc' = pc /\ drvdata' = drvdata /\ loaded' = loaded /\ undefined' = undefined
        /\ slips' = slips
        BY <1>2 DEF Module, ModuleLoad, ModuleLoadFails, UnloadDestroyClass, UnloadUnregister,
           UnloadDone
  <2>4. UNCHANGED kernel
        BY <1>2 DEF Module, ModuleLoad, ModuleLoadFails, UnloadDestroyClass, UnloadUnregister,
           UnloadDone
  <2>5. /\ phase' \in {"absent", "loaded", "unloading", "draining"}
        /\ dev_attach_counter' \in Int
        BY <1>2 DEF Module, ModuleLoad, ModuleLoadFails, UnloadDestroyClass, UnloadUnregister,
           UnloadDone
  <2>6. QED BY <2>1, <2>2, <2>3, <2>4, <2>5 DEF kernel
<1>3. ASSUME NEW d \in Devices, ~undefined, Attach(d) PROVE TypeInv'
  <2> USE <1>3
  <2>1. CASE AttachRefused(d)
        BY <2>1 DEF AttachRefused, AttachCalled, Slip, module, kernel, AtRest
  <2>2. CASE AttachTest(d)
        BY <2>2 DEF AttachTest, AttachCalled, Slip, module, kernel, Attaching
  <2>11. CASE AttachLoad(d)
        BY <2>11 DEF AttachLoad, module, kernel, Attaching
  <2>3. CASE AttachCount(d)
        BY <2>3 DEF AttachCount, module, kernel, Attaching
  <2>4. CASE AttachEnable(d)
    <3>1. Store(driver_contexts, ContextIndex, "pci_dev", d) \in [Slots -> Context]
          BY StoreType DEF Fields, DevOrNull
    <3>2. CASE pc' = [pc EXCEPT ![d] = "a_dec"] /\ UNCHANGED <<drvdata, driver_contexts, undefined>>
          BY <2>4, <3>2 DEF AttachEnable, module, kernel, Attaching
    <3>3. CASE /\ drvdata' = [drvdata EXCEPT ![d] = ContextIndex]
               /\ driver_contexts' = IF ContextIndex \in Slots
                                     THEN Store(driver_contexts, ContextIndex, "pci_dev", d)
                                     ELSE driver_contexts
               /\ undefined' = (ContextIndex \notin Slots)
               /\ pc' = [pc EXCEPT ![d] = "a_hold"]
      <4>1. undefined' \in BOOLEAN /\ (undefined' <=> ContextIndex \notin Slots)
            BY <3>3
      <4>2. driver_contexts' \in [Slots -> Context]
            BY <3>1, <3>3
      <4>3. pc' = [pc EXCEPT ![d] = "a_hold"] /\ drvdata' = [drvdata EXCEPT ![d] = ContextIndex]
            BY <3>3
      <4>4. UNCHANGED <<module, dev_attach_counter, loaded, kernel, slips>>
            BY <2>4 DEF AttachEnable
      <4>5. QED BY <4>1, <4>2, <4>3, <4>4 DEF ContextIndex, module, kernel, Attaching
    <3>4. QED BY <2>4, <3>2, <3>3 DEF AttachEnable
  <2>5. CASE AttachHold(d)
    <3>1. Store(driver_contexts, drvdata[d], "base", NULL) \in [Slots -> Context]
          BY StoreType DEF Fields, DevOrNull
    <3>2. Store(driver_contexts, drvdata[d], "base", d) \in [Slots -> Context]
          BY StoreType DEF Fields, DevOrNull
    <3>3. Store(Store(driver_contexts, drvdata[d], "base", d), drvdata[d], "buffers", d)
            \in [Slots -> Context]
          BY StoreType, <3>2 DEF Fields, DevOrNull
    <3>4. driver_contexts' \in [Slots -> Context]
          BY <2>5, <3>1, <3>3 DEF AttachHold, HoldSucceeds, HoldUnmapped
    <3>5. drvdata[d] \in Slots
          BY <2>5 DEF AttachHold
    <3>6. mapped' \subseteq Slots \X Devices
          BY <2>5, <3>5 DEF AttachHold, HoldSucceeds, HoldUnmapped
    <3>7. QED BY <2>5, <3>4, <3>6 DEF AttachHold, HoldSucceeds, HoldUnmapped, module, Attaching
  <2>6. CASE AttachMount(d)
    <3>1. drvdata[d] \in Slots /\ driver_contexts[drvdata[d]].buffers \in DevOrNull
          BY <2>6 DEF AttachMount, Context
    <3>2. Store(driver_contexts, drvdata[d], "workers", driver_contexts[drvdata[d]].buffers)
            \in [Slots -> Context]
          BY <3>1, StoreType DEF Fields
    <3>3. driver_contexts' \in [Slots -> Context]
          BY <2>6, <3>2 DEF AttachMount
    <3>u. undefined' = (drvdata[d] \in cdevs)
            \/ undefined' = (drvdata[d] \in cdevs \/ dev_class = "destroyed")
          BY <2>6 DEF AttachMount
    <3>4. undefined' \in BOOLEAN /\ node' \in Slots \cup {NULL} /\ cdevs' \subseteq Slots
      <4>1. undefined' \in BOOLEAN
        <5>1. CASE undefined' = (drvdata[d] \in cdevs)
              BY ONLY <5>1
        <5>2. CASE undefined' = (drvdata[d] \in cdevs \/ dev_class = "destroyed")
              BY ONLY <5>2
        <5>3. QED BY <3>u, <5>1, <5>2
      <4>2. node' \in Slots \cup {NULL} /\ cdevs' \subseteq Slots
            BY <2>6, <3>1 DEF AttachMount, DeviceCreate
      <4>3. QED BY <4>1, <4>2
    <3>5. QED BY <2>6, <3>1, <3>3, <3>4 DEF AttachMount, module, Attaching, AtRest
  <2>7. CASE UndoHold(d)
        BY <2>7 DEF UndoHold, FreeResources, module, kernel, Attaching
  <2>8. CASE UndoLoad(d)
        BY <2>8 DEF UndoLoad, module, kernel, Attaching
  <2>9. CASE UndoCount(d)
        BY <2>9 DEF UndoCount, module, kernel, AtRest
  <2>10. QED BY <2>1, <2>2, <2>3, <2>4, <2>5, <2>6, <2>7, <2>8, <2>9, <2>11 DEF Attach
<1>4. ASSUME NEW d \in Devices, ~undefined, Detach(d) PROVE TypeInv'
  <2> USE <1>4
  <2>1. CASE DetachUnmount(d)
        BY <2>1 DEF DetachUnmount, DeviceDestroy, Slip, module, kernel, Detaching
  <2>2. CASE DetachFree(d)
        BY <2>2 DEF DetachFree, FreeResources, module, kernel, Detaching
  <2>3. CASE DetachLoad(d)
        BY <2>3 DEF DetachLoad, module, kernel, Detaching
  <2>4. CASE DetachCount(d)
        BY <2>4 DEF DetachCount, module, kernel, AtRest
  <2>5. QED BY <2>1, <2>2, <2>3, <2>4 DEF Detach
<1>5. QED BY <1>1, <1>2, <1>3, <1>4 DEF Next, Halted

THEOREM TypeCorrect == Spec => []TypeOK
<1>1. TypeInv => TypeOK BY DEF TypeInv
<1>2. QED BY TypeInvInit, TypeInvStep, <1>1, PTL DEF Spec

-----------------------------------------------------------------------------
(* While callbacks do not overlap: at most one device is in a callback, a  *)
(* running ++ or -- has read the counter's present value, and a module     *)
(* that is not loaded has no device.                                       *)
SoloInv ==
  /\ phase = "absent" => \A d \in Devices : pc[d] = "unbound"
  /\ \A d, e \in Devices : pc[d] \notin AtRest /\ pc[e] \notin AtRest => d = e
  /\ \A d \in Devices :
       pc[d] \in {"a_count", "a_put", "d_put"} => loaded[d] = dev_attach_counter

LEMMA SoloInit == Init => SoloInv
BY DEF Init, SoloInv, AtRest

(* A callback that begins without a slip begins alone.                     *)
LEMMA BeginsAlone ==
  ASSUME "overlap" \notin slips', NEW d \in Devices,
         AttachCalled(d) \/ DetachUnmount(d)
  PROVE  \A e \in Devices : pc[e] \in AtRest
BY DEF AttachCalled, DetachUnmount, Slip, Overlapping

LEMMA SoloStep == "overlap" \notin slips' /\ TypeOK /\ SoloInv /\ [Next]_vars => SoloInv'
<1> SUFFICES ASSUME "overlap" \notin slips', TypeOK, SoloInv, [Next]_vars PROVE SoloInv'
    OBVIOUS
<1> USE DEF SoloInv, TypeOK, AtRest
<1>1. CASE UNCHANGED vars
      BY <1>1 DEF vars, module
<1>2. CASE Module
      BY <1>2 DEF Module, ModuleLoad, ModuleLoadFails, UnloadDestroyClass, UnloadUnregister,
         UnloadDone
<1>3. ASSUME NEW d \in Devices, Attach(d) PROVE SoloInv'
  <2>1. CASE AttachRefused(d)
        BY <2>1, BeginsAlone DEF AttachRefused, AttachCalled, module
  <2>2. CASE AttachTest(d)
        BY <2>2, BeginsAlone DEF AttachTest, AttachCalled, module
  <2>11. CASE AttachLoad(d)
        BY <2>11 DEF AttachLoad, module
  <2>3. CASE AttachCount(d)
        BY <2>3 DEF AttachCount, module
  <2>4. CASE AttachEnable(d)
        BY <2>4 DEF AttachEnable, module
  <2>5. CASE AttachHold(d)
        BY <2>5 DEF AttachHold, module
  <2>6. CASE AttachMount(d)
        BY <2>6 DEF AttachMount, module
  <2>7. CASE UndoHold(d)
        BY <2>7 DEF UndoHold, module
  <2>8. CASE UndoLoad(d)
        BY <2>8 DEF UndoLoad, module
  <2>9. CASE UndoCount(d)
        BY <2>9 DEF UndoCount, module
  <2>10. QED BY <1>3, <2>1, <2>2, <2>3, <2>4, <2>5, <2>6, <2>7, <2>8, <2>9, <2>11 DEF Attach
<1>4. ASSUME NEW d \in Devices, Detach(d) PROVE SoloInv'
  <2>1. CASE DetachUnmount(d)
        BY <2>1, BeginsAlone DEF DetachUnmount, module
  <2>2. CASE DetachFree(d)
        BY <2>2 DEF DetachFree, module
  <2>3. CASE DetachLoad(d)
        BY <2>3 DEF DetachLoad, module
  <2>4. CASE DetachCount(d)
        BY <2>4 DEF DetachCount, module
  <2>5. QED BY <1>4, <2>1, <2>2, <2>3, <2>4 DEF Detach
<1>5. QED BY <1>1, <1>2, <1>3, <1>4 DEF Next, Halted

SoloWhile == "overlap" \notin slips => SoloInv

LEMMA SoloAlways == Spec => []SoloWhile
<1>1. Init => SoloWhile
      BY SoloInit DEF SoloWhile
<1>2. TypeOK /\ SoloWhile /\ [Next]_vars => SoloWhile'
  <2> SUFFICES ASSUME TypeOK, SoloWhile, [Next]_vars, "overlap" \notin slips' PROVE SoloInv'
      BY DEF SoloWhile
  <2>1. "overlap" \notin slips
        BY SlipsGrow
  <2>2. QED BY <2>1, SoloStep DEF SoloWhile
<1>3. QED BY <1>1, <1>2, TypeCorrect, PTL DEF Spec

-----------------------------------------------------------------------------
(* The counter's ceiling, while callbacks do not overlap: a ++ stores one  *)
(* more than a value that passed the test, a -- one less than the value    *)
(* the counter has.                                                        *)
CeilingInv ==
  /\ dev_attach_counter <= MAX_DEVICE + 1
  /\ \A d \in Devices : pc[d] \in {"a_load", "a_count"} => dev_attach_counter <= MAX_DEVICE

LEMMA CeilingStep ==
  ASSUME TypeOK, SoloInv, SoloInv', CeilingInv, [Next]_vars
  PROVE  CeilingInv'
<1> USE DriverAssumption DEF CeilingInv, TypeOK, SoloInv
<1>1. CASE UNCHANGED vars
      BY <1>1 DEF vars
<1>2. CASE Module
  <2>1. UNCHANGED <<pc, loaded>> /\ dev_attach_counter' \in {0, dev_attach_counter}
        BY <1>2 DEF Module, ModuleLoad, ModuleLoadFails, UnloadDestroyClass, UnloadUnregister,
           UnloadDone
  <2>2. QED BY <2>1
<1>3. ASSUME NEW d \in Devices, Attach(d) PROVE CeilingInv'
  <2>1. CASE AttachRefused(d) \/ UndoHold(d) \/ AttachEnable(d) \/ AttachHold(d) \/ AttachMount(d)
             \/ UndoLoad(d)
    <3>1. UNCHANGED dev_attach_counter
          BY <2>1 DEF AttachRefused, UndoHold, AttachEnable, AttachHold, AttachMount, UndoLoad
    <3>2. \A e \in Devices : pc'[e] \in {"a_load", "a_count"} => pc[e] \in {"a_load", "a_count"}
          BY <2>1 DEF AttachRefused, UndoHold, AttachEnable, AttachHold, AttachMount, UndoLoad
    <3>3. QED BY <3>1, <3>2
  <2>2. CASE AttachTest(d) \/ AttachLoad(d)
        BY <2>2 DEF AttachTest, AttachLoad, TooMany
  <2>3. CASE AttachCount(d)
    <3>1. dev_attach_counter <= MAX_DEVICE /\ dev_attach_counter' = dev_attach_counter + 1
            /\ pc' = [pc EXCEPT ![d] = "a_enable"]
          BY <2>3 DEF AttachCount
    <3>2. \A e \in Devices : pc'[e] \notin {"a_load", "a_count"}
          BY <2>3, <3>1 DEF AttachCount, AtRest
    <3>3. QED BY <3>1, <3>2
  <2>5. CASE UndoCount(d)
        BY <2>5 DEF UndoCount
  <2>6. QED BY <1>3, <2>1, <2>2, <2>3, <2>5 DEF Attach
<1>4. ASSUME NEW d \in Devices, Detach(d) PROVE CeilingInv'
  <2>1. CASE DetachUnmount(d) \/ DetachFree(d) \/ DetachLoad(d)
    <3>1. UNCHANGED dev_attach_counter
          BY <2>1 DEF DetachUnmount, DetachFree, DetachLoad
    <3>2. \A e \in Devices : pc'[e] \in {"a_load", "a_count"} => pc[e] \in {"a_load", "a_count"}
          BY <2>1 DEF DetachUnmount, DetachFree, DetachLoad
    <3>3. QED BY <3>1, <3>2
  <2>3. CASE DetachCount(d)
        BY <2>3 DEF DetachCount
  <2>4. QED BY <1>4, <2>1, <2>3 DEF Detach
<1>5. QED BY <1>1, <1>2, <1>3, <1>4 DEF Next, Halted

-----------------------------------------------------------------------------
LEMMA CountedFinite == IsFiniteSet(Counted) /\ Cardinality(Counted) \in Nat
BY DevicesFinite, FS_Subset, FS_CardinalityType DEF Counted

(* A device that is counted, or uncounted, with the counter: no drift.     *)
LEMMA CountedStep ==
  ASSUME TypeOK, NEW d \in Devices
  PROVE  /\ d \notin Counted /\ Counted' = Counted \cup {d} /\ dev_attach_counter' = dev_attach_counter + 1
            => Drift' = Drift
         /\ d \in Counted /\ Counted' = Counted \ {d} /\ dev_attach_counter' = dev_attach_counter - 1
            => Drift' = Drift
<1> DEFINE n == Cardinality(Counted)
           m == Cardinality(Counted')
<1>1. n \in Nat /\ dev_attach_counter \in Int
      BY CountedFinite DEF TypeOK
<1>2. ASSUME d \notin Counted, Counted' = Counted \cup {d} PROVE m = n + 1
      BY <1>2, CountedFinite, FS_AddElement, Zenon
<1>3. ASSUME d \in Counted, Counted' = Counted \ {d} PROVE m = n - 1
      BY <1>3, CountedFinite, FS_RemoveElement, Zenon
<1>4. Drift = dev_attach_counter - n /\ Drift' = dev_attach_counter' - m
      BY DEF Drift
<1> HIDE DEF n, m
<1>5. QED BY <1>1, <1>2, <1>3, <1>4

DriftStep ==
  Drift' = Drift \/ phase = "absent" \/ FailedDetached \/ UpdateLost

LEMMA DriftKept == TypeOK /\ [Next]_vars => DriftStep
<1> SUFFICES ASSUME TypeOK, [Next]_vars PROVE DriftStep
    OBVIOUS
<1>u. UNCHANGED <<Counted, dev_attach_counter>> => DriftStep
      BY CountedFinite DEF TypeOK, Drift, DriftStep
<1>1. CASE UNCHANGED vars
      BY <1>1, <1>u DEF vars, Counted
<1>2. CASE Module
  <2>1. UNCHANGED pc /\ (phase = "absent" \/ UNCHANGED dev_attach_counter)
        BY <1>2 DEF Module, ModuleLoad, ModuleLoadFails, UnloadDestroyClass, UnloadUnregister,
           UnloadDone
  <2>2. QED BY <2>1, <1>u DEF Counted, DriftStep
<1>3. ASSUME NEW d \in Devices, Attach(d) PROVE DriftStep
  <2> USE DEF TypeOK, Counted
  <2>1. CASE AttachRefused(d)
        BY <2>1, <1>u DEF AttachRefused, AttachCalled
  <2>2. CASE AttachTest(d)
        BY <2>2, <1>u DEF AttachTest, AttachCalled
  <2>11. CASE AttachLoad(d)
        BY <2>11, <1>u DEF AttachLoad
  <2>3. CASE AttachCount(d)
    <3>1. d \notin Counted /\ Counted' = Counted \cup {d}
          BY <2>3 DEF AttachCount
    <3>2. CASE loaded[d] = dev_attach_counter
      <4>1. dev_attach_counter' = dev_attach_counter + 1
            BY <2>3, <3>2 DEF AttachCount
      <4>2. QED BY <3>1, <4>1, CountedStep DEF DriftStep
    <3>3. CASE loaded[d] # dev_attach_counter
          BY <2>3, <3>3 DEF AttachCount, DriftStep, UpdateLost
    <3>4. QED BY <3>2, <3>3
  <2>4. CASE AttachEnable(d)
        BY <2>4, <1>u DEF AttachEnable
  <2>5. CASE AttachHold(d)
        BY <2>5, <1>u DEF AttachHold
  <2>6. CASE AttachMount(d)
        BY <2>6, <1>u DEF AttachMount
  <2>7. CASE UndoHold(d)
        BY <2>7, <1>u DEF UndoHold
  <2>8. CASE UndoLoad(d)
        BY <2>8, <1>u DEF UndoLoad
  <2>9. CASE UndoCount(d)
    <3>1. d \in Counted /\ Counted' = Counted \ {d}
          BY <2>9 DEF UndoCount
    <3>2. CASE loaded[d] = dev_attach_counter
      <4>1. dev_attach_counter' = dev_attach_counter - 1
            BY <2>9, <3>2 DEF UndoCount
      <4>2. QED BY <3>1, <4>1, CountedStep DEF DriftStep
    <3>3. CASE loaded[d] # dev_attach_counter
          BY <2>9, <3>3 DEF UndoCount, DriftStep, UpdateLost
    <3>4. QED BY <3>2, <3>3
  <2>10. QED BY <1>3, <2>1, <2>2, <2>3, <2>4, <2>5, <2>6, <2>7, <2>8, <2>9, <2>11 DEF Attach
<1>4. ASSUME NEW d \in Devices, Detach(d) PROVE DriftStep
  <2> USE DEF TypeOK, Counted
  <2>1. CASE DetachUnmount(d) /\ pc[d] = "failed"
        BY <2>1 DEF DetachUnmount, DriftStep, FailedDetached
  <2>2. CASE DetachUnmount(d) /\ pc[d] = "bound"
        BY <2>2, <1>u DEF DetachUnmount
  <2>3. CASE DetachFree(d)
        BY <2>3, <1>u DEF DetachFree
  <2>4. CASE DetachLoad(d)
        BY <2>4, <1>u DEF DetachLoad
  <2>5. CASE DetachCount(d)
    <3>1. d \in Counted /\ Counted' = Counted \ {d}
          BY <2>5 DEF DetachCount
    <3>2. CASE loaded[d] = dev_attach_counter
      <4>1. dev_attach_counter' = dev_attach_counter - 1
            BY <2>5, <3>2 DEF DetachCount
      <4>2. QED BY <3>1, <4>1, CountedStep DEF DriftStep
    <3>3. CASE loaded[d] # dev_attach_counter
          BY <2>5, <3>3 DEF DetachCount, DriftStep, UpdateLost
    <3>4. QED BY <3>2, <3>3
  <2>6. QED BY <1>4, <2>1, <2>2, <2>3, <2>4, <2>5 DEF Detach, DetachUnmount
<1>5. QED BY <1>1, <1>2, <1>3, <1>4 DEF Next, Halted

(* However callbacks interleave and whatever fails in the kernel, the      *)
(* counter and the number of devices counted part only when a device whose *)
(* attach returned 0 is detached all the same, or an update is lost.       *)
THEOREM DriftIsExplained == Spec => DriftHasACause
BY TypeCorrect, DriftKept, PTL DEF Spec, DriftHasACause, DriftStep

-----------------------------------------------------------------------------
(* While callbacks do not overlap and no device is detached after its      *)
(* attach gave up, the counter is exact.                                   *)
ExactInv == dev_attach_counter = Cardinality(Counted)

LEMMA ExactInit == Init => ExactInv
<1> SUFFICES ASSUME Init PROVE ExactInv
    OBVIOUS
<1>1. Counted = {}
      BY DEF Init, Counted
<1>2. QED BY <1>1, FS_EmptySet DEF Init, ExactInv

(* A detach that does not slip is that of an attached device.              *)
LEMMA DetachesAttached ==
  ASSUME "failed" \notin slips', NEW d \in Devices, DetachUnmount(d)
  PROVE  pc[d] = "bound"
BY DEF DetachUnmount, Slip, OutOfTurn

LEMMA NoneFailedDetached ==
  ASSUME "failed" \notin slips', TypeOK, [Next]_vars
  PROVE  ~FailedDetached
<1> SUFFICES ASSUME NEW e \in Devices, pc[e] = "failed", pc'[e] = "d_free" PROVE FALSE
    BY DEF FailedDetached
<1> USE DEF TypeOK
<1>1. CASE UNCHANGED vars \/ Module
      BY <1>1 DEF vars, Module, ModuleLoad, ModuleLoadFails, UnloadDestroyClass,
         UnloadUnregister, UnloadDone
<1>2. ASSUME NEW d \in Devices, Attach(d) PROVE FALSE
      BY <1>2 DEF Attach, AttachRefused, AttachTest, AttachLoad, AttachCount, AttachEnable,
         AttachHold, AttachMount, UndoHold, UndoLoad, UndoCount
<1>3. ASSUME NEW d \in Devices, Detach(d) PROVE FALSE
      BY <1>3, DetachesAttached DEF Detach, DetachUnmount, DetachFree, DetachLoad, DetachCount
<1>4. QED BY <1>1, <1>2, <1>3 DEF Next, Halted

LEMMA ExactStep ==
  ASSUME "failed" \notin slips', TypeOK, TypeOK', SoloInv, ExactInv, [Next]_vars
  PROVE  ExactInv'
<1> DEFINE n == Cardinality(Counted)
           m == Cardinality(Counted')
<1>0. n \in Nat /\ m \in Nat /\ dev_attach_counter \in Int /\ dev_attach_counter' \in Int
      BY DevicesFinite, FS_Subset, FS_CardinalityType DEF Counted, TypeOK
<1>c. /\ dev_attach_counter = n
      /\ dev_attach_counter' = m => ExactInv'
      /\ Drift = dev_attach_counter - n
      /\ Drift' = dev_attach_counter' - m
      BY DEF ExactInv, Drift
<1>e. Counted = {} /\ Counted' = {} => n = 0 /\ m = 0
      BY FS_EmptySet
<1> HIDE DEF n, m
<1>1. ASSUME phase = "absent" PROVE ExactInv'
  <2>1. \A d \in Devices : pc[d] = "unbound"
        BY <1>1 DEF SoloInv
  <2>2. UNCHANGED pc /\ dev_attach_counter' \in {0, dev_attach_counter}
        BY <1>1, <2>1 DEF vars, Next, Halted, Module, ModuleLoad, ModuleLoadFails,
           UnloadDestroyClass, UnloadUnregister, UnloadDone,
           Attach, AttachRefused, AttachCalled, AttachTest, AttachLoad, AttachCount,
           AttachEnable, AttachHold, AttachMount, UndoHold, UndoLoad, UndoCount,
           Detach, DetachUnmount, DetachFree, DetachLoad, DetachCount
  <2>3. n = 0 /\ m = 0
        BY <2>1, <2>2, <1>e DEF Counted
  <2>4. QED BY <2>2, <2>3, <1>c
<1>2. ASSUME phase # "absent" PROVE ExactInv'
  <2>1. Drift' = Drift
        BY <1>2, DriftKept, NoneFailedDetached DEF DriftStep, UpdateLost, SoloInv
  <2>2. PICK c \in Int : c = dev_attach_counter'
        BY <1>0
  <2>3. c - m = dev_attach_counter - n /\ dev_attach_counter = n
        BY <1>c, <2>1, <2>2
  <2>4. c = m
        BY <1>0, <2>3
  <2>5. QED BY <1>c, <2>2, <2>4
<1>3. QED BY <1>1, <1>2

(* While callbacks do not overlap and no device is detached after its      *)
(* attach gave up, the counter is the number of devices whose attach has   *)
(* counted itself, whatever fails on the way and in whatever order devices *)
(* go, for any number of devices and contexts.                             *)
THEOREM CounterExact == Spec => []CounterIsAttached
<1>1. Init => CounterIsAttached
      BY ExactInit DEF ExactInv, CounterIsAttached
<1>2. TypeOK /\ TypeOK' /\ SoloWhile /\ CounterIsAttached /\ [Next]_vars => CounterIsAttached'
  <2> SUFFICES ASSUME TypeOK, TypeOK', SoloWhile, CounterIsAttached, [Next]_vars,
                      slips' \subseteq {"order"}
               PROVE  ExactInv'
      BY DEF CounterIsAttached, ExactInv
  <2>1. slips \subseteq {"order"}
        BY SlipsGrow
  <2>2. QED BY <2>1, ExactStep DEF SoloWhile, CounterIsAttached, ExactInv
<1>3. QED BY <1>1, <1>2, SoloAlways, TypeCorrect, PTL DEF Spec

-----------------------------------------------------------------------------
(* When devices go, besides, in the opposite order to their coming, the    *)
(* contexts in use are a stack: those of the attached devices lie below    *)
(* the one the running callback works on, which is the last the counter    *)
(* stands for.                                                             *)
Flying == {d \in Devices : pc[d] \notin AtRest \cup {"a_load", "a_count"}}

Exclusive == \A d, e \in Users : d # e => drvdata[d] # drvdata[e]

StackInv ==
  /\ \A d \in Users : drvdata[d] \in Int /\ drvdata[d] < dev_attach_counter
  /\ \A d \in Flying : \A e \in Attached : drvdata[e] < dev_attach_counter - 1
  /\ \A d \in Flying \cap Users : \A e \in Attached : drvdata[e] < drvdata[d]
  /\ \A d \in Flying \cap Users : pc[d] # "d_free" => drvdata[d] = dev_attach_counter - 1
  /\ Exclusive

LEMMA StackStep ==
  ASSUME Orderly', TypeOK, SoloInv, SoloInv', StackInv, [Next]_vars
  PROVE  StackInv'
<1> USE DEF StackInv, Exclusive, Flying, Users, Attached, AtRest, TypeOK
<1>1. CASE UNCHANGED vars
      BY <1>1 DEF vars
<1>2. CASE Module
  <2>1. CASE UNCHANGED dev_attach_counter
        BY <1>2, <2>1 DEF Module, ModuleLoad, ModuleLoadFails, UnloadDestroyClass,
           UnloadUnregister, UnloadDone
  <2>2. CASE phase = "absent"
    <3>1. \A d \in Devices : pc'[d] = "unbound"
          BY <1>2, <2>2 DEF SoloInv, Module, ModuleLoad, ModuleLoadFails, UnloadDestroyClass,
             UnloadUnregister, UnloadDone
    <3>2. QED BY <3>1
  <2>3. QED BY <1>2, <2>1, <2>2 DEF Module, ModuleLoad, ModuleLoadFails, UnloadDestroyClass,
            UnloadUnregister, UnloadDone
<1>3. ASSUME NEW d \in Devices, Attach(d) PROVE StackInv'
  <2>1. CASE AttachRefused(d)
        BY <2>1 DEF AttachRefused, AttachCalled
  <2>2. CASE AttachTest(d)
        BY <2>2 DEF AttachTest, AttachCalled
  <2>11. CASE AttachLoad(d)
        BY <2>11 DEF AttachLoad
  <2>3. CASE AttachCount(d)
        BY <2>3 DEF AttachCount, SoloInv
  <2>4. CASE AttachEnable(d)
        BY <2>4 DEF AttachEnable, ContextIndex, SoloInv
  <2>5. CASE AttachHold(d)
        BY <2>5 DEF AttachHold, SoloInv
  <2>6. CASE AttachMount(d)
        BY <2>6 DEF AttachMount, SoloInv
  <2>7. CASE UndoHold(d)
        BY <2>7 DEF UndoHold, SoloInv
  <2>8. CASE UndoLoad(d)
        BY <2>8 DEF UndoLoad, SoloInv
  <2>9. CASE UndoCount(d)
        BY <2>9 DEF UndoCount, SoloInv
  <2>10. QED BY <1>3, <2>1, <2>2, <2>3, <2>4, <2>5, <2>6, <2>7, <2>8, <2>9, <2>11 DEF Attach
<1>4. ASSUME NEW d \in Devices, Detach(d) PROVE StackInv'
  <2>1. CASE DetachUnmount(d)
    <3>1. pc[d] = "bound" /\ Newest(d) /\ \A e \in Devices : pc[e] \in AtRest
          BY <2>1, BeginsAlone DEF Orderly, DetachUnmount, Slip, OutOfTurn
    <3>2. pc' = [pc EXCEPT ![d] = "d_free"] /\ UNCHANGED <<dev_attach_counter, drvdata>>
          BY <2>1 DEF DetachUnmount
    <3>3. QED BY <3>1, <3>2 DEF Newest, SoloInv
  <2>2. CASE DetachFree(d)
        BY <2>2 DEF DetachFree, SoloInv
  <2>3. CASE DetachLoad(d)
        BY <2>3 DEF DetachLoad, SoloInv
  <2>4. CASE DetachCount(d)
        BY <2>4 DEF DetachCount, SoloInv
  <2>5. QED BY <1>4, <2>1, <2>2, <2>3, <2>4 DEF Detach
<1>5. QED BY <1>1, <1>2, <1>3, <1>4 DEF Next, Halted

-----------------------------------------------------------------------------
(* What a store does to the table: to the field of the context it is for,  *)
(* and to nothing else.                                                    *)
LEMMA StoreElsewhere ==
  ASSUME NEW t \in [Slots -> Context], NEW c \in Slots, NEW f \in Fields, NEW v,
         NEW i \in Slots, i # c
  PROVE  Store(t, c, f, v)[i] = t[i]
BY DEF Store

LEMMA StoreHere ==
  ASSUME NEW t \in [Slots -> Context], NEW c \in Slots, NEW v
  PROVE  /\ Store(t, c, "pci_dev", v)[c].pci_dev = v
         /\ LET s == Store(t, c, "base", v)[c]
            IN  s.base = v /\ s.pci_dev = t[c].pci_dev
         /\ LET s == Store(t, c, "buffers", v)[c]
            IN  s.buffers = v /\ s.pci_dev = t[c].pci_dev /\ s.base = t[c].base
         /\ LET s == Store(t, c, "workers", v)[c]
            IN  /\ s.workers = v /\ s.pci_dev = t[c].pci_dev
                /\ s.base = t[c].base /\ s.buffers = t[c].buffers
<1>1. t[c] \in Context
      OBVIOUS
<1>2. \A f \in Fields : Store(t, c, f, v)[c] = [t[c] EXCEPT ![f] = v]
      BY DEF Store
<1>3. QED BY <1>1, <1>2 DEF Context, Fields

(* The context a callback works on is its own, and so are the memory and   *)
(* the regions it names; a device no callback holds has neither.           *)
Holding == {"a_mount", "a_free", "bound", "d_free"}

MappedAt(d) == {c \in Slots : <<c, d>> \in mapped}

Serves(d) ==
  LET ctx == driver_contexts[drvdata[d]]
  IN  /\ d \in Users /\ drvdata[d] \in Slots => ctx.pci_dev = d
      /\ pc[d] \notin Holding => d \notin held /\ MappedAt(d) = {}
      /\ pc[d] \in Holding =>
           /\ drvdata[d] \in Slots
           /\ \/ /\ d \in held /\ MappedAt(d) = {drvdata[d]}
                 /\ ctx.base = d /\ ctx.buffers = d
                 /\ pc[d] \in {"bound", "d_free"} => ctx.workers = d
              \/ d \notin held /\ MappedAt(d) = {} /\ ctx.base = NULL

ServesAll == \A d \in Devices : Serves(d)

(* A step that leaves a device, its context and what it holds alone.       *)
LEMMA ServesKept ==
  ASSUME NEW d \in Devices, Serves(d),
         pc'[d] = pc[d], drvdata'[d] = drvdata[d],
         d \in Users => driver_contexts'[drvdata[d]] = driver_contexts[drvdata[d]],
         d \in held' <=> d \in held, MappedAt(d)' = MappedAt(d)
  PROVE  Serves(d)'
BY DEF Serves, Users, Holding

(* A device whose callback has no context, or none any more.               *)
LEMMA ServesNothing ==
  ASSUME NEW d \in Devices, d \notin Users', d \notin held', MappedAt(d)' = {}
  PROVE  Serves(d)'
BY DEF Serves, Users, Holding

(* What reserving, mapping and freeing through a context change.           *)
LEMMA MappingHeld ==
  ASSUME NEW c \in Slots, NEW d \in Devices, HoldSucceeds(c, d), NEW e \in Devices
  PROVE  /\ e = d => e \in held' /\ MappedAt(e)' = MappedAt(e) \cup {c}
         /\ e # d => (e \in held' <=> e \in held) /\ MappedAt(e)' = MappedAt(e)
BY DEF HoldSucceeds, MappedAt

LEMMA MappingFreed ==
  ASSUME TypeOK, ServesAll, NEW d \in Devices, pc[d] \in {"a_free", "d_free"},
         FreeResources(drvdata[d]), NEW e \in Devices
  PROVE  /\ ~undefined'
         /\ e = d => e \notin held' /\ MappedAt(e)' = {}
         /\ e # d => (e \in held' <=> e \in held) /\ MappedAt(e)' = MappedAt(e)
<1> DEFINE c == drvdata[d]
           ctx == driver_contexts[c]
<1>1. Serves(d) /\ d \in Users /\ pc[d] \in Holding
      BY DEF ServesAll, Users, Holding
<1>2. /\ c \in Slots /\ ctx.pci_dev = d
      /\ \/ MappedAt(d) = {c} /\ ctx.base = d
         \/ d \notin held /\ MappedAt(d) = {} /\ ctx.base = NULL
      BY <1>1 DEF Serves
<1>3. /\ mapped' = mapped \ {<<c, ctx.base>>}
      /\ undefined' = (ctx.base # NULL /\ <<c, ctx.base>> \notin mapped)
      /\ held' = held \ {ctx.pci_dev}
      BY DEF FreeResources
<1> HIDE DEF ctx, c
<1>4. ~undefined'
      BY <1>2, <1>3 DEF MappedAt
<1>5. CASE e = d
  <2>1. d \notin held'
        BY <1>2, <1>3
  <2>2. MappedAt(d)' = {}
    <3>1. CASE MappedAt(d) = {c} /\ ctx.base = d
          BY <1>3, <3>1 DEF MappedAt
    <3>2. CASE MappedAt(d) = {}
          BY <1>3, <3>2 DEF MappedAt
    <3>3. QED BY <1>2, <3>1, <3>2
  <2>3. QED BY <1>4, <1>5, <2>1, <2>2
<1>6. CASE e # d
      BY <1>2, <1>3, <1>6, DriverAssumption DEF MappedAt
<1>7. QED BY <1>4, <1>5, <1>6

(* While behaviour is defined every context a callback uses is in the      *)
(* table.                                                                  *)
InTable == \A d \in Users : drvdata[d] \in Slots

LEMMA DefinedInTable == TypeInv /\ ~undefined => InTable
BY DEF TypeInv, DrvdataInTable, InTable, Users

LEMMA ServesAttach ==
  ASSUME TypeOK, InTable, Exclusive, Exclusive', ServesAll, NEW d \in Devices, Attach(d)
  PROVE  ServesAll'
<1> SUFFICES ASSUME NEW e \in Devices PROVE Serves(e)'
    BY DEF ServesAll
<1> USE DEF ServesAll
<1>1. CASE AttachRefused(d) \/ AttachTest(d) \/ AttachLoad(d) \/ AttachCount(d) \/ UndoLoad(d) \/ UndoCount(d)
  <2>1. UNCHANGED <<driver_contexts, held, mapped, drvdata>>
        BY <1>1 DEF AttachRefused, AttachTest, AttachLoad, AttachCount, UndoLoad, UndoCount, kernel
  <2>2. d \notin Users /\ d \notin Users'
        BY <1>1 DEF AttachRefused, AttachCalled, AttachTest, AttachLoad, AttachCount, UndoLoad,
           UndoCount, Users, TypeOK
  <2>3. d \notin held' /\ MappedAt(d)' = {}
        BY <2>1, <2>2 DEF Serves, Users, Holding, MappedAt
  <2>4. e # d => pc'[e] = pc[e]
        BY <1>1 DEF AttachRefused, AttachTest, AttachLoad, AttachCount, UndoLoad, UndoCount, TypeOK
  <2>5. MappedAt(e)' = MappedAt(e)
        BY <2>1 DEF MappedAt
  <2>6. QED BY <2>1, <2>2, <2>3, <2>4, <2>5, ServesKept, ServesNothing
<1>2. CASE AttachEnable(d)
  <2>0. /\ UNCHANGED <<held, mapped>> /\ pc[d] = "a_enable" /\ (e # d => pc'[e] = pc[e])
        /\ MappedAt(e)' = MappedAt(e)
        BY <1>2 DEF AttachEnable, kernel, TypeOK, MappedAt
  <2>n. d \notin held' /\ MappedAt(d)' = {}
        BY <2>0 DEF Serves, Holding, MappedAt
  <2>1. CASE d \notin Users'
    <3>1. UNCHANGED <<driver_contexts, drvdata>>
          BY <1>2, <2>1 DEF AttachEnable, Users, kernel, TypeOK
    <3>2. QED BY <2>0, <2>n, <2>1, <3>1, ServesKept, ServesNothing
  <2>2. CASE d \in Users'
    <3>1. /\ pc' = [pc EXCEPT ![d] = "a_hold"]
          /\ drvdata' = [drvdata EXCEPT ![d] = ContextIndex]
          BY <1>2, <2>2 DEF AttachEnable, Users, kernel, TypeOK
    <3>2. pc'[d] = "a_hold" /\ drvdata'[d] = ContextIndex
          BY <3>1 DEF TypeOK
    <3>3. driver_contexts' = IF ContextIndex \in Slots
                             THEN Store(driver_contexts, ContextIndex, "pci_dev", d)
                             ELSE driver_contexts
          BY <1>2, <2>2, <3>2 DEF AttachEnable, Users, TypeOK
    <3>4. CASE e = d
      <4>2. ContextIndex \in Slots => driver_contexts'[ContextIndex].pci_dev = d
            BY <3>3, StoreHere DEF TypeOK
      <4>3. QED BY <2>n, <3>1, <3>2, <3>4, <4>2 DEF Serves, Holding
    <3>5. CASE e # d
      <4>1. pc'[e] = pc[e] /\ drvdata'[e] = drvdata[e]
            BY <3>1, <3>5 DEF TypeOK
      <4>2. ASSUME e \in Users PROVE driver_contexts'[drvdata[e]] = driver_contexts[drvdata[e]]
        <5>1. drvdata[e] # ContextIndex /\ drvdata[e] \in Slots
              BY <2>2, <3>2, <3>5, <4>1, <4>2 DEF Exclusive, InTable, Users
        <5>2. QED BY <3>3, <5>1, StoreElsewhere DEF TypeOK, Fields
      <4>3. QED BY <2>0, <4>1, <4>2, ServesKept
    <3>6. QED BY <3>4, <3>5
  <2>3. QED BY <2>1, <2>2
<1>3. CASE AttachHold(d)
  <2> DEFINE c == drvdata[d]
  <2>1. d \in Users /\ c \in Slots /\ d \notin held /\ MappedAt(d) = {}
          /\ driver_contexts[c].pci_dev = d
        BY <1>3 DEF AttachHold, Users, InTable, Serves, Holding
  <2>2. UNCHANGED drvdata
        BY <1>3 DEF AttachHold
  <2>3. CASE e # d
    <3>0. pc'[e] = pc[e]
          BY <1>3, <2>3 DEF AttachHold, TypeOK
    <3>u. UNCHANGED <<held, mapped>> => (e \in held' <=> e \in held) /\ MappedAt(e)' = MappedAt(e)
          BY DEF MappedAt
    <3>1. (e \in held' <=> e \in held) /\ MappedAt(e)' = MappedAt(e)
          BY <1>3, <2>1, <2>3, <3>u, MappingHeld DEF AttachHold, HoldUnmapped
    <3>2. ASSUME e \in Users PROVE driver_contexts'[drvdata[e]] = driver_contexts[drvdata[e]]
      <4>1. drvdata[e] # c /\ drvdata[e] \in Slots
            BY <2>1, <2>3, <3>2 DEF Exclusive, InTable
      <4>2. \A t \in [Slots -> Context], v \in DevOrNull :
               /\ Store(t, c, "base", v)[drvdata[e]] = t[drvdata[e]]
               /\ Store(t, c, "buffers", v)[drvdata[e]] = t[drvdata[e]]
            BY <2>1, <4>1, StoreElsewhere DEF Fields
      <4>3. driver_contexts \in [Slots -> Context]
            BY DEF TypeOK
      <4>4. Store(driver_contexts, c, "base", d) \in [Slots -> Context]
            BY <4>3, StoreType DEF Fields, DevOrNull
      <4>5. QED BY <1>3, <4>2, <4>3, <4>4 DEF AttachHold, HoldSucceeds, HoldUnmapped, DevOrNull
    <3>3. QED BY <2>2, <3>0, <3>1, <3>2, ServesKept
  <2>4. CASE e = d
    <3>1. CASE pc' = [pc EXCEPT ![d] = "a_dec"] /\ UNCHANGED <<driver_contexts, held, mapped>>
      <4>1. d \notin Users'
            BY <3>1 DEF Users, TypeOK
      <4>2. MappedAt(d)' = {} /\ d \notin held'
            BY <2>1, <3>1 DEF MappedAt
      <4>3. QED BY <2>4, <4>1, <4>2, ServesNothing
    <3>2. CASE pc' = [pc EXCEPT ![d] = "a_mount"] /\ HoldSucceeds(c, d)
      <4>1. driver_contexts \in [Slots -> Context] /\ pc'[d] = "a_mount"
            BY <3>2 DEF TypeOK
      <4>2. Store(driver_contexts, c, "base", d) \in [Slots -> Context]
            BY <4>1, StoreType DEF Fields, DevOrNull
      <4>3. driver_contexts'[c].base = d /\ driver_contexts'[c].buffers = d
              /\ driver_contexts'[c].pci_dev = d
            BY <2>1, <3>2, <4>1, <4>2, StoreHere DEF HoldSucceeds
      <4>4. d \in held' /\ MappedAt(d)' = {c}
            BY <2>1, <3>2, MappingHeld
      <4>5. QED BY <2>1, <2>2, <2>4, <4>1, <4>3, <4>4 DEF Serves, Holding
    <3>3. CASE pc' = [pc EXCEPT ![d] = "a_mount"] /\ HoldUnmapped(c)
      <4>1. driver_contexts \in [Slots -> Context] /\ pc'[d] = "a_mount"
            BY <3>3 DEF TypeOK
      <4>2. driver_contexts'[c].base = NULL /\ driver_contexts'[c].pci_dev = d
            BY <2>1, <3>3, <4>1, StoreHere DEF HoldUnmapped
      <4>3. d \notin held' /\ MappedAt(d)' = {}
            BY <2>1, <3>3 DEF HoldUnmapped, MappedAt
      <4>4. QED BY <2>1, <2>2, <2>4, <4>1, <4>2, <4>3 DEF Serves, Holding
    <3>4. QED BY <1>3, <3>1, <3>2, <3>3 DEF AttachHold
  <2>5. QED BY <2>3, <2>4
<1>4. CASE AttachMount(d)
  <2> DEFINE c == drvdata[d]
             ctx == driver_contexts[c]
  <2>1. d \in Users /\ c \in Slots
        BY <1>4 DEF AttachMount, Users, InTable
  <2>2. UNCHANGED <<drvdata, held, mapped>> /\ MappedAt(e)' = MappedAt(e)
        BY <1>4 DEF AttachMount, MappedAt
  <2>3. CASE pc' = [pc EXCEPT ![d] = "a_free"] /\ UNCHANGED driver_contexts
    <3>1. pc'[d] = "a_free" /\ pc[d] = "a_mount" /\ (e # d => pc'[e] = pc[e])
          BY <1>4, <2>3 DEF AttachMount, TypeOK
    <3>2. QED BY <2>2, <2>3, <3>1 DEF Serves, Users, Holding
  <2>4. CASE /\ pc' = [pc EXCEPT ![d] = "bound"]
             /\ driver_contexts' = Store(driver_contexts, c, "workers", ctx.buffers)
    <3>1. driver_contexts \in [Slots -> Context] /\ pc'[d] = "bound" /\ pc[d] = "a_mount"
            /\ (e # d => pc'[e] = pc[e])
          BY <1>4, <2>4 DEF AttachMount, TypeOK
    <3>2. CASE e = d
      <4>1. /\ driver_contexts'[c].workers = ctx.buffers
            /\ driver_contexts'[c].pci_dev = ctx.pci_dev
            /\ driver_contexts'[c].base = ctx.base
            /\ driver_contexts'[c].buffers = ctx.buffers
            BY <2>1, <2>4, <3>1, StoreHere
      <4>2. QED BY <2>2, <3>1, <3>2, <4>1 DEF Serves, Users, Holding
    <3>3. CASE e # d
      <4>1. ASSUME e \in Users PROVE driver_contexts'[drvdata[e]] = driver_contexts[drvdata[e]]
        <5>1. drvdata[e] # c /\ drvdata[e] \in Slots
              BY <2>1, <3>3, <4>1 DEF Exclusive, InTable
        <5>2. QED BY <2>1, <2>4, <3>1, <5>1, StoreElsewhere DEF Fields
      <4>2. QED BY <2>2, <3>1, <3>3, <4>1, ServesKept
    <3>4. QED BY <3>2, <3>3
  <2>5. QED BY <1>4, <2>3, <2>4 DEF AttachMount
<1>5. CASE UndoHold(d)
  <2>1. d \in Users /\ pc[d] = "a_free" /\ FreeResources(drvdata[d])
          /\ UNCHANGED <<drvdata, driver_contexts>>
        BY <1>5 DEF UndoHold, Users
  <2>2. d \notin Users' /\ (e # d => pc'[e] = pc[e])
        BY <1>5 DEF UndoHold, Users, TypeOK
  <2>3. /\ e = d => d \notin held' /\ MappedAt(d)' = {}
        /\ e # d => (e \in held' <=> e \in held) /\ MappedAt(e)' = MappedAt(e)
        BY <2>1, MappingFreed
  <2>4. CASE e = d
        BY <2>2, <2>3, <2>4, ServesNothing
  <2>5. CASE e # d
        BY <2>1, <2>2, <2>3, <2>5, ServesKept
  <2>6. QED BY <2>4, <2>5
<1>6. QED BY <1>1, <1>2, <1>3, <1>4, <1>5 DEF Attach

LEMMA ServesDetach ==
  ASSUME Orderly', TypeOK, InTable, ServesAll, NEW d \in Devices, Detach(d)
  PROVE  ServesAll'
<1> SUFFICES ASSUME NEW e \in Devices PROVE Serves(e)'
    BY DEF ServesAll
<1> USE DEF ServesAll
<1>1. UNCHANGED <<driver_contexts>> /\ (e # d => pc'[e] = pc[e] /\ drvdata'[e] = drvdata[e])
      BY DEF Detach, DetachUnmount, DetachFree, DetachLoad, DetachCount, TypeOK
<1>2. CASE DetachUnmount(d)
  <2>1. /\ pc[d] = "bound" /\ pc'[d] = "d_free" /\ UNCHANGED <<drvdata, held, mapped>>
        /\ MappedAt(e)' = MappedAt(e)
        BY <1>2, DetachesAttached DEF DetachUnmount, TypeOK, MappedAt, Orderly
  <2>2. QED BY <1>1, <2>1 DEF Serves, Users, Holding
<1>3. CASE DetachFree(d)
  <2>1. d \in Users /\ pc[d] = "d_free" /\ FreeResources(drvdata[d]) /\ d \notin Users'
        BY <1>3 DEF DetachFree, Users, TypeOK
  <2>2. /\ e = d => d \notin held' /\ MappedAt(d)' = {}
        /\ e # d => (e \in held' <=> e \in held) /\ MappedAt(e)' = MappedAt(e)
        BY <2>1, MappingFreed
  <2>3. CASE e = d
        BY <2>1, <2>2, <2>3, ServesNothing
  <2>4. CASE e # d
        BY <1>1, <2>2, <2>4, ServesKept
  <2>5. QED BY <2>3, <2>4
<1>4. CASE DetachLoad(d) \/ DetachCount(d)
  <2>1. /\ d \notin Users /\ d \notin Users' /\ UNCHANGED <<held, mapped>>
        /\ MappedAt(e)' = MappedAt(e)
        BY <1>4 DEF DetachLoad, DetachCount, kernel, Users, TypeOK, MappedAt
  <2>2. d \notin held /\ MappedAt(d) = {}
        BY <1>4 DEF DetachLoad, DetachCount, Serves, Holding
  <2>3. QED BY <1>1, <2>1, <2>2, ServesKept, ServesNothing
<1>5. QED BY <1>2, <1>3, <1>4 DEF Detach

LEMMA ServesStep ==
  ASSUME Orderly', TypeInv, SoloInv, Exclusive, Exclusive', ServesAll, [Next]_vars
  PROVE  ServesAll'
<1>1. CASE UNCHANGED vars
  <2>1. \A d \in Devices : MappedAt(d)' = MappedAt(d)
        BY <1>1 DEF vars, kernel, MappedAt
  <2>2. QED BY <1>1, <2>1, ServesKept DEF vars, kernel, ServesAll
<1>2. CASE Module
  <2>1. UNCHANGED <<pc, drvdata, held, mapped>>
        BY <1>2 DEF Module, ModuleLoad, ModuleLoadFails, UnloadDestroyClass, UnloadUnregister,
           UnloadDone, kernel
  <2>2. \A d \in Users : driver_contexts'[drvdata[d]] = driver_contexts[drvdata[d]]
        BY <1>2 DEF Module, ModuleLoad, ModuleLoadFails, UnloadDestroyClass, UnloadUnregister,
           UnloadDone, SoloInv, Users
  <2>3. \A d \in Devices : MappedAt(d)' = MappedAt(d)
        BY <2>1 DEF MappedAt
  <2>4. QED BY <2>1, <2>2, <2>3, ServesKept DEF ServesAll
<1>3. ASSUME ~undefined, NEW d \in Devices, Attach(d) \/ Detach(d) PROVE ServesAll'
      BY <1>3, DefinedInTable, ServesAttach, ServesDetach DEF TypeInv
<1>4. QED BY <1>1, <1>2, <1>3 DEF Next, Halted

(* An attached device has its cdev; until behaviour is undefined the cdevs *)
(* are those of the attached devices, and the node, which only the first   *)
(* of them could make, is the oldest's.                                    *)
OwnCdev ==
  /\ \A d \in Attached : drvdata[d] \in cdevs
  /\ ~undefined => \A c \in cdevs : \E d \in Attached : drvdata[d] = c

OldestNode ==
  ~undefined /\ node # NULL => /\ \E d \in Attached : drvdata[d] = node
                              /\ \A d \in Attached : node <= drvdata[d]

NodeThere == Attached # {} /\ dev_class = "live" => node # NULL

NodeInv == OwnCdev /\ OldestNode /\ NodeThere

(* The steps that leave the attached devices, their cdevs and the node.    *)
LEMMA NodeKept ==
  ASSUME NodeInv, Attached' = Attached, UNCHANGED <<cdevs, node>>, ~undefined' => ~undefined,
         \A d \in Attached : drvdata'[d] = drvdata[d],
         dev_class' = "live" /\ Attached # {} => dev_class = "live"
  PROVE  NodeInv'
BY DEF NodeInv, OwnCdev, OldestNode, NodeThere

(* A device that mounts finds no cdev in its context.                      *)
LEMMA MountsAlone ==
  ASSUME Exclusive, NodeInv, ~undefined, NEW d \in Devices, AttachMount(d)
  PROVE  drvdata[d] \notin cdevs
BY DEF Exclusive, NodeInv, OwnCdev, AttachMount, Users, Attached

LEMMA NodeMount ==
  ASSUME TypeOK, SoloInv, StackInv, InTable, NodeInv, ~undefined,
         NEW d \in Devices, AttachMount(d)
  PROVE  NodeInv'
<1> DEFINE c == drvdata[d]
<1>1. d \in Users /\ c \in Slots /\ c # NULL /\ d \notin Attached /\ UNCHANGED <<drvdata, dev_class>>
      BY DriverAssumption DEF AttachMount, Users, Attached, InTable, Slots, module
<1>2. CASE pc' = [pc EXCEPT ![d] = "a_free"] /\ UNCHANGED <<cdevs, node>>
  <2>1. Attached' = Attached
        BY <1>1, <1>2 DEF Attached, TypeOK
  <2>2. QED BY <1>1, <1>2, <2>1, NodeKept
<1>3. CASE /\ cdevs' = cdevs \cup {c}
           /\ DeviceCreate(c)
           /\ pc' = [pc EXCEPT ![d] = "bound"]
  <2>1. Attached' = Attached \cup {d}
        BY <1>3 DEF Attached, TypeOK
  <2>2. OwnCdev'
        BY <1>1, <1>3, <2>1 DEF NodeInv, OwnCdev
  <2>3. CASE dev_class = "live" /\ node = NULL
    <3>1. Attached = {} /\ node' = c
          BY <1>3, <2>3 DEF NodeInv, NodeThere, DeviceCreate
    <3>2. Attached' = {d} /\ c \in Int
          BY <1>1, <2>1, <3>1 DEF Slots
    <3>3. QED BY <1>1, <2>2, <3>1, <3>2 DEF NodeInv, OldestNode, NodeThere
  <2>4. CASE ~(dev_class = "live" /\ node = NULL)
    <3>1. node' = node
          BY <1>3, <2>4 DEF DeviceCreate
    <3>2. \A e \in Attached : drvdata[e] < c
          BY <1>1 DEF StackInv, Flying, AttachMount, AtRest
    <3>3. \A e \in Attached : drvdata[e] \in Int
          BY DEF InTable, Attached, Users, Slots
    <3>4. \A e \in Attached : node = drvdata[e] => node <= c
          BY <1>1, <3>2, <3>3 DEF Slots
    <3>5. OldestNode'
          BY <1>1, <2>1, <3>1, <3>4 DEF NodeInv, OldestNode
    <3>6. NodeThere'
          BY <1>1, <2>4, <3>1 DEF NodeThere
    <3>7. QED BY <2>2, <3>5, <3>6 DEF NodeInv
  <2>5. QED BY <2>3, <2>4
<1>4. QED BY <1>2, <1>3 DEF AttachMount

LEMMA NodeUnmount ==
  ASSUME Orderly', TypeOK, InTable, Exclusive, NodeInv, ~undefined,
         NEW d \in Devices, DetachUnmount(d)
  PROVE  NodeInv'
<1> DEFINE c == drvdata[d]
<1>1. /\ pc[d] = "bound" /\ d \in Attached /\ Newest(d)
      /\ pc' = [pc EXCEPT ![d] = "d_free"] /\ UNCHANGED <<drvdata, dev_class>>
      BY DEF Orderly, DetachUnmount, Slip, OutOfTurn, Attached, module
<1>2. Attached' = Attached \ {d}
      BY <1>1 DEF Attached, TypeOK
<1>3. \A e \in Attached : drvdata[e] \in Int /\ drvdata[e] # NULL /\ (drvdata[e] = c => e = d)
      BY <1>1, DriverAssumption DEF InTable, Exclusive, Attached, Users, Slots
<1>4. CASE dev_class # "live"
  <2>1. undefined' /\ UNCHANGED <<cdevs, node>>
        BY <1>4 DEF DetachUnmount
  <2>2. QED BY <1>1, <1>2, <1>4, <2>1 DEF NodeInv, OwnCdev, OldestNode, NodeThere
<1>5. CASE dev_class = "live"
  <2>0. c \in cdevs
        BY <1>1 DEF NodeInv, OwnCdev
  <2>1. ~undefined' /\ DeviceDestroy(c) /\ cdevs' = cdevs \ {c}
        BY <1>1, <1>3, <1>5, <2>0 DEF DetachUnmount
  <2>2. OwnCdev'
        BY <1>1, <1>2, <1>3, <2>1 DEF NodeInv, OwnCdev
  <2>3. CASE node = c
    <3>1. node # NULL /\ node' = NULL
          BY <1>1, <1>3, <2>1, <2>3 DEF DeviceDestroy
    <3>2. \A e \in Attached : drvdata[e] <= c /\ c <= drvdata[e]
          BY <1>1, <2>3, <3>1 DEF Newest, NodeInv, OldestNode
    <3>3. \A m, n \in Int : m <= n /\ n <= m => m = n
          OBVIOUS
    <3>4. \A e \in Attached : drvdata[e] = c
          BY <1>1, <1>3, <3>2, <3>3
    <3>5. Attached' = {}
          BY <1>2, <1>3, <3>4
    <3>6. QED BY <2>2, <3>1, <3>5 DEF NodeInv, OldestNode, NodeThere
  <2>4. CASE node # c
    <3>1. node' = node
          BY <2>1, <2>4 DEF DeviceDestroy
    <3>2. OldestNode'
          BY <1>1, <1>2, <2>1, <2>4, <3>1 DEF NodeInv, OldestNode
    <3>3. NodeThere'
          BY <1>1, <1>2, <3>1 DEF NodeInv, NodeThere
    <3>4. QED BY <2>2, <3>2, <3>3 DEF NodeInv
  <2>5. QED BY <2>3, <2>4
<1>6. QED BY <1>4, <1>5

LEMMA NodeStep ==
  ASSUME Orderly', TypeInv, SoloInv, StackInv, NodeInv, [Next]_vars
  PROVE  NodeInv'
<1> USE DEF TypeInv
<1>1. CASE UNCHANGED vars
      BY <1>1, NodeKept DEF vars, module, kernel, Attached
<1>2. CASE ~undefined /\ Module
  <2>1. UNCHANGED <<pc, drvdata, cdevs, node, undefined>>
        BY <1>2 DEF Module, ModuleLoad, ModuleLoadFails, UnloadDestroyClass, UnloadUnregister,
           UnloadDone, kernel
  <2>2. dev_class' = "live" /\ Attached # {} => dev_class = "live"
        BY <1>2 DEF Module, ModuleLoad, ModuleLoadFails, UnloadDestroyClass, UnloadUnregister,
           UnloadDone, SoloInv, Attached
  <2>3. QED BY <2>1, <2>2, NodeKept DEF Attached
<1>3. ASSUME NEW d \in Devices, ~undefined, Attach(d) PROVE NodeInv'
  <2>1. CASE AttachMount(d)
        BY <1>3, <2>1, NodeMount, DefinedInTable
  <2>3. ASSUME ~AttachMount(d) PROVE NodeInv'
    <3>1. UNCHANGED <<cdevs, node, dev_class>> /\ Attached' = Attached
            /\ \A e \in Attached : drvdata'[e] = drvdata[e]
          BY <1>3, <2>3 DEF Attach, AttachRefused, AttachCalled, AttachTest, AttachLoad,
             AttachCount, AttachEnable, AttachHold, UndoHold, UndoLoad, UndoCount, Attached,
             TypeOK, module, kernel
    <3>2. QED BY <1>3, <3>1, NodeKept
  <2>4. QED BY <2>1, <2>3
<1>4. ASSUME NEW d \in Devices, ~undefined, Detach(d) PROVE NodeInv'
  <2>1. CASE DetachUnmount(d)
        BY <1>4, <2>1, NodeUnmount, DefinedInTable DEF StackInv
  <2>2. ASSUME ~DetachUnmount(d) PROVE NodeInv'
    <3>1. UNCHANGED <<cdevs, node, dev_class>> /\ Attached' = Attached
            /\ \A e \in Attached : drvdata'[e] = drvdata[e]
          BY <1>4, <2>2 DEF Detach, DetachFree, DetachLoad, DetachCount, Attached, TypeOK,
             module, kernel
    <3>2. QED BY <1>4, <3>1, NodeKept
  <2>3. QED BY <2>1, <2>2
<1>5. QED BY <1>1, <1>2, <1>3, <1>4 DEF Next, Halted

(* The three ways out of defined behaviour.                                *)
BadInv == undefined => \E d \in Devices : ClassGone(d) \/ OneTooMany(d)

(* The attach that finds the table full: every other device counted is     *)
(* attached, and the counter is at its ceiling.                            *)
LEMMA FullTable ==
  ASSUME TypeOK, SoloInv, ExactInv, CeilingInv, NEW d \in Devices, AttachEnable(d),
         ContextIndex \notin Slots
  PROVE  ContextIndex = MAX_DEVICE /\ Cardinality(Attached) = MAX_DEVICE
<1> DEFINE n == Cardinality(Attached)
<1>1. Counted = Attached \cup {d} /\ d \notin Attached
      BY DEF AttachEnable, SoloInv, Counted, Attached, AtRest, TypeOK
<1>2. IsFiniteSet(Attached) /\ n \in Nat
      BY DevicesFinite, FS_Subset, FS_CardinalityType DEF Attached
<1>3. Cardinality(Counted) = n + 1
      BY <1>1, <1>2, FS_AddElement, Zenon
<1> HIDE DEF n
<1>4. dev_attach_counter = n + 1 /\ dev_attach_counter <= MAX_DEVICE + 1
      BY <1>3 DEF ExactInv, CeilingInv
<1>5. ContextIndex = n
      BY <1>2, <1>4 DEF ContextIndex
<1>6. QED BY <1>2, <1>4, <1>5, DriverAssumption DEF Slots, n

LEMMA BadStep ==
  ASSUME Orderly', TypeInv, SoloInv, ExactInv, CeilingInv, StackInv, ServesAll, NodeInv, BadInv,
         [Next]_vars
  PROVE  BadInv'
<1> USE DEF TypeInv
<1>1. CASE UNCHANGED vars
      BY <1>1 DEF vars, module, BadInv, ClassGone, OneTooMany, Attached
<1>2. CASE ~undefined /\ Module
      BY <1>2 DEF Module, ModuleLoad, ModuleLoadFails, UnloadDestroyClass, UnloadUnregister,
         UnloadDone, BadInv
<1>3. ASSUME NEW d \in Devices, ~undefined, Attach(d) PROVE BadInv'
  <2>1. CASE AttachEnable(d)
    <3>1. CASE ~undefined'
          BY <3>1 DEF BadInv
    <3>2. CASE undefined'
      <4>1. /\ ContextIndex \notin Slots
            /\ pc' = [pc EXCEPT ![d] = "a_hold"]
            /\ drvdata' = [drvdata EXCEPT ![d] = ContextIndex]
            BY <1>3, <2>1, <3>2 DEF AttachEnable
      <4>2. ContextIndex = MAX_DEVICE /\ Cardinality(Attached) = MAX_DEVICE
            BY <2>1, <4>1, FullTable
      <4>3. Attached' = Attached
            BY <2>1, <4>1 DEF AttachEnable, Attached, TypeOK
      <4>4. OneTooMany(d)'
            BY <4>1, <4>2, <4>3 DEF OneTooMany, TypeOK
      <4>5. QED BY <4>4 DEF BadInv
    <3>3. QED BY <3>1, <3>2
  <2>2. CASE AttachMount(d)
    <3>1. drvdata[d] \notin cdevs
          BY <1>3, <2>2, MountsAlone DEF StackInv
    <3>2. undefined' => pc'[d] = "bound" /\ dev_class' = "destroyed"
          BY <2>2, <3>1 DEF AttachMount, TypeOK, module
    <3>3. QED BY <3>2 DEF BadInv, ClassGone
  <2>3. CASE UndoHold(d)
        BY <2>3, MappingFreed DEF UndoHold, BadInv
  <2>4. CASE AttachRefused(d) \/ AttachTest(d) \/ AttachLoad(d) \/ AttachCount(d) \/ AttachHold(d)
             \/ UndoLoad(d) \/ UndoCount(d)
        BY <1>3, <2>4 DEF AttachRefused, AttachTest, AttachLoad, AttachCount, AttachHold,
           UndoLoad, UndoCount, BadInv
  <2>5. QED BY <1>3, <2>1, <2>2, <2>3, <2>4 DEF Attach
<1>4. ASSUME NEW d \in Devices, ~undefined, Detach(d) PROVE BadInv'
  <2>1. CASE DetachUnmount(d)
    <3>1. pc[d] = "bound"
          BY <2>1, DetachesAttached DEF Orderly
    <3>2. drvdata[d] \in cdevs /\ drvdata[d] # NULL
          BY <1>4, <3>1, DefinedInTable, DriverAssumption
             DEF NodeInv, OwnCdev, Attached, InTable, Users, Slots
    <3>3. undefined' => pc'[d] = "d_free" /\ dev_class' # "live"
          BY <2>1, <3>2 DEF DetachUnmount, TypeOK, module
    <3>4. QED BY <3>3 DEF BadInv, ClassGone
  <2>2. CASE DetachFree(d)
        BY <2>2, MappingFreed DEF DetachFree, BadInv
  <2>3. CASE DetachLoad(d) \/ DetachCount(d)
        BY <1>4, <2>3 DEF DetachLoad, DetachCount, BadInv
  <2>4. QED BY <1>4, <2>1, <2>2, <2>3 DEF Detach
<1>5. QED BY <1>1, <1>2, <1>3, <1>4 DEF Next, Halted

(* All that holds until the first slip.                                    *)
OrderlyInv == SoloInv /\ ExactInv /\ CeilingInv /\ StackInv /\ ServesAll /\ NodeInv /\ BadInv

OrderlyWhile == Orderly => OrderlyInv

LEMMA OrderlyInit == Init => OrderlyInv
<1> SUFFICES ASSUME Init PROVE OrderlyInv
    OBVIOUS
<1>1. SoloInv /\ ExactInv /\ CeilingInv
      BY SoloInit, ExactInit, DriverAssumption DEF Init, CeilingInv
<1>2. Users = {} /\ Attached = {} /\ Flying = {} /\ \A d \in Devices : pc[d] = "unbound"
      BY DEF Init, Users, Attached, Flying, AtRest
<1>3. StackInv
      BY <1>2 DEF Init, StackInv, Exclusive
<1>4. ServesAll
      BY <1>2 DEF Init, ServesAll, Serves, Holding, MappedAt
<1>5. NodeInv /\ BadInv
      BY <1>2 DEF Init, NodeInv, OwnCdev, OldestNode, NodeThere, BadInv
<1>6. QED BY <1>1, <1>3, <1>4, <1>5 DEF OrderlyInv

LEMMA OrderlyStep ==
  ASSUME TypeInv, TypeOK', OrderlyInv, Orderly', [Next]_vars
  PROVE  OrderlyInv'
<1> USE DEF OrderlyInv
<1>0. "overlap" \notin slips' /\ "failed" \notin slips' /\ TypeOK
      BY DEF Orderly, TypeInv
<1>1. SoloInv'
      BY <1>0, SoloStep
<1>2. ExactInv'
      BY <1>0, ExactStep
<1>3. CeilingInv'
      BY <1>0, <1>1, CeilingStep
<1>4. StackInv'
      BY <1>0, <1>1, StackStep
<1>5. ServesAll'
      BY <1>4, ServesStep DEF StackInv
<1>6. NodeInv'
      BY NodeStep
<1>7. BadInv'
      BY BadStep
<1>8. QED BY <1>1, <1>2, <1>3, <1>4, <1>5, <1>6, <1>7

LEMMA OrderlyAlways == Spec => []OrderlyWhile
<1>1. Spec => []TypeInv
      BY TypeInvInit, TypeInvStep, PTL DEF Spec
<1>2. TypeInv /\ TypeOK' /\ OrderlyWhile /\ [Next]_vars => OrderlyWhile'
  <2> SUFFICES ASSUME TypeInv, TypeOK', OrderlyWhile, [Next]_vars, Orderly' PROVE OrderlyInv'
      BY DEF OrderlyWhile
  <2>1. Orderly
        BY SlipsGrow DEF Orderly
  <2>2. QED BY <2>1, OrderlyStep DEF OrderlyWhile
<1>3. Init => OrderlyWhile
      BY OrderlyInit DEF OrderlyWhile
<1>4. QED BY <1>1, <1>2, <1>3, TypeCorrect, PTL DEF Spec

(* Until the first slip no two devices ever work on one context, for any   *)
(* number of devices and any table.                                        *)
THEOREM ContextsAreExclusive == Spec => []ExclusiveContext
<1>1. OrderlyWhile => ExclusiveContext
      BY DEF OrderlyWhile, OrderlyInv, StackInv, Exclusive, ExclusiveContext
<1>2. QED BY <1>1, OrderlyAlways, PTL

(* Until the first slip, whatever fails: the driver leaves defined         *)
(* behaviour through a class that is not there, and through the one attach *)
(* that finds every context of the table attached; never by an index the   *)
(* counter should not have given, a null context, or a cdev or a mapping   *)
(* set up or taken down twice.                                             *)
THEOREM DefinedElsewhere == Spec => []DefinedButFor
<1>1. OrderlyWhile => DefinedButFor
      BY DEF OrderlyWhile, OrderlyInv, BadInv, DefinedButFor
<1>2. QED BY <1>1, OrderlyAlways, PTL

(* Until the first slip, whatever fails, ioremap included: an attached     *)
(* device finds in its context its own mapping, its workers pointing into  *)
(* it, its regions and its cdev.                                           *)
THEOREM AttachedAreServed == Spec => []ContextServesDevice
<1>1. OrderlyWhile => ContextServesDevice
  <2> SUFFICES ASSUME OrderlyInv, NEW d \in Attached
               PROVE  LET ctx == driver_contexts[drvdata[d]]
                      IN  /\ ctx.pci_dev = d
                          /\ drvdata[d] \in cdevs
                          /\ ctx.base # NULL =>
                               /\ d \in held /\ <<drvdata[d], d>> \in mapped
                               /\ ctx.base = d /\ ctx.buffers = d /\ ctx.workers = d
      BY DEF ContextServesDevice, OrderlyWhile
  <2>1. d \in Devices /\ d \in Users /\ pc[d] = "bound"
        BY DEF Attached, Users
  <2>2. Serves(d) /\ drvdata[d] \in cdevs
        BY <2>1 DEF OrderlyInv, ServesAll, NodeInv, OwnCdev
  <2>3. MappedAt(d) = {drvdata[d]} => <<drvdata[d], d>> \in mapped
        BY DEF MappedAt
  <2>4. QED BY <2>1, <2>2, <2>3 DEF Serves, Holding
<1>2. QED BY <1>1, OrderlyAlways, PTL

(* Until the first slip a device that is not attached holds no region and  *)
(* no mapping, and every registered cdev belongs to an attached device.    *)
THEOREM AllIsGivenBack == Spec => []NothingLeftBehind
<1>1. OrderlyWhile => NothingLeftBehind
      BY DEF OrderlyWhile, OrderlyInv, ServesAll, Serves, Holding, MappedAt, NodeInv, OwnCdev,
         NothingLeftBehind
<1>2. QED BY <1>1, OrderlyAlways, PTL

(* Until the first slip there is a node while a device is attached under a *)
(* usable class: it is the oldest device's, which goes last.               *)
THEOREM NodeStays == Spec => []NodeWhileAttached
<1>1. OrderlyWhile => NodeWhileAttached
      BY DEF OrderlyWhile, OrderlyInv, NodeInv, NodeThere, NodeWhileAttached
<1>2. QED BY <1>1, OrderlyAlways, PTL

-----------------------------------------------------------------------------
(* The driver implements the abstract table: an entry's owner is the       *)
(* device whose callback uses that context, which ExclusiveContext makes   *)
(* unique.                                                                 *)
Placed == {d \in Users : drvdata[d] \in Slots}

OwnerRight ==
  /\ \A d \in Placed : Owner[drvdata[d]] = d
  /\ \A i \in Slots : Owner[i] # NULL => Owner[i] \in Placed /\ drvdata[Owner[i]] = i

LEMMA OwnerIsUser == Exclusive => OwnerRight
<1> SUFFICES ASSUME Exclusive PROVE OwnerRight
    OBVIOUS
<1>1. ASSUME NEW d \in Placed PROVE Owner[drvdata[d]] = d
  <2>1. d \in Users /\ drvdata[d] \in Slots /\ \A e \in Users : drvdata[e] = drvdata[d] => e = d
        BY DEF Placed, Exclusive
  <2>2. (CHOOSE e \in Users : drvdata[e] = drvdata[d]) = d
        BY <2>1
  <2>3. QED BY <2>1, <2>2 DEF Owner
<1>2. ASSUME NEW i \in Slots, Owner[i] # NULL
      PROVE  Owner[i] \in Placed /\ drvdata[Owner[i]] = i
  <2>1. Owner[i] = CHOOSE e \in Users : drvdata[e] = i
        BY <1>2 DEF Owner
  <2>2. \E e \in Users : drvdata[e] = i
        BY <1>2 DEF Owner
  <2>3. QED BY <2>1, <2>2 DEF Placed
<1>3. QED BY <1>1, <1>2 DEF OwnerRight

LEMMA OwnerIsUserNext == Exclusive' => OwnerRight'
BY OwnerIsUser, PTL

(* What becomes of the owners when the users stay, one comes or one goes.  *)
LEMMA OwnersStay ==
  ASSUME OwnerRight, OwnerRight', Placed' = Placed, \A d \in Placed : drvdata'[d] = drvdata[d]
  PROVE  Owner' = Owner
<1>1. ASSUME NEW i \in Slots PROVE Owner'[i] = Owner[i]
  <2>1. CASE Owner[i] # NULL
        BY <2>1 DEF OwnerRight
  <2>2. CASE Owner'[i] # NULL
        BY <2>2 DEF OwnerRight
  <2>3. QED BY <2>1, <2>2
<1>2. Owner = [i \in Slots |-> Owner[i]] /\ Owner' = [i \in Slots |-> Owner'[i]]
      BY DEF Owner
<1>3. QED BY <1>1, <1>2

LEMMA OwnerComes ==
  ASSUME OwnerRight, OwnerRight', NEW d \in Devices,
         d \notin Placed, Placed' = Placed \cup {d}, \A e \in Placed : drvdata'[e] = drvdata[e]
  PROVE  /\ ~Table!Owns(d)
         /\ \E i \in Slots : Owner[i] = NULL /\ Owner' = [Owner EXCEPT ![i] = d]
<1> DEFINE c == drvdata'[d]
<1>1. c \in Slots /\ Owner'[c] = d
      BY DEF Placed, OwnerRight
<1>2. Owner[c] = NULL
      BY <1>1 DEF OwnerRight
<1>3. ASSUME NEW i \in Slots, i # c PROVE Owner'[i] = Owner[i]
  <2>1. CASE Owner[i] # NULL
        BY <2>1 DEF OwnerRight
  <2>2. CASE Owner'[i] # NULL
        BY <1>3, <2>2 DEF OwnerRight
  <2>3. QED BY <2>1, <2>2
<1>4. Owner = [i \in Slots |-> Owner[i]] /\ Owner' = [i \in Slots |-> Owner'[i]]
      BY DEF Owner
<1>5. Owner' = [Owner EXCEPT ![c] = d]
      BY <1>1, <1>3, <1>4
<1>6. ~Table!Owns(d)
      BY DriverAssumption DEF Table!Owns, OwnerRight
<1>7. QED BY <1>1, <1>2, <1>5, <1>6

LEMMA OwnerGoes ==
  ASSUME OwnerRight, OwnerRight', NEW d \in Devices,
         d \in Placed, Placed' = Placed \ {d}, \A e \in Placed' : drvdata'[e] = drvdata[e]
  PROVE  \E i \in Slots : Owner[i] = d /\ Owner' = [Owner EXCEPT ![i] = NULL]
<1> DEFINE c == drvdata[d]
<1>1. c \in Slots /\ Owner[c] = d
      BY DEF Placed, OwnerRight
<1>2. Owner'[c] = NULL
      BY <1>1 DEF OwnerRight
<1>3. ASSUME NEW i \in Slots, i # c PROVE Owner'[i] = Owner[i]
  <2>1. CASE Owner[i] # NULL
        BY <1>1, <1>3, <2>1 DEF OwnerRight
  <2>2. CASE Owner'[i] # NULL
        BY <2>2 DEF OwnerRight
  <2>3. QED BY <2>1, <2>2
<1>4. Owner = [i \in Slots |-> Owner[i]] /\ Owner' = [i \in Slots |-> Owner'[i]]
      BY DEF Owner
<1>5. Owner' = [Owner EXCEPT ![c] = NULL]
      BY <1>1, <1>2, <1>3, <1>4
<1>6. QED BY <1>1, <1>5

LEMMA TableInit == Init => Table!Init
<1> SUFFICES ASSUME Init PROVE Table!Init
    OBVIOUS
<1>1. Users = {} /\ Attached = {}
      BY DEF Init, Users, Attached
<1>2. QED BY <1>1 DEF Table!Init, Owner

(* Every step up to the first slip is a step of the table or leaves it     *)
(* alone.                                                                  *)
LEMMA TableSimulated ==
  ASSUME TypeInv, OrderlyInv, OrderlyInv', Orderly', [Next]_vars
  PROVE  Table!Next \/ UNCHANGED Table!vars
<1> USE DEF Table!vars
<1>1. OwnerRight /\ OwnerRight' /\ TypeOK
      BY OwnerIsUser, OwnerIsUserNext DEF OrderlyInv, StackInv, TypeInv
<1>2. ASSUME Placed' = Placed, Attached' = Attached, \A d \in Placed : drvdata'[d] = drvdata[d]
      PROVE  UNCHANGED Table!vars
      BY <1>1, <1>2, OwnersStay
<1>n. ~undefined => Placed = Users
      BY DefinedInTable DEF Placed, InTable
<1>3. CASE UNCHANGED vars \/ Module
  <2>1. UNCHANGED <<pc, drvdata>>
        BY <1>3 DEF vars, Module, ModuleLoad, ModuleLoadFails, UnloadDestroyClass,
           UnloadUnregister, UnloadDone
  <2>2. QED BY <1>2, <2>1 DEF Users, Attached, Placed
<1>4. ASSUME ~undefined, NEW d \in Devices, Attach(d) PROVE Table!Next \/ UNCHANGED Table!vars
  <2>0. Placed = Users
        BY <1>4, <1>n
  <2>1. CASE AttachRefused(d) \/ AttachTest(d) \/ AttachLoad(d) \/ AttachCount(d) \/ UndoLoad(d)
             \/ UndoCount(d)
    <3>1. Users' = Users /\ Attached' = Attached /\ UNCHANGED drvdata
          BY <1>1, <2>1 DEF AttachRefused, AttachCalled, AttachTest, AttachLoad, AttachCount,
             UndoLoad, UndoCount, Users, Attached, TypeOK
    <3>2. QED BY <1>2, <3>1 DEF Placed
  <2>2. CASE AttachEnable(d)
    <3>1. Attached' = Attached /\ \A e \in Users : drvdata'[e] = drvdata[e] /\ d \notin Users
          BY <1>1, <2>2 DEF AttachEnable, Users, Attached, TypeOK
    <3>2. Users' = Users \/ Users' = Users \cup {d}
          BY <1>1, <2>2 DEF AttachEnable, Users, TypeOK
    <3>3. Placed' = Placed \/ Placed' = Placed \cup {d}
          BY <2>0, <3>1, <3>2 DEF Placed
    <3>4. CASE Placed' = Placed
          BY <1>2, <2>0, <3>1, <3>4
    <3>5. CASE Placed' = Placed \cup {d}
      <4>0. d \notin Placed /\ \A e \in Placed : drvdata'[e] = drvdata[e]
            BY <2>0, <2>2, <3>1 DEF AttachEnable, Users
      <4>1. Table!Claim(d)
            BY <1>1, <3>1, <3>5, <4>0, OwnerComes DEF Table!Claim
      <4>2. QED BY <4>1 DEF Table!Next
    <3>6. QED BY <3>3, <3>4, <3>5
  <2>3. CASE AttachHold(d) \/ UndoHold(d)
    <3>1. Attached' = Attached /\ UNCHANGED drvdata /\ d \in Users /\ d \notin Attached
          BY <1>1, <2>3 DEF AttachHold, UndoHold, Users, Attached, TypeOK
    <3>2. CASE Users' = Users
          BY <1>2, <3>1, <3>2 DEF Placed
    <3>3. CASE Users' = Users \ {d}
      <4>0. d \in Placed /\ Placed' = Placed \ {d} /\ \A e \in Placed' : drvdata'[e] = drvdata[e]
            BY <2>0, <3>1, <3>3 DEF Placed
      <4>1. Table!Release(d)
            BY <1>1, <3>1, <4>0, OwnerGoes DEF Table!Release
      <4>2. QED BY <4>1 DEF Table!Next
    <3>4. QED BY <1>1, <2>3, <3>2, <3>3 DEF AttachHold, UndoHold, Users, TypeOK
  <2>4. CASE AttachMount(d)
    <3>1. Users' = Users /\ UNCHANGED drvdata /\ d \in Users /\ Placed' = Placed
          BY <1>1, <2>4 DEF AttachMount, Users, TypeOK, Placed
    <3>2. CASE Attached' = Attached
          BY <1>2, <3>1, <3>2
    <3>3. CASE Attached' = Attached \cup {d}
      <4>1. Owner' = Owner
            BY <1>1, <3>1, OwnersStay
      <4>2. Table!Owns(d)
            BY <1>1, <2>0, <3>1 DEF Table!Owns, OwnerRight, Placed
      <4>3. Table!Serve(d)
            BY <3>3, <4>1, <4>2 DEF Table!Serve
      <4>4. QED BY <4>3 DEF Table!Next
    <3>4. QED BY <1>1, <2>4, <3>2, <3>3 DEF AttachMount, Attached, TypeOK
  <2>5. QED BY <1>4, <2>1, <2>2, <2>3, <2>4 DEF Attach
<1>5. ASSUME ~undefined, NEW d \in Devices, Detach(d) PROVE Table!Next \/ UNCHANGED Table!vars
  <2>0. Placed = Users
        BY <1>5, <1>n
  <2>1. CASE DetachUnmount(d)
    <3>0. pc[d] = "bound"
          BY <2>1, DetachesAttached DEF Orderly
    <3>1. /\ Users' = Users /\ UNCHANGED drvdata /\ Placed' = Placed
          /\ d \in Attached /\ Attached' = Attached \ {d}
          BY <1>1, <2>1, <3>0 DEF DetachUnmount, Users, Attached, TypeOK, Placed
    <3>2. Owner' = Owner
          BY <1>1, <3>1, OwnersStay
    <3>3. Table!Withdraw(d)
          BY <3>1, <3>2 DEF Table!Withdraw
    <3>4. QED BY <3>3 DEF Table!Next
  <2>2. CASE DetachFree(d)
    <3>1. /\ Attached' = Attached /\ UNCHANGED drvdata /\ d \notin Attached
          /\ d \in Users /\ Users' = Users \ {d}
          BY <1>1, <2>2 DEF DetachFree, Users, Attached, TypeOK
    <3>2. d \in Placed /\ Placed' = Placed \ {d} /\ \A e \in Placed' : drvdata'[e] = drvdata[e]
          BY <2>0, <3>1 DEF Placed
    <3>3. Table!Release(d)
          BY <1>1, <3>1, <3>2, OwnerGoes DEF Table!Release
    <3>4. QED BY <3>3 DEF Table!Next
  <2>3. CASE DetachLoad(d) \/ DetachCount(d)
    <3>1. Users' = Users /\ Attached' = Attached /\ \A e \in Users : drvdata'[e] = drvdata[e]
          BY <1>1, <2>3 DEF DetachLoad, DetachCount, Users, Attached, TypeOK
    <3>2. Placed' = Placed /\ \A e \in Placed : drvdata'[e] = drvdata[e]
          BY <3>1 DEF Placed
    <3>3. QED BY <1>2, <3>1, <3>2
  <2>4. QED BY <1>5, <2>1, <2>2, <2>3 DEF Detach
<1>6. QED BY <1>3, <1>4, <1>5 DEF Next, Halted

(* Until the first slip the driver implements ContextTable: a context is   *)
(* given to one device only while nobody has it, and only the device that  *)
(* has it is served to user space, for any number of devices and contexts. *)
THEOREM TableImplemented == Spec => ImplementsTable
<1>1. Spec => []TypeInv
      BY TypeInvInit, TypeInvStep, PTL DEF Spec
<1>2. TypeInv /\ OrderlyWhile /\ OrderlyWhile' /\ [Next]_vars
        => [Orderly' => Table!Next \/ UNCHANGED Table!vars]_vars
  <2> SUFFICES ASSUME TypeInv, OrderlyWhile, OrderlyWhile', [Next]_vars, Orderly'
               PROVE  Table!Next \/ UNCHANGED Table!vars
      OBVIOUS
  <2>1. Orderly
        BY SlipsGrow DEF Orderly
  <2>2. QED BY <2>1, TableSimulated DEF OrderlyWhile
<1>3. QED BY <1>1, <1>2, TableInit, OrderlyAlways, PTL DEF Spec, ImplementsTable

=============================================================================
