--------------------------- MODULE PciPair_proofs ---------------------------
(***************************************************************************)
(* The table of pcidev-01 for any number of devices, entries and           *)
(* processes, however callbacks and file operations interleave.            *)
(***************************************************************************)
EXTENDS PciPair, FiniteSetTheorems, TLAPS

Places == AtRest \cup Probing \cup Removing

(* The steps, whatever they do to regions: what is proved of them holds of *)
(* the relatives of this driver too, which reserve and release otherwise.  *)
GiveUp(d) ==
  /\ pc[d] = "p_regions" /\ cdev_del(cdev_of[d]) /\ ReturnZero(d)
  /\ UNCHANGED <<phase, table, reserved, cdevs, probe, users, raced>>

Bind(d) ==
  /\ pc[d] = "p_regions" /\ pc' = [pc EXCEPT ![d] = "bound"]
  /\ UNCHANGED <<phase, table, reserved, cdevs, cdev_map, probe, users, undefined, raced>>

LetGo(d) ==
  /\ pc[d] = "r_region" /\ pc' = [pc EXCEPT ![d] = "unbound"]
  /\ UNCHANGED <<phase, table, reserved, cdevs, cdev_map, probe, users, undefined, raced>>

sans == <<phase, table, reserved, cdevs, cdev_map, pc, probe, users, undefined, raced>>

AnyProbe(d) == Search(d) \/ Publish(d) \/ GiveUp(d) \/ Bind(d)
AnyRemove(d) == RemoveCdev(d) \/ RemovePair(d) \/ LetGo(d)

AnyNext ==
  /\ undefined = "no"
  /\ \/ ModuleLoad \/ ModuleUnload \/ UnloadDone
     \/ \E d \in Devices : AnyProbe(d) \/ AnyRemove(d)
     \/ \E u \in Users : FileOp(u)

LEMMA NextIsAny == [Next]_vars => [AnyNext]_sans
<1>1. ASSUME Halted \/ UNCHANGED vars PROVE UNCHANGED sans
  BY <1>1 DEF Halted, vars, kernel, sans
<1>2. ASSUME NEW d \in Devices, Probe(d) PROVE AnyProbe(d)
  BY <1>2 DEF Probe, AnyProbe, ProbeRegionsFail, GiveUp, ProbeRegions, Bind
<1>3. ASSUME NEW d \in Devices, Remove(d) PROVE AnyRemove(d)
  BY <1>3 DEF Remove, AnyRemove, RemoveRegion, LetGo
<1> QED
  BY <1>1, <1>2, <1>3 DEF Next, AnyNext

Typed ==
  /\ phase \in {"absent", "loaded", "unloading"} /\ reserved \in Nat
  /\ pair_dev \in [Slots -> Devices \cup {NULL}]
  /\ pair_cdev \in [Slots -> Cdevs \cup {NULL}]
  /\ cdevs \in 0 .. MaxCdevs /\ cdev_map \in [Slots -> SUBSET Cdevs]
  /\ pc \in [Devices -> Places]
  /\ minor_of \in [Devices -> Slots] /\ cdev_of \in [Devices -> Cdevs \cup {NULL}]
  /\ opening \in [Users -> Slots \cup {NULL}]
  /\ file \in [Users -> Devices \cup {NULL, "none"}]
  /\ undefined \in {"no", "deleted twice", "null device", "null cdev", "removed device"}
  /\ raced \in BOOLEAN

(* A probe that is past cdev_add has a cdev, and the driver has minors     *)
(* while it is loaded: without these two the types are not inductive.      *)
Provided ==
  /\ \A d \in Devices : pc[d] \in {"p_store", "p_regions"} => cdev_of[d] \in Cdevs
  /\ phase # "absent" => reserved >= MAX_DEVICE

TypeInv == Typed /\ Provided

LEMMA ReturnZeroType ==
  ASSUME Typed, NEW d \in Devices, ReturnZero(d)
  PROVE  /\ pc' \in [Devices -> Places]
         /\ pc'[d] = "failed"
         /\ \A e \in Devices : e # d => pc'[e] = pc[e]
BY DEF Typed, ReturnZero, AtRest, Probing, Removing, Places

LEMMA CdevDelType ==
  ASSUME Typed, NEW c, cdev_del(c)
  PROVE  /\ cdev_map' \in [Slots -> SUBSET Cdevs]
         /\ \A m \in Slots : cdev_map'[m] = cdev_map[m] \ {c}
         /\ undefined' \in {"no", "deleted twice"}
BY DEF Typed, cdev_del

LEMMA InitType == Init => TypeInv
<1>1. 0 \in Slots
  BY PairAssumption DEF Slots
<1>2. 0 \in Nat /\ 0 \in 0 .. MaxCdevs
  BY PairAssumption
<1>3. SUFFICES ASSUME Init PROVE TypeInv
  OBVIOUS
<1>4. /\ phase = "absent" /\ reserved \in Nat /\ cdevs \in 0 .. MaxCdevs
      /\ undefined \in {"no"} /\ raced \in BOOLEAN
  BY <1>2, <1>3 DEF Init
<1>5. /\ pair_dev \in [Slots -> Devices \cup {NULL}] /\ pair_cdev \in [Slots -> Cdevs \cup {NULL}]
      /\ cdev_map \in [Slots -> SUBSET Cdevs] /\ regions \in [Devices -> {"none"}]
      /\ pc \in [Devices -> {"unbound"}] /\ minor_of \in [Devices -> Slots]
      /\ cdev_of \in [Devices -> Cdevs \cup {NULL}]
      /\ opening \in [Users -> {NULL}] /\ file \in [Users -> {"none"}]
  BY <1>1, <1>3 DEF Init
<1>6. Provided
  BY <1>4, <1>5 DEF Provided
<1> QED
  BY <1>4, <1>5, <1>6 DEF TypeInv, Typed, AtRest, Probing, Removing, Places

LEMMA ModuleType ==
  ASSUME TypeInv, ModuleLoad \/ ModuleUnload \/ UnloadDone
  PROVE  TypeInv'
<1>1. CASE ModuleLoad
  <2>1. /\ reserved' \in Nat
        /\ phase' \in {"absent", "loaded"}
        /\ phase' # "absent" => reserved' >= MAX_DEVICE
    <3>1. reserved \in Nat /\ MAX_DEVICE \in Nat \ {0}
      BY PairAssumption DEF TypeInv, Typed
    <3>2. \/ phase' = "loaded" /\ reserved' = reserved + MAX_DEVICE
          \/ phase' = "absent" /\ reserved' = reserved
          \/ phase' = "absent" /\ reserved' = reserved + MAX_DEVICE
      BY <1>1 DEF ModuleLoad
    <3> QED
      BY <3>1, <3>2, SMT
  <2>2. pair_dev' \in [Slots -> Devices \cup {NULL}] /\ pair_cdev' \in [Slots -> Cdevs \cup {NULL}]
    BY <1>1 DEF ModuleLoad, pci_cdev_init
  <2> QED
    BY <1>1, <2>1, <2>2 DEF ModuleLoad, TypeInv, Typed, Provided, probe, users
<1>2. CASE ModuleUnload
  BY <1>2 DEF ModuleUnload, TypeInv, Typed, Provided, table, kernel, probe, users
<1>3. CASE UnloadDone
  <2>1. reserved' \in Nat
    <3>1. reserved \in Nat /\ MAX_DEVICE \in Nat \ {0}
      BY PairAssumption DEF TypeInv, Typed
    <3>2. reserved >= MAX_DEVICE /\ reserved' = reserved - MAX_DEVICE
      BY <1>3 DEF UnloadDone, TypeInv, Provided
    <3> QED
      BY <3>1, <3>2, SMT
  <2>2. cdev_map' \in [Slots -> SUBSET Cdevs] /\ undefined' \in {"no", "deleted twice"}
    BY <1>3 DEF UnloadDone, TypeInv, Typed
  <2> QED
    BY <1>3, <2>1, <2>2 DEF UnloadDone, TypeInv, Typed, Provided, table, probe, users
<1> QED
  BY <1>1, <1>2, <1>3

LEMMA SearchType ==
  ASSUME TypeInv, NEW d \in Devices, Search(d)
  PROVE  TypeInv'
<1>1. CASE ProbeStart(d)
  <2>1. 0 \in Slots
    BY PairAssumption DEF Slots
  <2> QED
    BY <1>1, <2>1 DEF ProbeStart, TypeInv, Typed, Provided, table, kernel, users, AtRest, Probing, Removing, Places
<1>2. CASE ProbeNext(d)
  <2>1. minor_of[d] + 1 \in Slots
    <3>1. minor_of[d] \in Slots /\ minor_of[d] + 1 < MAX_DEVICE
      BY <1>2 DEF ProbeNext, TypeInv, Typed
    <3> QED
      BY <3>1, PairAssumption, SMT DEF Slots
  <2> QED
    BY <1>2, <2>1 DEF ProbeNext, TypeInv, Typed, Provided, table, kernel, users
<1>3. CASE ProbeFull(d)
  <2>1. Typed /\ ReturnZero(d)
    BY <1>3 DEF ProbeFull, TypeInv
  <2> QED
    BY <1>3, <2>1, ReturnZeroType
       DEF ProbeFull, TypeInv, Typed, Provided, table, kernel, probe, users, Places
<1>4. CASE ProbeFree(d)
  BY <1>4 DEF ProbeFree, TypeInv, Typed, Provided, table, kernel, probe, users, AtRest, Probing, Removing, Places
<1>5. CASE ProbeTake(d)
  <2>1. /\ pair_dev' \in [Slots -> Devices \cup {NULL}]
        /\ pc' \in [Devices -> Places]
    BY <1>5 DEF ProbeTake, TypeInv, Typed, AtRest, Probing, Removing, Places
  <2>2. /\ UNCHANGED <<phase, reserved, cdev_of>>
        /\ \A e \in Devices : e # d => pc'[e] = pc[e]
        /\ pc'[d] = "p_add"
    BY <1>5 DEF ProbeTake, TypeInv, Typed, kernel, probe
  <2>4. Provided'
    BY <2>2 DEF TypeInv, Provided
  <2>3. raced' \in BOOLEAN
    BY <1>5 DEF ProbeTake, TypeInv, Typed
  <2> QED
    BY <1>5, <2>1, <2>3, <2>4 DEF ProbeTake, TypeInv, Typed, kernel, probe, users, Places
<1> QED
  BY <1>1, <1>2, <1>3, <1>4, <1>5 DEF Search

(* What cdev_add can do: register the next cdev, or fail, or there is none *)
(* to register and the machine halts.                                      *)
Added(d) ==
  /\ cdev_of' = [cdev_of EXCEPT ![d] = cdevs + 1]
  /\ cdev_map' = [cdev_map EXCEPT ![minor_of[d]] = @ \cup {cdevs + 1}]
  /\ pc' = [pc EXCEPT ![d] = "p_store"]
  /\ cdevs' = cdevs + 1 /\ UNCHANGED undefined

NotAdded(d) ==
  /\ cdev_of' = [cdev_of EXCEPT ![d] = cdevs + 1]
  /\ ReturnZero(d)
  /\ cdevs' = cdevs + 1 /\ UNCHANGED <<cdev_map, undefined>>

NoCdev(d) == undefined' = "null cdev" /\ UNCHANGED <<cdevs, cdev_of, cdev_map, pc>>

LEMMA AddCases ==
  ASSUME NEW d \in Devices, ProbeAdd(d)
  PROVE  /\ pc[d] = "p_add" /\ cdevs < MaxCdevs
         /\ UNCHANGED <<phase, pair_dev, pair_cdev, reserved, regions, minor_of, users, raced>>
         /\ Added(d) \/ NotAdded(d) \/ NoCdev(d)
BY DEF ProbeAdd, Added, NotAdded, NoCdev, table

LEMMA AddType ==
  ASSUME TypeInv, NEW d \in Devices, ProbeAdd(d)
  PROVE  TypeInv'
<1>1. cdevs + 1 \in 0 .. MaxCdevs /\ cdevs + 1 \in Cdevs
  <2>1. cdevs \in 0 .. MaxCdevs /\ cdevs < MaxCdevs
    BY AddCases DEF TypeInv, Typed
  <2> QED
    BY <2>1, PairAssumption, SMT DEF Cdevs
<1>2. UNCHANGED <<phase, pair_dev, pair_cdev, reserved, minor_of, users, raced>>
  BY AddCases
<1>3. CASE Added(d)
  <2>1. /\ cdev_of' \in [Devices -> Cdevs \cup {NULL}] /\ cdev_map' \in [Slots -> SUBSET Cdevs]
        /\ pc' \in [Devices -> Places] /\ cdevs' \in 0 .. MaxCdevs
    BY <1>1, <1>3 DEF Added, TypeInv, Typed, AtRest, Probing, Removing, Places
  <2>2. Provided'
    BY <1>1, <1>2, <1>3 DEF Added, TypeInv, Typed, Provided
  <2> QED
    BY <1>2, <1>3, <2>1, <2>2 DEF Added, TypeInv, Typed, users
<1>4. CASE NotAdded(d)
  <2>1. Typed /\ ReturnZero(d)
    BY <1>4 DEF NotAdded, TypeInv
  <2>2. /\ cdev_of' \in [Devices -> Cdevs \cup {NULL}] /\ cdevs' \in 0 .. MaxCdevs
        /\ \A e \in Devices : e # d => cdev_of'[e] = cdev_of[e]
    BY <1>1, <1>4 DEF NotAdded, TypeInv, Typed
  <2>3. Provided'
    BY <1>2, <2>1, <2>2, ReturnZeroType DEF TypeInv, Provided
  <2> QED
    BY <1>2, <1>4, <2>1, <2>2, <2>3, ReturnZeroType DEF NotAdded, TypeInv, Typed, users
<1>5. CASE NoCdev(d)
  BY <1>2, <1>5 DEF NoCdev, TypeInv, Typed, Provided, users
<1> QED
  BY <1>3, <1>4, <1>5, AddCases

LEMMA ProbeType ==
  ASSUME TypeInv, NEW d \in Devices, AnyProbe(d)
  PROVE  TypeInv'
<1>1. CASE Search(d)
  BY <1>1, SearchType
<1>2. CASE ProbeAdd(d)
  BY <1>2, AddType
<1>5. CASE ProbeStore(d)
  <2>1. cdev_of[d] \in Cdevs
    BY <1>5 DEF ProbeStore, TypeInv, Provided
  <2>2. pair_cdev' \in [Slots -> Cdevs \cup {NULL}] /\ pc' \in [Devices -> Places]
    BY <1>5, <2>1 DEF ProbeStore, TypeInv, Typed, AtRest, Probing, Removing, Places
  <2>3. Provided'
    BY <1>5, <2>1 DEF ProbeStore, TypeInv, Typed, Provided, kernel, probe
  <2> QED
    BY <1>5, <2>2, <2>3 DEF ProbeStore, TypeInv, Typed, kernel, probe, users
<1>3. CASE GiveUp(d)
  <2>1. Typed /\ ReturnZero(d) /\ cdev_del(cdev_of[d])
    BY <1>3 DEF GiveUp, TypeInv
  <2>2. pc' \in [Devices -> Places] /\ Provided'
    BY <1>3, <2>1, ReturnZeroType DEF GiveUp, TypeInv, Provided, probe
  <2>3. cdev_map' \in [Slots -> SUBSET Cdevs] /\ undefined' \in {"no", "deleted twice"}
    BY <2>1, CdevDelType
  <2> QED
    BY <1>3, <2>2, <2>3 DEF GiveUp, TypeInv, Typed, table, probe, users, Places
<1>4. CASE Bind(d)
  BY <1>4 DEF Bind, TypeInv, Typed, Provided, table, probe, users, AtRest, Probing, Removing, Places
<1> QED
  BY <1>1, <1>2, <1>3, <1>4, <1>5 DEF AnyProbe, Publish

LEMMA RemoveType ==
  ASSUME TypeInv, NEW d \in Devices, AnyRemove(d)
  PROVE  TypeInv'
<1>1. CASE RemoveCdev(d)
  <2>1. pc' \in [Devices -> Places] /\ Provided'
    BY <1>1 DEF RemoveCdev, TypeInv, Typed, Provided, Removing, Places, probe
  <2>2. /\ cdev_map' \in [Slots -> SUBSET Cdevs]
        /\ undefined' \in {"no", "deleted twice", "null device", "null cdev", "removed device"}
    <3>1. CASE CdevOf(d) = NULL
      BY <1>1, <3>1 DEF RemoveCdev, TypeInv, Typed
    <3>2. CASE CdevOf(d) # NULL
      BY <1>1, <3>2, CdevDelType DEF RemoveCdev, TypeInv
    <3> QED
      BY <3>1, <3>2
  <2> QED
    BY <1>1, <2>1, <2>2 DEF RemoveCdev, TypeInv, Typed, table, probe, users, Places
<1>2. CASE RemovePair(d)
  BY <1>2 DEF RemovePair, TypeInv, Typed, Provided, kernel, probe, users, AtRest, Probing, Removing, Places
<1>3. CASE LetGo(d)
  BY <1>3 DEF LetGo, TypeInv, Typed, Provided, table, probe, users, AtRest, Probing, Removing, Places
<1> QED
  BY <1>1, <1>2, <1>3 DEF AnyRemove

LEMMA FileOpType ==
  ASSUME TypeInv, NEW u \in Users, FileOp(u)
  PROVE  TypeInv'
<1>1. /\ opening' \in [Users -> Slots \cup {NULL}]
      /\ file' \in [Users -> Devices \cup {NULL, "none"}]
      /\ undefined' \in {"no", "deleted twice", "null device", "null cdev", "removed device"}
  <2>1. CASE OpenEnter(u)
    BY <2>1 DEF OpenEnter, TypeInv, Typed
  <2>2. CASE PciOpen(u)
    <3>1. opening[u] \in Slots
      BY <2>2 DEF PciOpen, TypeInv, Typed
    <3>2. pair_dev[opening[u]] \in Devices \cup {NULL}
      BY <3>1 DEF TypeInv, Typed
    <3> QED
      BY <2>2, <3>2 DEF PciOpen, TypeInv, Typed
  <2>3. CASE PciReadWrite(u)
    BY <2>3 DEF PciReadWrite, TypeInv, Typed, users
  <2>4. CASE PciRelease(u)
    BY <2>4 DEF PciRelease, TypeInv, Typed
  <2> QED
    BY <2>1, <2>2, <2>3, <2>4 DEF FileOp
<1>2. UNCHANGED <<phase, table, kernel, pc, probe, raced>>
  BY DEF FileOp, OpenEnter, PciOpen, PciReadWrite, PciRelease
<1> QED
  BY <1>1, <1>2 DEF TypeInv, Typed, Provided, table, kernel, probe

LEMMA TypeStep == TypeInv /\ [AnyNext]_sans => TypeInv'
<1>1. SUFFICES ASSUME TypeInv, [AnyNext]_sans PROVE TypeInv'
  OBVIOUS
<1>2. CASE UNCHANGED sans
  BY <1>1, <1>2 DEF sans, TypeInv, Typed, Provided, table, kernel, probe, users
<1> QED
  BY <1>1, <1>2, ModuleType, ProbeType, RemoveType, FileOpType DEF AnyNext

(* The type invariant, of every behaviour.                                 *)
THEOREM TypeCorrect == Spec => []TypeOK
<1> DEFINE Regions == regions \in [Devices -> {"none", "all", "rest"}]
<1>1. Init => TypeInv /\ Regions
  BY InitType DEF Init
<1>2. TypeInv /\ Regions /\ [Next]_vars => (TypeInv /\ Regions)'
  <2>1. SUFFICES ASSUME TypeInv, Regions, [Next]_vars PROVE TypeInv' /\ Regions'
    OBVIOUS
  <2>2. TypeInv'
    BY <2>1, NextIsAny, TypeStep
  <2>3. CASE \E d \in Devices : ProbeRegions(d) \/ RemoveRegion(d)
    BY <2>1, <2>2, <2>3 DEF ProbeRegions, RemoveRegion
  <2>4. CASE regions' = regions
    BY <2>1, <2>2, <2>4
  <2>5. regions' = regions \/ \E d \in Devices : ProbeRegions(d) \/ RemoveRegion(d)
    BY <2>1 DEF Next, Halted, vars, kernel, ModuleLoad, ModuleUnload, UnloadDone, Probe, Search,
       Remove, ProbeStart, ProbeNext, ProbeFull, ProbeFree, ProbeTake, Publish, ProbeAdd, ProbeStore,
       ProbeRegionsFail, RemoveCdev, RemovePair, FileOp, OpenEnter, PciOpen, PciReadWrite, PciRelease
  <2> QED
    BY <2>2, <2>3, <2>4, <2>5
<1>3. TypeInv /\ Regions => TypeOK
  BY DEF TypeInv, Typed, TypeOK, Places
<1> QED
  BY <1>1, <1>2, <1>3, PTL DEF Spec

-----------------------------------------------------------------------------
(* A device that is in the table is past the search and not yet removed,   *)
(* and its entry is the one its probe took: this is what makes pci_cdev_del *)
(* leave nothing behind.  It needs no assumption on the search, which two  *)
(* probes may have ended at one entry.                                     *)
Owning == {"p_add", "p_store", "p_regions", "bound", "failed", "r_pair"}

Held == \A i \in Slots : \A d \in Devices :
          pair_dev[i] = d => minor_of[d] = i /\ pc[d] \in Owning

LEMMA ReturnZeroKeeps ==
  ASSUME Typed, NEW d \in Devices, ReturnZero(d)
  PROVE  pc'[d] = "failed" /\ \A e \in Devices : e # d => pc'[e] = pc[e]
BY DEF Typed, ReturnZero

LEMMA SearchHeld ==
  ASSUME Typed, Held, NEW d \in Devices, Search(d)
  PROVE  Held'
<1>1. CASE ProbeStart(d) \/ ProbeNext(d) \/ ProbeFree(d)
  <2>1. \A i \in Slots : pair_dev[i] # d
    BY <1>1 DEF ProbeStart, ProbeNext, ProbeFree, Held, Owning
  <2>2. pair_dev' = pair_dev
    BY <1>1 DEF ProbeStart, ProbeNext, ProbeFree, table
  <2>3. \A e \in Devices : e # d => minor_of'[e] = minor_of[e] /\ pc'[e] = pc[e]
    BY <1>1 DEF ProbeStart, ProbeNext, ProbeFree, Typed, probe
  <2> QED
    BY <2>1, <2>2, <2>3 DEF Held
<1>2. CASE ProbeFull(d)
  <2>1. \A i \in Slots : pair_dev[i] # d
    BY <1>2 DEF ProbeFull, Held, Owning
  <2> QED
    BY <1>2, <2>1, ReturnZeroKeeps DEF ProbeFull, Held, table, probe
<1>3. CASE ProbeTake(d)
  <2>1. \A i \in Slots : pair_dev[i] # d
    BY <1>3 DEF ProbeTake, Held, Owning
  <2>2. \A i \in Slots : pair_dev'[i] = IF i = minor_of[d] THEN d ELSE pair_dev[i]
    BY <1>3 DEF ProbeTake, Typed
  <2>3. minor_of' = minor_of /\ pc'[d] = "p_add" /\ \A e \in Devices : e # d => pc'[e] = pc[e]
    BY <1>3 DEF ProbeTake, Typed, probe
  <2> QED
    BY <2>1, <2>2, <2>3 DEF Held, Owning
<1> QED
  BY <1>1, <1>2, <1>3 DEF Search

LEMMA ProbeHeld ==
  ASSUME Typed, Held, NEW d \in Devices, AnyProbe(d)
  PROVE  Held'
<1>1. CASE Search(d)
  BY <1>1, SearchHeld
<1>2. CASE Publish(d) \/ GiveUp(d) \/ Bind(d)
  <2>1. pair_dev' = pair_dev /\ minor_of' = minor_of
    BY <1>2, AddCases DEF Publish, ProbeStore, GiveUp, Bind, table, probe
  <2>2. /\ pc[d] \in Owning => pc'[d] \in Owning
        /\ \A e \in Devices : e # d => pc'[e] = pc[e]
    <3>1. CASE ReturnZero(d)
      BY <3>1, ReturnZeroKeeps DEF Owning
    <3>2. CASE \E next \in {"p_store", "p_regions", "bound"} : pc' = [pc EXCEPT ![d] = next]
      BY <3>2 DEF Typed, Owning
    <3>3. CASE pc' = pc
      BY <3>3
    <3>4. CASE ProbeAdd(d)
      BY <3>1, <3>2, <3>3, <3>4, AddCases DEF Added, NotAdded, NoCdev
    <3> QED
      BY <1>2, <3>1, <3>2, <3>4 DEF Publish, ProbeStore, GiveUp, Bind
  <2> QED
    BY <2>1, <2>2 DEF Held
<1> QED
  BY <1>1, <1>2 DEF AnyProbe

LEMMA RemoveHeld ==
  ASSUME Typed, Held, NEW d \in Devices, AnyRemove(d)
  PROVE  Held'
<1>1. CASE RemoveCdev(d)
  <2>1. pc'[d] = "r_pair" /\ \A e \in Devices : e # d => pc'[e] = pc[e]
    BY <1>1 DEF RemoveCdev, Typed
  <2> QED
    BY <1>1, <2>1 DEF RemoveCdev, Held, Owning, table, probe
<1>2. CASE RemovePair(d)
  <2>1. \A i \in Slots : pair_dev'[i] # d /\ (pair_dev'[i] # NULL => pair_dev'[i] = pair_dev[i])
    BY <1>2, PairAssumption DEF RemovePair, Typed
  <2>2. minor_of' = minor_of /\ \A e \in Devices : e # d => pc'[e] = pc[e]
    BY <1>2 DEF RemovePair, Typed, probe
  <2> QED
    BY <2>1, <2>2, PairAssumption DEF Held
<1>3. CASE LetGo(d)
  <2>1. \A i \in Slots : pair_dev[i] # d
    BY <1>3 DEF LetGo, Held, Owning
  <2>2. \A e \in Devices : e # d => pc'[e] = pc[e]
    BY <1>3 DEF LetGo, Typed
  <2> QED
    BY <1>3, <2>1, <2>2 DEF LetGo, Held, table, probe
<1> QED
  BY <1>1, <1>2, <1>3 DEF AnyRemove

LEMMA HeldStep ==
  ASSUME Typed, Held, [AnyNext]_sans
  PROVE  Held'
<1>1. CASE ModuleLoad
  <2>1. \A i \in Slots : pair_dev'[i] = NULL
    BY <1>1 DEF ModuleLoad, pci_cdev_init
  <2> QED
    BY <2>1, PairAssumption DEF Held
<1>2. CASE ModuleUnload \/ UnloadDone \/ \E u \in Users : FileOp(u)
  <2>1. pair_dev' = pair_dev /\ pc' = pc /\ minor_of' = minor_of
    BY <1>2 DEF ModuleUnload, UnloadDone, FileOp, OpenEnter, PciOpen, PciReadWrite, PciRelease,
                table, probe
  <2> QED
    BY <2>1 DEF Held
<1>3. CASE UNCHANGED sans
  BY <1>3 DEF sans, table, probe, Held
<1> QED
  BY <1>1, <1>2, <1>3, ProbeHeld, RemoveHeld DEF AnyNext

LEMMA HeldIsEnough == Held => NoEntryLost
<1>1. SUFFICES ASSUME Held, NEW d \in Devices
               PROVE  Cardinality(Owned(d)) <= (IF pc[d] = "unbound" THEN 0 ELSE 1)
  BY DEF NoEntryLost
<1>2. IsFiniteSet({}) /\ Cardinality({}) = 0
  BY FS_EmptySet
<1>3. CASE Owned(d) = {}
  BY <1>2, <1>3, SMT
<1>4. CASE Owned(d) # {}
  <2>1. pc[d] \in Owning /\ Owned(d) = {minor_of[d]}
    BY <1>1, <1>4 DEF Owned, Held
  <2>2. Cardinality(Owned(d)) = 1
    BY <2>1, FS_Singleton, Zenon
  <2>3. pc[d] # "unbound"
    BY <2>1 DEF Owning
  <2> QED
    BY <2>2, <2>3, SMT
<1> QED
  BY <1>3, <1>4

(* An entry is taken back only by remove, to which a probe that returns 0  *)
(* leaves its device: a device that is unbound has no entry and any other  *)
(* has one at most, so that the table of MAX_DEVICE entries does not fill  *)
(* up with failures, for any number of devices, however callbacks overlap. *)
THEOREM NoEntryIsLost == Spec => []NoEntryLost
<1>1. Init => Held
  BY PairAssumption DEF Init, Held
<1>2. TypeInv /\ Held /\ [Next]_vars => TypeInv' /\ Held'
  BY NextIsAny, TypeStep, HeldStep DEF TypeInv
<1> QED
  BY <1>1, <1>2, InitType, HeldIsEnough, PTL DEF Spec

-----------------------------------------------------------------------------
(* Cdevs are told apart by their numbers: no two devices have the same     *)
(* one, and that of a device at work is in no entry but its own, not even  *)
(* as what a removed device left there.                                    *)
Open == {"p_regions", "bound"}
Public == Open \cup {"p_store"}
Active == Public \cup {"p_add"}

Fresh ==
  /\ \A d \in Devices : cdev_of[d] # NULL => cdev_of[d] <= cdevs
  /\ \A i \in Slots : pair_cdev[i] # NULL => pair_cdev[i] <= cdevs
  /\ \A d, e \in Devices : d # e /\ cdev_of[d] = cdev_of[e] => cdev_of[d] = NULL
  /\ \A d \in Devices : \A i \in Slots :
       pc[d] \in Public /\ i # minor_of[d] => pair_cdev[i] # cdev_of[d]

(* The driver is gone only when no device is left to it.                   *)
Absent == phase = "absent" => \A d \in Devices : pc[d] = "unbound"

(* Until two probes take one entry: a device at work has the entry of its  *)
(* minor; once its cdev is added the kernel has that for the minor, and    *)
(* after one more step the entry has it too; and they have nothing else.   *)
Own == \A d \in Devices : pc[d] \in Active => pair_dev[minor_of[d]] = d
Served == \A d \in Devices :
            /\ pc[d] \in Public => cdev_of[d] \in cdev_map[minor_of[d]]
            /\ pc[d] \in Open => pair_cdev[minor_of[d]] = cdev_of[d]
Nodes == \A m \in Slots : \A c \in cdev_map[m] : \E d \in Devices :
           pair_dev[m] = d /\ pc[d] \in Public /\ minor_of[d] = m /\ cdev_of[d] = c
Tidy == Own /\ Served /\ Nodes

LEMMA AbsentStep ==
  ASSUME Typed, Absent, AnyNext
  PROVE  Absent'
<1>1. CASE ModuleLoad \/ ModuleUnload \/ UnloadDone \/ \E u \in Users : FileOp(u)
  BY <1>1 DEF ModuleLoad, ModuleUnload, UnloadDone, FileOp, OpenEnter, PciOpen, PciReadWrite,
              PciRelease, Absent
<1>2. ASSUME NEW d \in Devices, AnyProbe(d) \/ AnyRemove(d)
      PROVE  Absent'
  <2>1. phase' = phase /\ (phase = "absent" => pc[d] # "unbound")
    BY <1>2 DEF AnyProbe, Search, AnyRemove, ProbeStart, ProbeNext, ProbeFull, ProbeFree, ProbeTake,
                Publish, ProbeAdd, ProbeStore, GiveUp, Bind, RemoveCdev, RemovePair, LetGo
  <2> QED
    BY <2>1 DEF Absent
<1>3. CASE UNCHANGED sans
  BY <1>3 DEF sans, Absent
<1> QED
  BY <1>1, <1>2, <1>3 DEF AnyNext

(* Cdevs are numbers, and NULL is none.                                    *)
LEMMA Numbers ==
  ASSUME Typed
  PROVE  /\ cdevs \in Nat /\ Cdevs \subseteq Nat /\ NULL \notin Cdevs /\ NULL \notin Nat
         /\ \A d \in Devices : cdev_of[d] # NULL => cdev_of[d] \in Nat
         /\ \A i \in Slots : pair_cdev[i] # NULL => pair_cdev[i] \in Nat
<1>1. Cdevs \subseteq Nat /\ NULL \notin Cdevs /\ NULL \notin Nat
  BY PairAssumption DEF Cdevs
<1>2. cdevs \in 0 .. MaxCdevs
  BY DEF Typed
<1>3. cdevs \in Nat
  BY <1>2, PairAssumption, SMT
<1>4. /\ \A d \in Devices : cdev_of[d] # NULL => cdev_of[d] \in Cdevs
      /\ \A i \in Slots : pair_cdev[i] # NULL => pair_cdev[i] \in Cdevs
  BY DEF Typed
<1> QED
  BY <1>1, <1>3, <1>4

LEMMA FreshKept ==
  ASSUME Fresh, UNCHANGED <<cdevs, cdev_of, pair_cdev>>,
         \A d \in Devices : pc'[d] \in Public => pc[d] \in Public /\ minor_of'[d] = minor_of[d]
  PROVE  Fresh'
BY DEF Fresh

(* The next cdev is nobody's yet.                                          *)
LEMMA FreshNumber ==
  ASSUME Typed, Fresh, NEW d \in Devices, UNCHANGED <<pair_cdev, minor_of>>,
         cdevs' = cdevs + 1, cdev_of' = [cdev_of EXCEPT ![d] = cdevs + 1],
         \A e \in Devices : e # d => pc'[e] = pc[e]
  PROVE  Fresh'
<1>1. cdevs \in Nat
  BY Numbers
<1>2. /\ \A e \in Devices : cdev_of[e] # NULL => cdev_of[e] \in Nat
      /\ \A i \in Slots : pair_cdev[i] # NULL => pair_cdev[i] \in Nat
      /\ NULL \notin Nat
  BY Numbers
<1>3. /\ cdev_of'[d] = cdevs + 1
      /\ \A e \in Devices : e # d => cdev_of'[e] = cdev_of[e]
  BY DEF Typed
<1>4. cdevs + 1 # NULL
  BY <1>1, <1>2
<1>5. \A e \in Devices : cdev_of'[e] # NULL => cdev_of'[e] <= cdevs'
  BY <1>1, <1>2, <1>3 DEF Fresh
<1>6. \A i \in Slots : pair_cdev'[i] # NULL => pair_cdev'[i] <= cdevs'
  BY <1>1, <1>2, <1>3 DEF Fresh
<1>7. \A e \in Devices : e # d => cdev_of[e] # cdevs + 1
  BY <1>1, <1>2, <1>4 DEF Fresh
<1>8. \A i \in Slots : pair_cdev[i] # cdevs + 1
  BY <1>1, <1>2, <1>4 DEF Fresh
<1>9. \A e, f \in Devices : e # f /\ cdev_of'[e] = cdev_of'[f] => cdev_of'[e] = NULL
  BY <1>3, <1>7 DEF Fresh
<1>10. \A e \in Devices : \A i \in Slots :
         pc'[e] \in Public /\ i # minor_of'[e] => pair_cdev'[i] # cdev_of'[e]
  BY <1>3, <1>8 DEF Fresh
<1> QED
  BY <1>5, <1>6, <1>9, <1>10 DEF Fresh

LEMMA FreshAdd ==
  ASSUME Typed, Fresh, NEW d \in Devices, ProbeAdd(d)
  PROVE  Fresh'
<1>1. UNCHANGED <<pair_cdev, minor_of>>
  BY AddCases
<1>2. CASE Added(d)
  <2>1. \A e \in Devices : e # d => pc'[e] = pc[e]
    BY <1>2 DEF Added, Typed
  <2> QED
    BY <1>1, <1>2, <2>1, FreshNumber DEF Added
<1>3. CASE NotAdded(d)
  <2>1. \A e \in Devices : e # d => pc'[e] = pc[e]
    BY <1>3, ReturnZeroKeeps DEF NotAdded
  <2> QED
    BY <1>1, <1>3, <2>1, FreshNumber DEF NotAdded
<1>4. CASE NoCdev(d)
  BY <1>1, <1>4, FreshKept DEF NoCdev
<1> QED
  BY <1>2, <1>3, <1>4, AddCases

LEMMA FreshStore ==
  ASSUME TypeInv, Fresh, NEW d \in Devices, ProbeStore(d)
  PROVE  Fresh'
<1>1. pc[d] = "p_store" /\ cdev_of[d] # NULL /\ minor_of[d] \in Slots
  <2>1. pc[d] = "p_store" /\ cdev_of[d] \in Cdevs /\ minor_of[d] \in Slots
    BY DEF ProbeStore, TypeInv, Typed, Provided
  <2> QED
    BY <2>1, Numbers DEF TypeInv
<1>2. /\ \A i \in Slots : pair_cdev'[i] = IF i = minor_of[d] THEN cdev_of[d] ELSE pair_cdev[i]
      /\ \A e \in Devices : pc'[e] \in Public => pc[e] \in Public
  BY <1>1 DEF ProbeStore, TypeInv, Typed, Public
<1>3. UNCHANGED <<cdevs, cdev_of, minor_of>>
  BY DEF ProbeStore, kernel, probe
<1> QED
  BY <1>1, <1>2, <1>3 DEF Fresh

LEMMA FreshStep ==
  ASSUME TypeInv, Absent, Fresh, AnyNext
  PROVE  Fresh'
<1>1. CASE ModuleLoad
  <2>1. \A i \in Slots : pair_cdev'[i] = NULL
    BY <1>1 DEF ModuleLoad, pci_cdev_init
  <2>2. UNCHANGED <<cdevs, cdev_of, minor_of, pc>> /\ \A d \in Devices : pc[d] \notin Public
    BY <1>1 DEF ModuleLoad, Absent, Public, Open, probe
  <2> QED
    BY <2>1, <2>2 DEF Fresh
<1>2. CASE ModuleUnload \/ UnloadDone \/ \E u \in Users : FileOp(u)
  <2>1. UNCHANGED <<cdevs, cdev_of, pair_cdev, minor_of, pc>>
    BY <1>2 DEF ModuleUnload, UnloadDone, FileOp, OpenEnter, PciOpen, PciReadWrite, PciRelease,
                table, kernel, probe
  <2> QED
    BY <2>1, FreshKept
<1>3. ASSUME NEW d \in Devices, ProbeStart(d) \/ ProbeNext(d) \/ ProbeFull(d) \/ ProbeFree(d)
             \/ ProbeTake(d)
      PROVE  Fresh'
  <2>1. UNCHANGED <<cdevs, cdev_of, pair_cdev>>
    BY <1>3 DEF ProbeStart, ProbeNext, ProbeFull, ProbeFree, ProbeTake, table, kernel, probe
  <2>2. /\ pc'[d] \notin Public
        /\ \A e \in Devices : e # d => pc'[e] = pc[e] /\ minor_of'[e] = minor_of[e]
    <3>1. CASE ProbeFull(d)
      BY <3>1, ReturnZeroKeeps DEF ProbeFull, TypeInv, Public, Open, probe
    <3> QED
      BY <1>3, <3>1 DEF ProbeStart, ProbeNext, ProbeFree, ProbeTake, TypeInv, Typed, Public, Open, probe
  <2> QED
    BY <2>1, <2>2, FreshKept
<1>4. ASSUME NEW d \in Devices, GiveUp(d) \/ Bind(d) \/ AnyRemove(d)
      PROVE  Fresh'
  <2>1. UNCHANGED <<cdevs, cdev_of, pair_cdev, minor_of>>
    BY <1>4 DEF GiveUp, Bind, AnyRemove, RemoveCdev, RemovePair, LetGo,
                table, kernel, probe
  <2>2. /\ pc'[d] \in Public => pc[d] \in Public
        /\ \A e \in Devices : e # d => pc'[e] = pc[e]
    <3>1. CASE GiveUp(d)
      BY <3>1, ReturnZeroKeeps DEF GiveUp, TypeInv, Public, Open
    <3>2. CASE Bind(d) \/ AnyRemove(d)
      BY <3>2 DEF Bind, AnyRemove, RemoveCdev, RemovePair, LetGo,
                  TypeInv, Typed, Public, Open
    <3> QED
      BY <1>4, <3>1, <3>2
  <2> QED
    BY <2>1, <2>2, FreshKept
<1>5. CASE UNCHANGED sans
  BY <1>5, FreshKept DEF sans, table, kernel, probe
<1>6. CASE \E d \in Devices : ProbeAdd(d) \/ ProbeStore(d)
  BY <1>6, FreshAdd, FreshStore DEF TypeInv
<1> QED
  BY <1>1, <1>2, <1>3, <1>4, <1>5, <1>6 DEF AnyNext, AnyProbe, Search, Publish

-----------------------------------------------------------------------------
(* A step in which only d moves, and is not at work afterwards: nothing of *)
(* the others changes.                                                     *)
LEMMA TidyKept ==
  ASSUME Tidy, NEW d \in Devices, pc[d] \notin Public, pc'[d] \notin Active,
         UNCHANGED <<pair_dev, pair_cdev, cdev_map>>,
         \A e \in Devices : e # d => /\ pc'[e] = pc[e] /\ minor_of'[e] = minor_of[e]
                                    /\ cdev_of'[e] = cdev_of[e]
  PROVE  Tidy'
<1>1. Own'
  BY DEF Tidy, Own
<1>2. Served'
  BY DEF Tidy, Served, Active, Public
<1>3. Nodes'
  BY DEF Tidy, Nodes
<1> QED
  BY <1>1, <1>2, <1>3 DEF Tidy

LEMMA TidySame ==
  ASSUME Tidy, UNCHANGED <<pair_dev, pair_cdev, cdev_map, cdev_of, minor_of, pc>>
  PROVE  Tidy'
<1>1. Own'
  BY DEF Tidy, Own
<1>2. Served'
  BY DEF Tidy, Served
<1>3. Nodes'
  BY DEF Tidy, Nodes
<1> QED
  BY <1>1, <1>2, <1>3 DEF Tidy

LEMMA TidySearch ==
  ASSUME Typed, Held, Tidy, NEW d \in Devices, Search(d), ~raced'
  PROVE  Tidy'
<1>1. CASE ProbeStart(d) \/ ProbeNext(d) \/ ProbeFull(d) \/ ProbeFree(d)
  <2>1. pc[d] \notin Public /\ UNCHANGED <<pair_dev, pair_cdev, cdev_map, cdev_of>>
    BY <1>1 DEF ProbeStart, ProbeNext, ProbeFull, ProbeFree, table, kernel, probe, Open, Public
  <2>2. /\ pc'[d] \notin Active
        /\ \A e \in Devices : e # d => pc'[e] = pc[e] /\ minor_of'[e] = minor_of[e]
    <3>1. CASE ProbeFull(d)
      BY <3>1, ReturnZeroKeeps DEF ProbeFull, Active, Public, Open, probe
    <3> QED
      BY <1>1, <3>1 DEF ProbeStart, ProbeNext, ProbeFree, Typed, Active, Public, Open, probe
  <2> QED
    BY <2>1, <2>2, TidyKept
<1>2. CASE ProbeTake(d)
  <2>1. pc[d] = "p_take" /\ pair_dev[minor_of[d]] = NULL /\ minor_of[d] \in Slots
    BY <1>2 DEF ProbeTake, Typed
  <2>2. /\ \A i \in Slots : pair_dev'[i] = IF i = minor_of[d] THEN d ELSE pair_dev[i]
        /\ pc'[d] = "p_add"
        /\ \A e \in Devices : e # d => pc'[e] = pc[e] /\ cdev_of'[e] = cdev_of[e]
        /\ UNCHANGED <<pair_cdev, cdev_map, minor_of>>
    BY <1>2 DEF ProbeTake, Typed, kernel, probe
  <2>3. \A e \in Devices : e # d => minor_of[e] \in Slots /\ e # NULL
    BY PairAssumption DEF Typed
  <2>4. Own'
    BY <2>1, <2>2, <2>3 DEF Tidy, Own
  <2>5. Served'
    BY <2>2 DEF Tidy, Served, Public, Open
  <2>6. Nodes'
    <3>1. SUFFICES ASSUME NEW m \in Slots, NEW c \in cdev_map[m]
                   PROVE  \E e \in Devices : /\ pair_dev'[m] = e /\ pc'[e] \in Public
                                              /\ minor_of'[e] = m /\ cdev_of'[e] = c
      BY <2>2 DEF Nodes
    <3>2. PICK e \in Devices : pair_dev[m] = e /\ pc[e] \in Public /\ minor_of[e] = m /\ cdev_of[e] = c
      BY DEF Tidy, Nodes
    <3>3. e # d /\ m # minor_of[d]
      BY <2>1, <2>3, <3>2, PairAssumption DEF Public, Open
    <3> QED
      BY <2>2, <3>2, <3>3
  <2> QED
    BY <2>4, <2>5, <2>6 DEF Tidy
<1> QED
  BY <1>1, <1>2 DEF Search

LEMMA TidyAdd ==
  ASSUME TypeInv, Tidy, NEW d \in Devices, ProbeAdd(d)
  PROVE  Tidy'
<1>1. /\ pc[d] = "p_add" /\ minor_of[d] \in Slots /\ pair_dev[minor_of[d]] = d
      /\ UNCHANGED <<pair_dev, pair_cdev, minor_of>>
  BY AddCases DEF TypeInv, Typed, Tidy, Own, Active
<1>2. CASE NotAdded(d)
  <2>1. pc'[d] = "failed" /\ \A e \in Devices : e # d => pc'[e] = pc[e]
    BY <1>2, ReturnZeroKeeps DEF NotAdded, TypeInv
  <2>2. cdev_map' = cdev_map /\ \A e \in Devices : e # d => cdev_of'[e] = cdev_of[e]
    BY <1>2 DEF NotAdded, TypeInv, Typed
  <2> QED
    BY <1>1, <2>1, <2>2, TidyKept DEF Active, Public, Open
<1>3. CASE Added(d)
  <2>1. cdev_map[minor_of[d]] = {}
    BY <1>1 DEF Tidy, Nodes, Public, Open
  <2>2. /\ cdev_map'[minor_of[d]] = {cdevs + 1} /\ cdev_of'[d] = cdevs + 1
        /\ \A m \in Slots : m # minor_of[d] => cdev_map'[m] = cdev_map[m]
        /\ pc'[d] = "p_store"
        /\ \A e \in Devices : e # d => pc'[e] = pc[e] /\ cdev_of'[e] = cdev_of[e]
    BY <1>1, <1>3, <2>1 DEF Added, TypeInv, Typed
  <2>3. Own'
    BY <1>1, <2>2 DEF Tidy, Own
  <2>4. \A e \in Devices : e # d /\ pc[e] \in Public =>
          minor_of[e] \in Slots /\ minor_of[e] # minor_of[d]
    BY <1>1 DEF TypeInv, Typed, Tidy, Own, Active
  <2>5. Served'
    BY <1>1, <2>2, <2>4 DEF Tidy, Served, Public, Open
  <2>6. Nodes'
    <3>1. SUFFICES ASSUME NEW m \in Slots, NEW c \in cdev_map'[m]
                   PROVE  \E e \in Devices : /\ pair_dev'[m] = e /\ pc'[e] \in Public
                                              /\ minor_of'[e] = m /\ cdev_of'[e] = c
      BY DEF Nodes
    <3>2. CASE m = minor_of[d]
      BY <1>1, <2>2, <3>2 DEF Public
    <3>3. CASE m # minor_of[d]
      <4>1. PICK e \in Devices : /\ pair_dev[m] = e /\ pc[e] \in Public
                                 /\ minor_of[e] = m /\ cdev_of[e] = c
        BY <2>2, <3>3 DEF Tidy, Nodes
      <4>2. e # d
        BY <3>3, <4>1
      <4> QED
        BY <1>1, <2>2, <4>1, <4>2
    <3> QED
      BY <3>2, <3>3
  <2> QED
    BY <2>3, <2>5, <2>6 DEF Tidy
<1>4. CASE NoCdev(d)
  <2>1. UNCHANGED <<pair_dev, pair_cdev, cdev_map, cdev_of, minor_of, pc>>
    BY <1>1, <1>4 DEF NoCdev
  <2> QED
    BY <2>1, TidySame
<1> QED
  BY <1>2, <1>3, <1>4, AddCases

LEMMA TidyStore ==
  ASSUME TypeInv, Tidy, NEW d \in Devices, ProbeStore(d)
  PROVE  Tidy'
<1>1. /\ pc[d] = "p_store" /\ minor_of[d] \in Slots /\ pair_dev[minor_of[d]] = d
      /\ UNCHANGED <<pair_dev, cdev_map, minor_of, cdev_of>>
  BY DEF ProbeStore, TypeInv, Typed, Tidy, Own, Active, Public, kernel, probe
<1>2. /\ pair_cdev'[minor_of[d]] = cdev_of[d]
      /\ \A m \in Slots : m # minor_of[d] => pair_cdev'[m] = pair_cdev[m]
      /\ pc'[d] = "p_regions" /\ \A e \in Devices : e # d => pc'[e] = pc[e]
  BY <1>1 DEF ProbeStore, TypeInv, Typed
<1>3. \A e \in Devices : e # d /\ pc[e] \in Public =>
        minor_of[e] \in Slots /\ minor_of[e] # minor_of[d]
  BY <1>1 DEF TypeInv, Typed, Tidy, Own, Active
<1>4. \A e \in Devices : (pc'[e] \in Active <=> pc[e] \in Active)
                         /\ (pc'[e] \in Public <=> pc[e] \in Public)
  BY <1>1, <1>2 DEF Active, Public, Open
<1>5. Own' /\ Nodes'
  BY <1>1, <1>4 DEF Tidy, Own, Nodes
<1>6. Served'
  BY <1>1, <1>2, <1>3, <1>4 DEF Tidy, Served, Public
<1> QED
  BY <1>5, <1>6 DEF Tidy

(* A device that leaves and takes with it the only cdev its minor has.     *)
LEMMA TidyLeave ==
  ASSUME Typed, Tidy, NEW d \in Devices, NEW c, pc'[d] \notin Active,
         UNCHANGED <<pair_dev, pair_cdev, cdev_of, minor_of>>,
         \A e \in Devices : e # d => pc'[e] = pc[e],
         \A m \in Slots : cdev_map'[m] = cdev_map[m] \ {c},
         pc[d] \in Public => cdev_of[d] = c,
         \A e \in Devices : e # d /\ pc[e] \in Public => cdev_of[e] # c
  PROVE  Tidy'
<1>1. Own'
  BY DEF Tidy, Own
<1>2. \A e \in Devices : minor_of[e] \in Slots
  BY DEF Typed
<1>3. Served'
  BY <1>2 DEF Tidy, Served, Active, Public
<1>4. Nodes'
  <2>1. SUFFICES ASSUME NEW m \in Slots, NEW b \in cdev_map'[m]
                 PROVE  \E e \in Devices : /\ pair_dev'[m] = e /\ pc'[e] \in Public
                                            /\ minor_of'[e] = m /\ cdev_of'[e] = b
    BY DEF Nodes
  <2>2. b \in cdev_map[m] /\ b # c
    BY <2>1
  <2>3. PICK e \in Devices : /\ pair_dev[m] = e /\ pc[e] \in Public
                             /\ minor_of[e] = m /\ cdev_of[e] = b
    BY <2>2 DEF Tidy, Nodes
  <2>4. e # d
    BY <2>2, <2>3
  <2> QED
    BY <2>3, <2>4
<1> QED
  BY <1>1, <1>3, <1>4 DEF Tidy

(* What remove finds: the cdev of d if it has an entry.                    *)
LEMMA CdevFound ==
  ASSUME Typed, Held, NEW d \in Devices
  PROVE  /\ Owned(d) = {} => CdevOf(d) = NULL
         /\ Owned(d) # {} => /\ Owned(d) = {minor_of[d]}
                             /\ CdevOf(d) = pair_cdev[minor_of[d]]
<1>1. CASE Owned(d) = {}
  BY <1>1 DEF CdevOf
<1>2. CASE Owned(d) # {}
  <2>1. Owned(d) = {minor_of[d]} /\ minor_of[d] \in Slots
    <3>1. \A i \in Owned(d) : i \in Slots /\ i = minor_of[d]
      BY DEF Owned, Held
    <3> QED
      BY <1>2, <3>1, Zenon
  <2>2. minor_of[d] <= minor_of[d]
    <3>1. minor_of[d] \in Int
      BY <2>1 DEF Slots
    <3> QED
      BY <3>1, SMT
  <2>3. First(Owned(d)) = minor_of[d]
    BY <2>1, <2>2 DEF First
  <2> QED
    BY <1>2, <2>1, <2>3 DEF CdevOf
<1> QED
  BY <1>1, <1>2

LEMMA TidyRegionsFail ==
  ASSUME TypeInv, Tidy, Fresh, NEW d \in Devices, GiveUp(d)
  PROVE  Tidy' /\ undefined' = "no"
<1>1. /\ pc[d] = "p_regions" /\ ReturnZero(d) /\ cdev_del(cdev_of[d])
      /\ UNCHANGED <<pair_dev, pair_cdev, cdev_of, minor_of>>
  BY DEF GiveUp, table, probe
<1>2. pc'[d] \notin Active /\ \A e \in Devices : e # d => pc'[e] = pc[e]
  BY <1>1, ReturnZeroKeeps DEF TypeInv, Active, Public, Open
<1>3. /\ minor_of[d] \in Slots /\ cdev_of[d] \in Cdevs /\ cdev_of[d] # NULL
      /\ pair_cdev[minor_of[d]] = cdev_of[d] /\ cdev_of[d] \in cdev_map[minor_of[d]]
  BY <1>1, Numbers DEF TypeInv, Typed, Provided, Tidy, Served, Public, Open
<1>4. \A e \in Devices : e # d => cdev_of[e] # cdev_of[d]
  BY <1>3 DEF Fresh
<1>5. \A m \in Slots : cdev_map'[m] = cdev_map[m] \ {cdev_of[d]}
  BY <1>1 DEF cdev_del
<1>6. undefined' = "no"
  BY <1>1, <1>3 DEF cdev_del
<1> QED
  BY <1>1, <1>2, <1>3, <1>4, <1>5, <1>6, TidyLeave DEF TypeInv

LEMMA TidyRegions ==
  ASSUME Typed, Tidy, NEW d \in Devices, Bind(d)
  PROVE  Tidy'
<1>1. /\ pc[d] = "p_regions" /\ pc'[d] = "bound"
      /\ \A e \in Devices : e # d => pc'[e] = pc[e]
      /\ UNCHANGED <<pair_dev, pair_cdev, cdev_map, cdev_of, minor_of>>
  BY DEF Bind, Typed, table, probe
<1>2. \A e \in Devices : /\ pc'[e] \in Open <=> pc[e] \in Open
                         /\ pc'[e] \in Public <=> pc[e] \in Public
                         /\ pc'[e] \in Active <=> pc[e] \in Active
  BY <1>1 DEF Open, Public, Active
<1> QED
  BY <1>1, <1>2 DEF Tidy, Own, Served, Nodes

LEMMA TidyRemoveCdev ==
  ASSUME TypeInv, Held, Tidy, Fresh, NEW d \in Devices, RemoveCdev(d), undefined = "no"
  PROVE  Tidy' /\ (pc[d] = "bound" => undefined' = "no")
<1>1. /\ pc[d] \in {"bound", "failed"} /\ pc'[d] = "r_pair"
      /\ \A e \in Devices : e # d => pc'[e] = pc[e]
      /\ UNCHANGED <<pair_dev, pair_cdev, cdev_of, minor_of>>
  BY DEF RemoveCdev, TypeInv, Typed, table, probe
<1>2. minor_of[d] \in Slots
  BY DEF TypeInv, Typed
<1>3. CASE CdevOf(d) = NULL
  <2>1. pc[d] # "bound"
    <3>1. SUFFICES ASSUME pc[d] = "bound" PROVE FALSE
      OBVIOUS
    <3>2. pair_dev[minor_of[d]] = d /\ cdev_of[d] \in cdev_map[minor_of[d]]
          /\ pair_cdev[minor_of[d]] = cdev_of[d]
      BY <3>1 DEF Tidy, Own, Served, Active, Public, Open
    <3>3. Owned(d) # {}
      BY <1>2, <3>2 DEF Owned
    <3>4. cdev_of[d] = NULL
      BY <1>3, <3>2, <3>3, CdevFound DEF TypeInv
    <3> QED
      BY <1>2, <3>2, <3>4, Numbers DEF TypeInv, Typed
  <2>2. cdev_map' = cdev_map
    BY <1>3 DEF RemoveCdev
  <2> QED
    BY <1>1, <2>1, <2>2, TidyKept DEF Open, Public, Active
<1>4. CASE CdevOf(d) # NULL
  <2>1. cdev_del(CdevOf(d))
    BY <1>4 DEF RemoveCdev
  <2>2. pair_dev[minor_of[d]] = d /\ CdevOf(d) = pair_cdev[minor_of[d]]
    BY <1>4, CdevFound DEF TypeInv, Owned
  <2>3. \A e \in Devices : e # d /\ pc[e] \in Public => cdev_of[e] # CdevOf(d)
    <3>1. SUFFICES ASSUME NEW e \in Devices, e # d, pc[e] \in Public PROVE cdev_of[e] # CdevOf(d)
      OBVIOUS
    <3>2. minor_of[d] # minor_of[e]
      BY <2>2, <3>1 DEF Tidy, Own, Active
    <3> QED
      BY <1>2, <2>2, <3>1, <3>2 DEF Fresh
  <2>4. \A m \in Slots : cdev_map'[m] = cdev_map[m] \ {CdevOf(d)}
    BY <2>1 DEF cdev_del
  <2>5. pc[d] = "bound" => undefined' = "no"
    BY <1>2, <2>1, <2>2 DEF cdev_del, Tidy, Served, Public, Open
  <2>6. pc[d] \in Public => cdev_of[d] = CdevOf(d)
    BY <1>1, <1>2, <2>2 DEF Tidy, Served, Public, Open
  <2>7. pc'[d] \notin Active
    BY <1>1 DEF Active, Public, Open
  <2>8. Tidy'
    BY <1>1, <2>3, <2>4, <2>6, <2>7, TidyLeave DEF TypeInv
  <2> QED
    BY <2>5, <2>8
<1> QED
  BY <1>3, <1>4

LEMMA TidyRemove ==
  ASSUME Typed, Tidy, NEW d \in Devices, RemovePair(d) \/ LetGo(d)
  PROVE  Tidy'
<1>1. CASE RemovePair(d)
  <2>1. /\ pc[d] = "r_pair" /\ pc'[d] = "r_region"
        /\ \A e \in Devices : e # d => pc'[e] = pc[e]
        /\ UNCHANGED <<pair_cdev, cdev_map, cdev_of, minor_of>>
        /\ \A i \in Slots : pair_dev[i] # d => pair_dev'[i] = pair_dev[i]
    BY <1>1 DEF RemovePair, Typed, kernel, probe
  <2>2. \A e \in Devices : minor_of[e] \in Slots
    BY DEF Typed
  <2>3. Own'
    BY <2>1, <2>2 DEF Tidy, Own, Active, Public, Open
  <2>4. Served'
    BY <2>1, <2>2 DEF Tidy, Served, Public, Open
  <2>5. Nodes'
    BY <2>1, <2>2 DEF Tidy, Nodes, Public, Open
  <2> QED
    BY <2>3, <2>4, <2>5 DEF Tidy
<1>2. CASE LetGo(d)
  <2>1. /\ pc[d] = "r_region" /\ pc'[d] = "unbound"
        /\ \A e \in Devices : e # d => pc'[e] = pc[e]
        /\ UNCHANGED <<pair_dev, pair_cdev, cdev_map, cdev_of, minor_of>>
    BY <1>2 DEF LetGo, Typed, table, probe
  <2> QED
    BY <2>1, TidyKept DEF Open, Public, Active
<1> QED
  BY <1>1, <1>2

LEMMA TidyModule ==
  ASSUME Typed, Held, Absent, Tidy, ModuleLoad \/ ModuleUnload \/ UnloadDone
  PROVE  Tidy' /\ (undefined = "no" => undefined' = "no")
<1>1. CASE ModuleUnload
  BY <1>1 DEF ModuleUnload, table, kernel, probe, Tidy, Own, Served, Nodes
<1>2. CASE ModuleLoad \/ UnloadDone
  <2>1. \A d \in Devices : pc[d] = "unbound"
    BY <1>2 DEF ModuleLoad, UnloadDone, Absent
  <2>2. \A m \in Slots : cdev_map[m] = {}
    BY <2>1 DEF Tidy, Nodes, Public, Open
  <2>3. pc' = pc /\ \A m \in Slots : cdev_map'[m] = {}
    BY <1>2, <2>2 DEF ModuleLoad, UnloadDone
  <2>4. Tidy'
    BY <2>1, <2>3 DEF Tidy, Own, Served, Nodes, Active, Public, Open
  <2>5. CASE UnloadDone
    <3>1. Slots \ Free = {}
      <4>1. \A i \in Slots : pair_dev[i] \notin Devices
        BY <2>1 DEF Held, Owning
      <4>2. \A i \in Slots : pair_dev[i] = NULL
        BY <4>1 DEF Typed
      <4> QED
        BY <4>2 DEF Free
    <3> QED
      BY <2>4, <2>5, <3>1 DEF UnloadDone
  <2> QED
    BY <1>2, <2>4, <2>5 DEF ModuleLoad
<1> QED
  BY <1>1, <1>2

-----------------------------------------------------------------------------
(* The inductive invariant.                                                *)
PairInv == TypeInv /\ Held /\ Absent /\ Fresh /\ (~raced => Tidy)

LEMMA RacedStays ==
  ASSUME Typed, [AnyNext]_sans, ~raced'
  PROVE  ~raced
<1>1. CASE \E d \in Devices : ProbeTake(d)
  BY <1>1 DEF ProbeTake, Typed
<1>2. CASE raced' = raced
  BY <1>2
<1> QED
  BY <1>1, <1>2 DEF AnyNext, sans, ModuleLoad, ModuleUnload, UnloadDone, AnyProbe, Search, AnyRemove,
     ProbeStart, ProbeNext, ProbeFull, ProbeFree, Publish, ProbeAdd, ProbeStore, GiveUp, Bind,
     RemoveCdev, RemovePair, LetGo, FileOp, OpenEnter, PciOpen, PciReadWrite, PciRelease

LEMMA TidyStep ==
  ASSUME PairInv, Tidy, [AnyNext]_sans, ~raced'
  PROVE  /\ Tidy'
         /\ \/ undefined' # "deleted twice" \/ undefined' = undefined
            \/ \E d \in Devices : pc[d] = "failed" /\ pc'[d] = "r_pair"
<1>1. TypeInv /\ Typed /\ Held /\ Absent /\ Fresh
  BY DEF PairInv, TypeInv
<1>2. CASE UNCHANGED sans
  BY <1>2 DEF sans, table, kernel, probe, Tidy, Own, Served, Nodes
<1>3. CASE undefined = "no" /\ (ModuleLoad \/ ModuleUnload \/ UnloadDone)
  BY <1>1, <1>3, TidyModule
<1>4. ASSUME NEW u \in Users, FileOp(u)
      PROVE  Tidy' /\ (undefined' # "deleted twice" \/ undefined' = undefined)
  <2>1. UNCHANGED <<pair_dev, pair_cdev, cdev_map, cdev_of, minor_of, pc>>
    BY <1>4 DEF FileOp, OpenEnter, PciOpen, PciReadWrite, PciRelease, table, kernel, probe
  <2>2. undefined' # "deleted twice" \/ undefined' = undefined
    BY <1>4 DEF FileOp, OpenEnter, PciOpen, PciReadWrite, PciRelease
  <2> QED
    BY <2>1, <2>2, TidySame
<1>5. ASSUME undefined = "no", NEW d \in Devices, AnyProbe(d)
      PROVE  Tidy' /\ undefined' # "deleted twice"
  <2>1. CASE Search(d)
    BY <1>1, <1>5, <2>1, TidySearch
       DEF Search, ProbeStart, ProbeNext, ProbeFull, ProbeFree, ProbeTake
  <2>2. CASE ProbeAdd(d)
    BY <1>1, <1>5, <2>2, TidyAdd, AddCases DEF Added, NotAdded, NoCdev
  <2>3. CASE GiveUp(d)
    BY <1>1, <2>3, TidyRegionsFail
  <2>4. CASE Bind(d)
    BY <1>1, <1>5, <2>4, TidyRegions DEF Bind
  <2>5. CASE ProbeStore(d)
    BY <1>1, <1>5, <2>5, TidyStore DEF ProbeStore
  <2> QED
    BY <1>5, <2>1, <2>2, <2>3, <2>4, <2>5 DEF AnyProbe, Publish
<1>6. ASSUME undefined = "no", NEW d \in Devices, AnyRemove(d)
      PROVE  /\ Tidy'
             /\ undefined' = "no" \/ (pc[d] = "failed" /\ pc'[d] = "r_pair")
  <2>1. CASE RemoveCdev(d)
    <3>1. pc[d] \in {"bound", "failed"} /\ pc'[d] = "r_pair"
      BY <1>1, <2>1 DEF RemoveCdev, Typed
    <3> QED
      BY <1>1, <1>6, <2>1, <3>1, TidyRemoveCdev
  <2>2. CASE RemovePair(d) \/ LetGo(d)
    BY <1>1, <1>6, <2>2, TidyRemove DEF RemovePair, LetGo
  <2> QED
    BY <1>6, <2>1, <2>2 DEF AnyRemove
<1> QED
  BY <1>2, <1>3, <1>4, <1>5, <1>6 DEF AnyNext

LEMMA PairInit == Init => PairInv
<1>1. SUFFICES ASSUME Init PROVE PairInv
  OBVIOUS
<1>2. TypeInv
  BY <1>1, InitType
<1>3. Held /\ Absent
  BY <1>1, PairAssumption DEF Init, Held, Absent
<1>4. Fresh /\ Tidy
  BY <1>1 DEF Init, Fresh, Tidy, Own, Served, Nodes, Active, Public, Open
<1> QED
  BY <1>2, <1>3, <1>4 DEF PairInv

LEMMA PairStep ==
  ASSUME PairInv, [AnyNext]_sans
  PROVE  PairInv'
<1>1. TypeInv /\ Typed /\ Held /\ Absent /\ Fresh
  BY DEF PairInv, TypeInv
<1>2. TypeInv' /\ Held'
  BY <1>1, TypeStep, HeldStep
<1>3. Absent' /\ Fresh'
  <2>1. CASE AnyNext
    BY <1>1, <2>1, AbsentStep, FreshStep
  <2>2. CASE UNCHANGED sans
    BY <1>1, <2>2, FreshKept DEF Absent, sans, table, kernel, probe
  <2> QED
    BY <2>1, <2>2
<1>4. ~raced' => Tidy'
  BY <1>1, RacedStays, TidyStep DEF PairInv
<1> QED
  BY <1>2, <1>3, <1>4 DEF PairInv

(* Until two probes take one entry (the search of pcidev.c:96-100 has no   *)
(* lock), a minor that can be opened has its device and the one registered *)
(* cdev in the table: through every failure, unload and load, for any      *)
(* number of devices and entries.                                          *)
THEOREM NodesHaveDevices == Spec => []NodeHasDevice
<1>1. PairInv => NodeHasDevice
  BY DEF PairInv, Tidy, Nodes, Served, NodeHasDevice, Public, Open
<1>2. PairInv /\ [Next]_vars => PairInv'
  BY NextIsAny, PairStep
<1> QED
  BY <1>1, <1>2, PairInit, PTL DEF Spec

(* Nothing but the removal of a device whose probe gave up, or two probes  *)
(* at one entry, makes the driver delete a cdev that is not registered     *)
(* (pcidev.c:463): no bound device does, and the loop of module_unload     *)
(* finds nothing.                                                          *)
THEOREM DeletedTwiceExplained == Spec => DeletedTwiceOnlyAfterFailure
<1>1. PairInv /\ [Next]_vars => PairInv'
  BY NextIsAny, PairStep
<1>2. PairInv /\ [Next]_vars =>
        [undefined' = "deleted twice" =>
           \/ undefined = "deleted twice" \/ raced
           \/ \E d \in Devices : pc[d] = "failed" /\ pc'[d] = "r_pair"]_vars
  <2>1. SUFFICES ASSUME PairInv, [AnyNext]_sans, ~raced, undefined' = "deleted twice",
                        undefined # "deleted twice"
                 PROVE  \E d \in Devices : pc[d] = "failed" /\ pc'[d] = "r_pair"
    BY NextIsAny
  <2>2. Tidy
    BY <2>1 DEF PairInv
  <2>3. CASE ~raced'
    BY <2>1, <2>2, <2>3, TidyStep
  <2>4. CASE raced'
    <3>1. PICK d \in Devices : ProbeTake(d)
      BY <2>1, <2>4 DEF AnyNext, sans, ModuleLoad, ModuleUnload, UnloadDone, AnyProbe, Search,
         AnyRemove, ProbeStart, ProbeNext, ProbeFull, ProbeFree, Publish, ProbeAdd, ProbeStore, GiveUp,
         Bind, RemoveCdev, RemovePair, LetGo, FileOp, OpenEnter, PciOpen,
         PciReadWrite, PciRelease
    <3> QED
      BY <2>1, <3>1 DEF ProbeTake
  <2> QED
    BY <2>3, <2>4
<1> QED
  BY <1>1, <1>2, PairInit, PTL DEF Spec, DeletedTwiceOnlyAfterFailure

=============================================================================
