--------------------------- MODULE Chardev_proofs ---------------------------
(***************************************************************************)
(* The character device for any number of processes and files: that the    *)
(* reference count is right and the code stays in memory while it is used, *)
(* however opens, reads and releases interleave; that one file is open at  *)
(* a time until two opens overlap; and how far two readers of it get.      *)
(***************************************************************************)
EXTENDS Chardev, FiniteSetTheorems, TLAPS

Places == {"idle", "c_ret"} \cup Opening \cup Reading \cup Closing

(* A process that opens or releases has no file, one that reads has one.   *)
Placed == \A p \in Procs :
  /\ pc[p] \in Opening \cup Closing => file[p] = NULL
  /\ pc[p] \in Reading => file[p] # NULL

(* Code that is gone is not used: by nobody at all while behaviour is      *)
(* defined, and never with a file in hand.                                 *)
Pinned == text = 0 => \A p \in Procs :
  /\ file[p] = NULL /\ pc[p] \notin Closing
  /\ undefined = "no" => pc[p] = "idle"

(* msg_ptr points into the buffer before anybody can read through it.      *)
Pointed == \A p \in Procs :
  /\ pc[p] = "o_get" \/ file[p] # NULL => msg_ptr \in Nat
  /\ pc[p] = "r_store" => loaded[p] \in Nat

(* An open under way has passed the bound on their number at most once.    *)
Printing == Inside({"o_load", "o_store", "o_print"})
Bounded == counter + Cardinality(Printing) <= MaxOpens + Cardinality(Procs)

Types ==
  /\ text \in 0 .. MaxLoads /\ loads \in 0 .. MaxLoads /\ nodes \subseteq 1 .. MaxLoads
  /\ refs \in Int /\ has_open \in Int /\ counter \in Nat
  /\ msg_ptr \in Nat \cup {NULL}
  /\ pc \in [Procs -> Places] /\ file \in [Procs -> Files \cup {NULL}]
  /\ loaded \in [Procs -> Int]
  /\ undefined \in {"no", "freed code", "past buffer"}

Safe == Types /\ Placed /\ Pinned /\ Pointed

-----------------------------------------------------------------------------
(* Steps of one process. *)

LEMMA AtMoves ==
  ASSUME Types, NEW p \in Procs, NEW here, NEW next \in Places, At(p, here, next)
  PROVE  /\ pc[p] = here /\ pc'[p] = next /\ pc' \in [Procs -> Places]
         /\ \A q \in Procs : q # p => pc'[q] = pc[q]
BY DEF At, Types

LEMMA SetFinite ==
  ASSUME NEW states
  PROVE  /\ IsFiniteSet(Inside(states)) /\ Cardinality(Inside(states)) \in Nat
         /\ Cardinality(Inside(states)) <= Cardinality(Procs) /\ Cardinality(Procs) \in Nat
BY ProcsFinite, FS_Subset, FS_CardinalityType DEF Inside

(* Finitely many processes hold finitely many files.                       *)
LEMMA FilesFinite ==
  ASSUME Types
  PROVE  IsFiniteSet(OpenFiles) /\ Cardinality(OpenFiles) \in Nat
<1> DEFINE held == {file[p] : p \in Procs}
<1>1. file \in Surjection(Procs, held)
  BY DEF Types, Surjection
<1>2. IsFiniteSet(held)
  BY <1>1, ProcsFinite, FS_Surjection
<1>3. OpenFiles \subseteq held
  BY DEF OpenFiles
<1> QED
  BY <1>2, <1>3, FS_Subset, FS_CardinalityType

LEMMA InitSafe == Init => Safe
<1>1. SUFFICES ASSUME Init PROVE Safe
  OBVIOUS
<1>2. Types
  <2>1. 0 \in 0 .. MaxLoads
    BY ChardevAssumption
  <2> QED
    BY <1>1, <2>1 DEF Init, Types, Places
<1> QED
  BY <1>1, <1>2 DEF Init, Safe, Placed, Pinned, Pointed, Opening, Closing, Reading

LEMMA ModuleSafe ==
  ASSUME Safe, undefined = "no", RefsCountFiles, ModuleLoad \/ ModuleUnload
  PROVE  Safe'
<1>1. CASE ModuleLoad
  <2>1. \A p \in Procs : pc[p] = "idle" /\ file[p] = NULL
    BY <1>1 DEF ModuleLoad, Safe, Pinned
  <2>2. loads + 1 \in 0 .. MaxLoads /\ loads + 1 \in 1 .. MaxLoads
    <3>1. loads \in 0 .. MaxLoads /\ loads < MaxLoads
      BY <1>1 DEF ModuleLoad, Safe, Types
    <3> QED
      BY <3>1, ChardevAssumption, SMT
  <2>3. Types'
    BY <1>1, <2>2 DEF ModuleLoad, Safe, Types
  <2> QED
    BY <1>1, <2>1, <2>3 DEF ModuleLoad, Safe, Placed, Pinned, Pointed, Reading, Opening, Closing
<1>2. CASE ModuleUnload
  <2>1. OpenFiles = {} /\ Inside(Closing) = {}
    <3>1. refs = 0 /\ refs = Cardinality(OpenFiles) + Cardinality(Inside(Closing))
      BY <1>2 DEF ModuleUnload, RefsCountFiles
    <3>2. IsFiniteSet(OpenFiles) /\ Cardinality(OpenFiles) \in Nat
      BY FilesFinite DEF Safe
    <3>3. Cardinality(OpenFiles) = 0 /\ Cardinality(Inside(Closing)) = 0
      BY <3>1, <3>2, SetFinite
    <3> QED
      BY <3>2, <3>3, SetFinite, FS_EmptySet
  <2>2. \A p \in Procs : file[p] = NULL /\ pc[p] \notin Closing
    BY <2>1 DEF OpenFiles, Inside
  <2>3. 0 \in 0 .. MaxLoads
    BY ChardevAssumption
  <2>4. undefined' = "no" => \A p \in Procs : pc[p] = "idle"
    BY <1>2 DEF ModuleUnload, Inside
  <2> QED
    BY <1>2, <2>2, <2>3, <2>4 DEF ModuleUnload, Safe, Types, Placed, Pinned, Pointed, data
<1> QED
  BY <1>1, <1>2

LEMMA OpenSafe ==
  ASSUME Safe, undefined = "no", NEW p \in Procs, Open(p)
  PROVE  Safe'
<1> USE DEF Safe
<1>1. CASE OpenEnter(p)
  <2>1. At(p, "idle", "o_test") /\ "o_test" \in Places /\ file[p] = NULL
    BY <1>1 DEF OpenEnter, Places, Opening
  <2>2. /\ undefined' \in {"no", "freed code"}
        /\ undefined' = "no" => text # 0
    <3>1. \A load \in nodes : load # 0
      BY DEF Types
    <3> QED
      BY <1>1, <3>1 DEF OpenEnter
  <2>3. UNCHANGED <<kernel, refs, data, file, loaded>>
    BY <1>1 DEF OpenEnter
  <2>4. Types'
    BY <2>1, <2>2, <2>3, AtMoves DEF Types, kernel, data
  <2>5. Placed' /\ Pointed'
    BY <2>1, <2>3, AtMoves DEF Placed, Pointed, data, Opening, Reading, Closing
  <2>6. Pinned'
    BY <2>1, <2>2, <2>3, AtMoves DEF Pinned, kernel, Closing
  <2> QED
    BY <2>4, <2>5, <2>6
<1>2. CASE OpenBusy(p)
  <2>1. At(p, "o_test", "idle") /\ "idle" \in Places
    BY <1>2 DEF OpenBusy, Places
  <2> QED
    BY <1>2, <2>1, AtMoves
       DEF OpenBusy, Types, Placed, Pinned, Pointed, kernel, data, Opening, Reading, Closing
<1>3. CASE OpenTest(p)
  <2>1. At(p, "o_test", "o_load") /\ "o_load" \in Places
    BY <1>3 DEF OpenTest, Places, Opening
  <2> QED
    BY <1>3, <2>1, AtMoves
       DEF OpenTest, Types, Placed, Pinned, Pointed, kernel, data, Opening, Reading, Closing
<1>4. CASE OpenStore(p)
  <2>1. At(p, "o_store", "o_print") /\ "o_print" \in Places
    BY <1>4 DEF OpenStore, Places, Opening
  <2>2. has_open' \in Int /\ UNCHANGED <<kernel, refs, counter, msg_ptr, file, loaded, undefined>>
    BY <1>4 DEF OpenStore, Types
  <2> QED
    BY <2>1, <2>2, AtMoves
       DEF Types, Placed, Pinned, Pointed, kernel, Opening, Reading, Closing
<1>5. CASE OpenPrint(p)
  <2>1. At(p, "o_print", "o_reset") /\ "o_reset" \in Places
    BY <1>5 DEF OpenPrint, Places, Opening
  <2>2. counter' = counter + 1 /\ undefined' \in {"no", "past buffer"}
    BY <1>5 DEF OpenPrint
  <2>3. UNCHANGED <<kernel, refs, has_open, msg_ptr, file, loaded>>
    BY <1>5 DEF OpenPrint
  <2>4. counter' \in Nat
    <3>1. counter \in Nat
      BY DEF Types
    <3>2. counter + 1 \in Nat
      BY <3>1
    <3> QED
      BY <2>2, <3>2
  <2>5. Types'
    BY <2>1, <2>2, <2>3, <2>4, AtMoves DEF Types, kernel
  <2>6. Placed' /\ Pointed'
    BY <2>1, <2>3, AtMoves DEF Placed, Pointed, Opening, Reading, Closing
  <2>7. text # 0
    BY <2>1, AtMoves DEF Pinned
  <2>8. Pinned'
    BY <2>3, <2>7 DEF Pinned, kernel
  <2> QED
    BY <2>5, <2>6, <2>8
<1>6. CASE OpenReset(p)
  <2>1. At(p, "o_reset", "o_get") /\ "o_get" \in Places
    BY <1>6 DEF OpenReset, Places, Opening
  <2>2. msg_ptr' \in Nat /\ UNCHANGED <<kernel, refs, has_open, counter, file, loaded, undefined>>
    BY <1>6 DEF OpenReset
  <2> QED
    BY <2>1, <2>2, AtMoves
       DEF Types, Placed, Pinned, Pointed, kernel, Opening, Reading, Closing
<1>7. CASE OpenGet(p)
  <2>1. At(p, "o_get", "idle") /\ "idle" \in Places
    BY <1>7 DEF OpenGet, Places
  <2>2. /\ file' \in [Procs -> Files \cup {NULL}]
        /\ \A q \in Procs : q # p => file'[q] = file[q]
        /\ refs' \in Int
    BY <1>7 DEF OpenGet, Types
  <2>3. UNCHANGED <<kernel, data, loaded, undefined>>
    BY <1>7 DEF OpenGet
  <2>4. text # 0
    BY <2>1, AtMoves DEF Pinned
  <2>5. msg_ptr \in Nat
    BY <2>1, AtMoves DEF Pointed
  <2> QED
    BY <2>1, <2>2, <2>3, <2>4, <2>5, AtMoves
       DEF Types, Placed, Pinned, Pointed, kernel, data, Opening, Reading, Closing
<1>8. CASE OpenLoad(p)
  <2>1. At(p, "o_load", "o_store") /\ "o_store" \in Places
    BY <1>8 DEF OpenLoad, Places, Opening
  <2>2. /\ loaded' \in [Procs -> Int]
        /\ \A q \in Procs : q # p => loaded'[q] = loaded[q]
        /\ UNCHANGED <<kernel, refs, data, file, undefined>>
    BY <1>8 DEF OpenLoad, Types
  <2> QED
    BY <2>1, <2>2, AtMoves
       DEF Types, Placed, Pinned, Pointed, kernel, data, Opening, Reading, Closing
<1> QED
  BY <1>1, <1>2, <1>3, <1>4, <1>5, <1>6, <1>7, <1>8 DEF Open

LEMMA ReadSafe ==
  ASSUME Safe, undefined = "no", NEW p \in Procs, Read(p)
  PROVE  Safe'
<1> USE DEF Safe
<1>1. CASE ReadEnter(p)
  <2>1. At(p, "idle", "r_test") /\ "r_test" \in Places
    BY <1>1 DEF ReadEnter, Places, Reading
  <2> QED
    BY <1>1, <2>1, AtMoves
       DEF ReadEnter, Types, Placed, Pinned, Pointed, kernel, data, Opening, Reading, Closing
<1>2. CASE ReadTest(p)
  <2>1. At(p, "r_test", "r_load") /\ "r_load" \in Places
    BY <1>2 DEF ReadTest, Places, Reading
  <2>2. undefined' \in {"no", "past buffer"} /\ UNCHANGED <<kernel, refs, data, file, loaded>>
    BY <1>2 DEF ReadTest, InBuffer
  <2>3. Types'
    BY <2>1, <2>2, AtMoves DEF Types, kernel, data
  <2>4. Placed' /\ Pointed'
    <3>1. /\ pc[p] = "r_test" /\ pc'[p] = "r_load"
          /\ \A q \in Procs : q # p => pc'[q] = pc[q]
      BY <2>1, AtMoves, Zenon
    <3>2. UNCHANGED <<msg_ptr, file, loaded>>
      BY <2>2 DEF data
    <3>3. Placed'
      BY <3>1, <3>2 DEF Placed, Opening, Reading, Closing
    <3>4. Pointed'
      BY <3>1, <3>2 DEF Pointed
    <3> QED
      BY <3>3, <3>4
  <2>5. text # 0
    BY <2>1, AtMoves DEF Pinned
  <2>6. Pinned'
    BY <2>2, <2>5 DEF Pinned, kernel
  <2> QED
    BY <2>3, <2>4, <2>6
<1>3. CASE ReadReturn(p)
  <2>1. At(p, "r_test", "idle") /\ "idle" \in Places
    BY <1>3 DEF ReadReturn, Places
  <2> QED
    BY <1>3, <2>1, AtMoves
       DEF ReadReturn, Types, Placed, Pinned, Pointed, kernel, data, Opening, Reading, Closing
<1>4. CASE ReadLoad(p)
  <2>1. At(p, "r_load", "r_store") /\ "r_store" \in Places
    BY <1>4 DEF ReadLoad, Places, Reading
  <2>2. msg_ptr \in Nat
    BY <2>1, AtMoves DEF Placed, Pointed, Reading
  <2>3. /\ loaded' \in [Procs -> Int] /\ loaded'[p] = msg_ptr
        /\ \A q \in Procs : q # p => loaded'[q] = loaded[q]
    BY <1>4, <2>2 DEF ReadLoad, Types
  <2>4. undefined' \in {"no", "past buffer"} /\ UNCHANGED <<kernel, refs, data, file>>
    BY <1>4 DEF ReadLoad, InBuffer
  <2>5. Types'
    BY <2>1, <2>3, <2>4, AtMoves DEF Types, kernel, data
  <2>6. Placed' /\ Pointed'
    <3>1. /\ pc[p] = "r_load" /\ pc'[p] = "r_store"
          /\ \A q \in Procs : q # p => pc'[q] = pc[q]
      BY <2>1, AtMoves, Zenon
    <3>2. UNCHANGED <<msg_ptr, file>>
      BY <2>4 DEF data
    <3>3. Placed'
      BY <3>1, <3>2 DEF Placed, Opening, Reading, Closing
    <3>4. Pointed'
      BY <2>2, <2>3, <3>1, <3>2 DEF Pointed
    <3> QED
      BY <3>3, <3>4
  <2>7. text # 0
    BY <2>1, AtMoves DEF Pinned
  <2>8. Pinned'
    BY <2>4, <2>7 DEF Pinned, kernel
  <2> QED
    BY <2>5, <2>6, <2>8
<1>5. CASE ReadStore(p)
  <2>1. At(p, "r_store", "r_test") /\ "r_test" \in Places
    BY <1>5 DEF ReadStore, Places, Reading
  <2>2. msg_ptr' \in Nat
    BY <1>5, <2>1, AtMoves DEF ReadStore, Pointed
  <2>3. UNCHANGED <<kernel, refs, has_open, counter, file, loaded, undefined>>
    BY <1>5 DEF ReadStore
  <2> QED
    BY <2>1, <2>2, <2>3, AtMoves
       DEF Types, Placed, Pinned, Pointed, kernel, Opening, Reading, Closing
<1> QED
  BY <1>1, <1>2, <1>3, <1>4, <1>5 DEF Read

LEMMA ReleaseSafe ==
  ASSUME Safe, undefined = "no", NEW p \in Procs, Release(p)
  PROVE  Safe'
<1> USE DEF Safe
<1>1. CASE Close(p)
  <2>1. PICK next \in {"idle", "c_load"} : At(p, "idle", next)
    BY <1>1 DEF Close
  <2>2. next \in Places
    BY <2>1 DEF Places, Closing
  <2>3. /\ file[p] # NULL /\ file' \in [Procs -> Files \cup {NULL}] /\ file'[p] = NULL
        /\ \A q \in Procs : q # p => file'[q] = file[q]
        /\ UNCHANGED <<kernel, refs, data, loaded, undefined>>
    BY <1>1 DEF Close, Types
  <2> QED
    BY <2>1, <2>2, <2>3, AtMoves
       DEF Types, Placed, Pinned, Pointed, kernel, data, Opening, Reading, Closing
<1>2. CASE ReleaseLoad(p)
  <2>1. At(p, "c_load", "c_store") /\ "c_store" \in Places
    BY <1>2 DEF ReleaseLoad, Places, Closing
  <2>2. /\ loaded' \in [Procs -> Int]
        /\ \A q \in Procs : q # p => loaded'[q] = loaded[q]
        /\ UNCHANGED <<kernel, refs, data, file, undefined>>
    BY <1>2 DEF ReleaseLoad, Types
  <2> QED
    BY <2>1, <2>2, AtMoves
       DEF Types, Placed, Pinned, Pointed, kernel, data, Opening, Reading, Closing
<1>3. CASE ReleaseStore(p)
  <2>1. At(p, "c_store", "c_put") /\ "c_put" \in Places
    BY <1>3 DEF ReleaseStore, Places, Closing
  <2>2. has_open' \in Int /\ UNCHANGED <<kernel, refs, counter, msg_ptr, file, loaded, undefined>>
    BY <1>3 DEF ReleaseStore, Types
  <2> QED
    BY <2>1, <2>2, AtMoves
       DEF Types, Placed, Pinned, Pointed, kernel, Opening, Reading, Closing
<1>4. CASE ReleasePut(p)
  <2>1. At(p, "c_put", "c_ret") /\ "c_ret" \in Places
    BY <1>4 DEF ReleasePut, Places
  <2>2. refs' \in Int /\ UNCHANGED <<kernel, data, file, loaded, undefined>>
    BY <1>4 DEF ReleasePut, Types
  <2> QED
    BY <2>1, <2>2, AtMoves
       DEF Types, Placed, Pinned, Pointed, kernel, data, Opening, Reading, Closing
<1>5. CASE ReleaseReturn(p)
  <2>1. At(p, "c_ret", "idle") /\ "idle" \in Places
    BY <1>5 DEF ReleaseReturn, Places
  <2> QED
    BY <1>5, <2>1, AtMoves
       DEF ReleaseReturn, Types, Placed, Pinned, Pointed, kernel, data, Opening, Reading, Closing
<1> QED
  BY <1>1, <1>2, <1>3, <1>4, <1>5 DEF Release

LEMMA ShareSafe ==
  ASSUME Safe, NEW p \in Procs, NEW q \in Procs, Share(p, q)
  PROVE  Safe'
<1>1. /\ file[p] # NULL /\ file' \in [Procs -> Files \cup {NULL}] /\ pc[q] = "idle"
      /\ \A r \in Procs : r # q => file'[r] = file[r]
      /\ UNCHANGED <<kernel, refs, data, pc, loaded, undefined>>
  BY DEF Share, Safe, Types
<1> QED
  BY <1>1 DEF Safe, Types, Placed, Pinned, Pointed, kernel, data, Opening, Reading, Closing

LEMMA SafeStep ==
  ASSUME Safe, RefsCountFiles, [Next]_vars
  PROVE  Safe'
<1>1. CASE UNCHANGED vars
  BY <1>1 DEF vars, kernel, data, Safe, Types, Placed, Pinned, Pointed
<1> QED
  BY <1>1, ModuleSafe, OpenSafe, ReadSafe, ReleaseSafe, ShareSafe DEF Next, Halted

-----------------------------------------------------------------------------
(* The reference count. *)

LEMMA Moved ==
  ASSUME Types, NEW p \in Procs, NEW here, NEW next \in Places, At(p, here, next), NEW states
  PROVE  Cardinality(Inside(states))' =
           Cardinality(Inside(states)) + (IF next \in states THEN 1 ELSE 0)
                                       - (IF here \in states THEN 1 ELSE 0)
<1>1. /\ pc[p] = here /\ pc'[p] = next
      /\ \A q \in Procs : q # p => pc'[q] = pc[q]
  BY AtMoves
<1>2. IsFiniteSet(Inside(states)) /\ Cardinality(Inside(states)) \in Nat
  BY SetFinite
<1>3. CASE next \in states /\ here \notin states
  <2>1. Inside(states)' = Inside(states) \cup {p} /\ p \notin Inside(states)
    BY <1>1, <1>3 DEF Inside
  <2>2. Cardinality(Inside(states) \cup {p}) = Cardinality(Inside(states)) + 1
    BY <1>2, <2>1, FS_AddElement, Zenon
  <2> QED
    BY <1>2, <1>3, <2>1, <2>2
<1>4. CASE next \notin states /\ here \in states
  <2>1. Inside(states)' = Inside(states) \ {p} /\ p \in Inside(states)
    BY <1>1, <1>4 DEF Inside
  <2>2. Cardinality(Inside(states) \ {p}) = Cardinality(Inside(states)) - 1
    BY <1>2, <2>1, FS_RemoveElement, Zenon
  <2> QED
    BY <1>2, <1>4, <2>1, <2>2
<1>5. CASE next \in states <=> here \in states
  <2>1. Inside(states)' = Inside(states)
    BY <1>1, <1>5 DEF Inside
  <2> QED
    BY <1>2, <1>5, <2>1
<1> QED
  BY <1>3, <1>4, <1>5

(* A step that leaves the files and the count alone, and neither begins    *)
(* nor ends a release.                                                     *)
LEMMA RefsKept ==
  ASSUME Types, RefsCountFiles, NEW p \in Procs, NEW here, NEW next \in Places, At(p, here, next),
         here \in Closing <=> next \in Closing, UNCHANGED <<refs, file>>
  PROVE  RefsCountFiles'
<1>1. Cardinality(Inside(Closing))' = Cardinality(Inside(Closing))
  BY Moved, SetFinite
<1>2. OpenFiles' = OpenFiles
  BY DEF OpenFiles
<1> QED
  BY <1>1, <1>2 DEF RefsCountFiles

LEMMA OpenRefs ==
  ASSUME Types, RefsCountFiles, NEW p \in Procs, OpenGet(p), file[p] = NULL
  PROVE  RefsCountFiles'
<1>1. PICK f \in Files \ OpenFiles : file' = [file EXCEPT ![p] = f]
  BY DEF OpenGet
<1>2. At(p, "o_get", "idle") /\ "idle" \in Places /\ refs' = refs + 1
  BY DEF OpenGet, Places
<1>3. OpenFiles' = OpenFiles \cup {f}
  <2>1. file'[p] = f /\ \A q \in Procs : q # p => file'[q] = file[q]
    BY <1>1 DEF Types
  <2>2. f # NULL
    BY ChardevAssumption
  <2> QED
    BY <2>1, <2>2 DEF OpenFiles
<1>4. IsFiniteSet(OpenFiles) /\ Cardinality(OpenFiles) \in Nat
  BY FilesFinite
<1>5. Cardinality(OpenFiles \cup {f}) = Cardinality(OpenFiles) + 1
  BY <1>1, <1>4, FS_AddElement, Zenon
<1>6. Cardinality(Inside(Closing))' = Cardinality(Inside(Closing))
  BY <1>2, Moved, SetFinite DEF Closing
<1>7. Cardinality(Inside(Closing)) \in Nat
  BY SetFinite
<1> QED
  BY <1>2, <1>3, <1>4, <1>5, <1>6, <1>7 DEF RefsCountFiles

(* The last to close a file takes it from the open ones to those in        *)
(* device_release; anybody else leaves it open.                            *)
LEMMA CloseRefs ==
  ASSUME Types, RefsCountFiles, NEW p \in Procs, Close(p)
  PROVE  RefsCountFiles'
<1>1. /\ file[p] # NULL /\ file'[p] = NULL /\ refs' = refs
      /\ \A q \in Procs : q # p => file'[q] = file[q]
  BY DEF Close, Types
<1>2. IsFiniteSet(OpenFiles) /\ Cardinality(OpenFiles) \in Nat
  BY FilesFinite
<1>3. Cardinality(Inside(Closing)) \in Nat
  BY SetFinite
<1>4. CASE \E q \in Procs \ {p} : file[q] = file[p]
  <2>1. At(p, "idle", "idle") /\ "idle" \in Places
    BY <1>4 DEF Close, Places
  <2>2. Cardinality(Inside(Closing))' = Cardinality(Inside(Closing))
    BY <2>1, <1>3, Moved
  <2>3. OpenFiles' = OpenFiles
    BY <1>1, <1>4 DEF OpenFiles
  <2> QED
    BY <1>1, <2>2, <2>3 DEF RefsCountFiles
<1>5. CASE ~ \E q \in Procs \ {p} : file[q] = file[p]
  <2>1. At(p, "idle", "c_load") /\ "c_load" \in Places
    BY <1>5 DEF Close, Places, Closing
  <2>2. Cardinality(Inside(Closing))' = Cardinality(Inside(Closing)) + 1
    BY <2>1, <1>3, Moved DEF Closing
  <2>3. OpenFiles' = OpenFiles \ {file[p]} /\ file[p] \in OpenFiles
    BY <1>1, <1>5 DEF OpenFiles
  <2>4. Cardinality(OpenFiles \ {file[p]}) = Cardinality(OpenFiles) - 1
    BY <2>3, <1>2, FS_RemoveElement, Zenon
  <2> QED
    BY <1>1, <1>2, <1>3, <2>2, <2>3, <2>4 DEF RefsCountFiles
<1> QED
  BY <1>4, <1>5

LEMMA PutRefs ==
  ASSUME Types, RefsCountFiles, NEW p \in Procs, ReleasePut(p)
  PROVE  RefsCountFiles'
<1>1. At(p, "c_put", "c_ret") /\ "c_ret" \in Places /\ refs' = refs - 1 /\ file' = file
  BY DEF ReleasePut, Places
<1>2. Cardinality(Inside(Closing)) \in Nat /\ Cardinality(OpenFiles) \in Nat
  BY SetFinite, FilesFinite
<1>3. Cardinality(Inside(Closing))' = Cardinality(Inside(Closing)) - 1
  BY <1>1, <1>2, Moved DEF Closing
<1>4. OpenFiles' = OpenFiles
  BY <1>1 DEF OpenFiles
<1> QED
  BY <1>1, <1>2, <1>3, <1>4 DEF RefsCountFiles

LEMMA ShareRefs ==
  ASSUME Types, RefsCountFiles, NEW p \in Procs, NEW q \in Procs, Share(p, q)
  PROVE  RefsCountFiles'
<1>1. /\ file'[q] = file[p] /\ file[q] = NULL /\ file[p] # NULL
      /\ \A r \in Procs : r # q => file'[r] = file[r]
  BY DEF Share, Types
<1>2. OpenFiles' = OpenFiles
  BY <1>1 DEF OpenFiles
<1>3. Inside(Closing)' = Inside(Closing) /\ refs' = refs
  BY DEF Share, Inside
<1> QED
  BY <1>2, <1>3 DEF RefsCountFiles

LEMMA RefsStep ==
  ASSUME Safe, RefsCountFiles, [Next]_vars
  PROVE  RefsCountFiles'
<1> USE DEF Safe
<1>1. CASE UNCHANGED vars
  BY <1>1 DEF vars, RefsCountFiles, OpenFiles, Inside
<1>2. CASE ModuleLoad \/ ModuleUnload
  <2>1. UNCHANGED <<refs, pc, file>>
    BY <1>2 DEF ModuleLoad, ModuleUnload
  <2> QED
    BY <2>1 DEF RefsCountFiles, OpenFiles, Inside
<1>3. CASE \E p \in Procs : Open(p)
  <2>1. PICK p \in Procs : Open(p)
    BY <1>3
  <2>2. CASE OpenEnter(p)
    <3>1. At(p, "idle", "o_test") /\ UNCHANGED <<refs, file>> /\ "o_test" \in Places
      BY <2>2 DEF OpenEnter, Places, Opening
    <3> QED
      BY <3>1, RefsKept DEF Closing
  <2>3. CASE OpenBusy(p)
    <3>1. At(p, "o_test", "idle") /\ UNCHANGED <<refs, file>> /\ "idle" \in Places
      BY <2>3 DEF OpenBusy, Places
    <3> QED
      BY <3>1, RefsKept DEF Closing
  <2>4. CASE OpenTest(p)
    <3>1. At(p, "o_test", "o_load") /\ UNCHANGED <<refs, file>> /\ "o_load" \in Places
      BY <2>4 DEF OpenTest, Places, Opening
    <3> QED
      BY <3>1, RefsKept DEF Closing
  <2>5. CASE OpenStore(p)
    <3>1. At(p, "o_store", "o_print") /\ UNCHANGED <<refs, file>> /\ "o_print" \in Places
      BY <2>5 DEF OpenStore, Places, Opening
    <3> QED
      BY <3>1, RefsKept DEF Closing
  <2>6. CASE OpenPrint(p)
    <3>1. At(p, "o_print", "o_reset") /\ UNCHANGED <<refs, file>> /\ "o_reset" \in Places
      BY <2>6 DEF OpenPrint, Places, Opening
    <3> QED
      BY <3>1, RefsKept DEF Closing
  <2>7. CASE OpenReset(p)
    <3>1. At(p, "o_reset", "o_get") /\ UNCHANGED <<refs, file>> /\ "o_get" \in Places
      BY <2>7 DEF OpenReset, Places, Opening
    <3> QED
      BY <3>1, RefsKept DEF Closing
  <2>8. CASE OpenGet(p)
    <3>1. pc[p] = "o_get"
      BY <2>8 DEF OpenGet, At
    <3>2. file[p] = NULL
      BY <3>1 DEF Placed, Opening
    <3> QED
      BY <2>8, <3>2, OpenRefs
  <2>9. CASE OpenLoad(p)
    <3>1. At(p, "o_load", "o_store") /\ UNCHANGED <<refs, file>> /\ "o_store" \in Places
      BY <2>9 DEF OpenLoad, Places, Opening
    <3> QED
      BY <3>1, RefsKept DEF Closing
  <2> QED
    BY <2>1, <2>2, <2>3, <2>4, <2>5, <2>6, <2>7, <2>8, <2>9 DEF Open
<1>4. CASE \E p \in Procs : Read(p)
  <2>1. PICK p \in Procs : Read(p)
    BY <1>4
  <2>2. PICK here, next \in {"idle", "r_test", "r_load", "r_store"} : At(p, here, next)
    BY <2>1 DEF Read, ReadEnter, ReadTest, ReadReturn, ReadLoad, ReadStore
  <2>3. UNCHANGED <<refs, file>>
    BY <2>1 DEF Read, ReadEnter, ReadTest, ReadReturn, ReadLoad, ReadStore
  <2>4. next \in Places /\ here \notin Closing /\ next \notin Closing
    BY <2>2 DEF Places, Reading, Closing
  <2> QED
    BY <2>2, <2>3, <2>4, RefsKept
<1>5. CASE \E p \in Procs : Release(p)
  <2>1. PICK p \in Procs : Release(p)
    BY <1>5
  <2>2. CASE ReleaseLoad(p)
    <3>1. At(p, "c_load", "c_store") /\ UNCHANGED <<refs, file>> /\ "c_store" \in Places
      BY <2>2 DEF ReleaseLoad, Places, Closing
    <3> QED
      BY <3>1, RefsKept DEF Closing
  <2>3. CASE ReleaseStore(p)
    <3>1. At(p, "c_store", "c_put") /\ UNCHANGED <<refs, file>> /\ "c_put" \in Places
      BY <2>3 DEF ReleaseStore, Places, Closing
    <3> QED
      BY <3>1, RefsKept DEF Closing
  <2>4. CASE ReleaseReturn(p)
    <3>1. At(p, "c_ret", "idle") /\ UNCHANGED <<refs, file>> /\ "idle" \in Places
      BY <2>4 DEF ReleaseReturn, Places
    <3> QED
      BY <3>1, RefsKept DEF Closing
  <2> QED
    BY <2>1, <2>2, <2>3, <2>4, CloseRefs, PutRefs DEF Release
<1>6. CASE \E p, q \in Procs : Share(p, q)
  BY <1>6, ShareRefs
<1> QED
  BY <1>1, <1>2, <1>3, <1>4, <1>5, <1>6 DEF Next, Halted

-----------------------------------------------------------------------------
(* The static counter. *)

LEMMA OpenBounded ==
  ASSUME Types, Bounded, NEW p \in Procs, Open(p)
  PROVE  Bounded'
<1> DEFINE states == {"o_load", "o_store", "o_print"}
<1>1. /\ Cardinality(Printing) \in Nat /\ Cardinality(Printing)' \in Nat
      /\ Cardinality(Printing)' <= Cardinality(Procs) /\ Cardinality(Procs) \in Nat
  <2>1. /\ Cardinality(Inside(states)) \in Nat /\ Cardinality(Procs) \in Nat
        /\ Cardinality(Inside(states)) <= Cardinality(Procs)
    BY SetFinite
  <2>2. /\ Cardinality(Inside(states))' \in Nat
        /\ Cardinality(Inside(states))' <= Cardinality(Procs)
    <3>1. Inside(states)' \in SUBSET Procs
      BY DEF Inside
    <3> QED
      BY <3>1, ProcsFinite, FS_Subset, FS_CardinalityType
  <2> QED
    BY <2>1, <2>2 DEF Printing
<1>2. counter \in Nat /\ MaxOpens \in Nat
  BY ChardevAssumption DEF Types
<1>3. CASE OpenTest(p)
  <2>1. counter < MaxOpens /\ counter' = counter
    BY <1>3 DEF OpenTest, data
  <2> QED
    BY <1>1, <1>2, <2>1 DEF Bounded
<1>4. CASE OpenPrint(p)
  <2>1. At(p, "o_print", "o_reset") /\ "o_reset" \in Places /\ counter' = counter + 1
    BY <1>4 DEF OpenPrint, Places, Opening
  <2>2. Cardinality(Printing)' = Cardinality(Printing) - 1
    BY <1>1, <2>1, Moved DEF Printing
  <2> QED
    BY <1>1, <1>2, <2>1, <2>2 DEF Bounded
<1>5. CASE \/ OpenEnter(p) \/ OpenBusy(p) \/ OpenLoad(p) \/ OpenStore(p)
           \/ OpenReset(p) \/ OpenGet(p)
  <2>1. PICK here, next \in Places : At(p, here, next) /\ (here \in states <=> next \in states)
    <3>1. \/ At(p, "idle", "o_test") \/ At(p, "o_test", "idle") \/ At(p, "o_load", "o_store")
          \/ At(p, "o_store", "o_print") \/ At(p, "o_reset", "o_get") \/ At(p, "o_get", "idle")
      BY <1>5 DEF OpenEnter, OpenBusy, OpenLoad, OpenStore, OpenReset, OpenGet
    <3> QED
      BY <3>1 DEF Places, Opening
  <2>2. counter' = counter
    BY <1>5 DEF OpenEnter, OpenBusy, OpenLoad, OpenStore, OpenReset, OpenGet, data
  <2>3. Cardinality(Printing)' = Cardinality(Printing)
    BY <1>1, <2>1, Moved DEF Printing
  <2> QED
    BY <2>2, <2>3 DEF Bounded
<1> QED
  BY <1>3, <1>4, <1>5 DEF Open

(* No other step prints.                                                   *)
LEMMA BoundedKept ==
  ASSUME Types, Bounded, NEW p \in Procs, Read(p) \/ Release(p)
  PROVE  Bounded'
<1>1. PICK here, next \in {"idle", "c_ret"} \cup Reading \cup Closing : At(p, here, next)
  BY DEF Read, ReadEnter, ReadTest, ReadReturn, ReadLoad, ReadStore,
         Release, Close, ReleaseLoad, ReleaseStore, ReleasePut, ReleaseReturn, Reading, Closing
<1>2. counter' = counter
  BY DEF Read, ReadEnter, ReadTest, ReadReturn, ReadLoad, ReadStore,
         Release, Close, ReleaseLoad, ReleaseStore, ReleasePut, ReleaseReturn, data
<1>3. Printing' = Printing
  <2>1. /\ pc[p] = here /\ pc'[p] = next
        /\ \A q \in Procs : q # p => pc'[q] = pc[q]
    BY <1>1, AtMoves DEF Places
  <2> QED
    BY <1>1, <2>1 DEF Printing, Inside, Reading, Closing
<1> QED
  BY <1>2, <1>3 DEF Bounded

LEMMA BoundedStep ==
  ASSUME Types, Bounded, [Next]_vars
  PROVE  Bounded'
<1>1. CASE UNCHANGED vars
  BY <1>1 DEF vars, data, Bounded, Printing, Inside
<1>2. CASE ModuleLoad
  <2>1. counter' = 0 /\ Printing' = Printing
    BY <1>2 DEF ModuleLoad, Printing, Inside
  <2>2. Cardinality(Printing) <= Cardinality(Procs) /\ Cardinality(Printing) \in Nat
        /\ Cardinality(Procs) \in Nat /\ MaxOpens \in Nat
    BY SetFinite, ChardevAssumption DEF Printing
  <2> QED
    BY <2>1, <2>2 DEF Bounded
<1>3. CASE ModuleUnload
  BY <1>3 DEF ModuleUnload, data, Bounded, Printing, Inside
<1>4. CASE \E p, q \in Procs : Share(p, q)
  BY <1>4 DEF Share, data, Bounded, Printing, Inside
<1> QED
  BY <1>1, <1>2, <1>3, <1>4, OpenBounded, BoundedKept DEF Next, Halted

(* What no step breaks, with the count of the next theorem among it: that  *)
(* rmmod is safe rests on the count being right, and the count on the code *)
(* being there.                                                            *)
IInv == Safe /\ RefsCountFiles /\ Bounded

LEMMA Inductive == Spec => []IInv
<1>1. Init => IInv
  <2>1. SUFFICES ASSUME Init PROVE IInv
    OBVIOUS
  <2>2. Safe
    BY <2>1, InitSafe
  <2>3. OpenFiles = {} /\ Inside(Closing) = {} /\ Printing = {}
    BY <2>1 DEF Init, OpenFiles, Inside, Printing, Closing
  <2>4. Cardinality({}) = 0
    BY FS_EmptySet
  <2>5. refs = 0 /\ counter = 0 /\ MaxOpens \in Nat /\ Cardinality(Procs) \in Nat
    BY <2>1, ChardevAssumption, SetFinite DEF Init
  <2> QED
    BY <2>2, <2>3, <2>4, <2>5 DEF IInv, RefsCountFiles, Bounded
<1>2. IInv /\ [Next]_vars => IInv'
  BY SafeStep, RefsStep, BoundedStep DEF IInv, Safe
<1> QED
  BY <1>1, <1>2, PTL DEF Spec

(* However opens, reads, releases, loads and unloads interleave, every     *)
(* variable keeps its type, and device_open's counter its bound.           *)
THEOREM TypeCorrect == Spec => []TypeOK
<1>1. IInv => TypeOK
  <2>1. SUFFICES ASSUME IInv PROVE TypeOK
    OBVIOUS
  <2>2. refs \in Nat
    <3>1. Cardinality(OpenFiles) \in Nat /\ Cardinality(Inside(Closing)) \in Nat
      BY <2>1, FilesFinite, SetFinite DEF IInv, Safe
    <3> QED
      BY <2>1, <3>1 DEF IInv, RefsCountFiles
  <2>3. counter \in 0 .. MaxOpens + Cardinality(Procs)
    <3>1. /\ Cardinality(Printing) \in Nat /\ counter \in Nat
          /\ MaxOpens \in Nat /\ Cardinality(Procs) \in Nat
      BY <2>1, SetFinite, ChardevAssumption DEF IInv, Safe, Types, Printing
    <3> QED
      BY <2>1, <3>1 DEF IInv, Bounded
  <2> QED
    BY <2>1, <2>2, <2>3 DEF IInv, Safe, Types, TypeOK, Places
<1> QED
  BY <1>1, Inductive, PTL

(* The module's reference count is the number of files that are open or    *)
(* that device_release has not put yet, whether opens race or not:         *)
(* has_open may be wrong, try_module_get and module_put are not.           *)
THEOREM CountIsRight == Spec => []RefsCountFiles
BY Inductive, PTL DEF IInv

(* rmmod never takes the code from under a file that is open or being      *)
(* read, or from a release before its module_put: where it takes the code  *)
(* from under a callback, that is an open before try_module_get or a       *)
(* release after module_put.                                               *)
THEOREM FilesKeepTheCode == Spec => []FilesPinTheModule
<1>1. IInv => FilesPinTheModule
  BY DEF IInv, Safe, Types, Places, Pinned, Placed, FilesPinTheModule, OpenFiles, Inside
<1> QED
  BY <1>1, Inductive, PTL

-----------------------------------------------------------------------------
(* One open at a time. *)

(* has_open is 1 for those who have set it, and for no other reason.       *)
Claiming == {"o_print", "o_reset", "o_get", "c_load", "c_store"}
Taking == Claiming \cup {"o_load", "o_store"}

OneOpens == \A p, q \in Procs : pc[p] \in Opening /\ pc[q] \in Opening => p = q

OneTakes == \A p, q \in Procs : pc[p] \in Taking => file[q] = NULL /\ (pc[q] \in Taking => p = q)

OneFile == \A p, q \in Procs : file[p] # NULL /\ file[q] # NULL => file[p] = file[q]

Marked ==
  /\ has_open \in {0, 1}
  /\ has_open = 0 <=> \A p \in Procs : pc[p] \notin Claiming /\ file[p] = NULL
  /\ \A p \in Procs : /\ pc[p] = "c_store" => loaded[p] = 1
                      /\ pc[p] = "o_store" => loaded[p] = 0

Alone == OneOpens /\ OneTakes /\ OneFile /\ Marked
Sole == ~raced => Alone

(* A step that goes neither into nor out of the states that take the       *)
(* device, and leaves files and has_open as they are.                      *)
LEMMA AloneKept ==
  ASSUME Types, Alone, NEW p \in Procs, NEW here, NEW next \in Places, At(p, here, next),
         next \in Opening => here \in Opening \/ \A q \in Procs : pc[q] \notin Opening,
         next \in Taking <=> here \in Taking, next \in Claiming <=> here \in Claiming,
         next \notin {"c_store", "o_store"}, UNCHANGED <<file, has_open>>,
         \A q \in Procs : q # p => loaded'[q] = loaded[q]
  PROVE  Alone'
<1>1. /\ pc[p] = here /\ pc'[p] = next
      /\ \A q \in Procs : q # p => pc'[q] = pc[q]
  BY AtMoves
<1>2. OneOpens'
  BY <1>1 DEF Alone, OneOpens
<1>3. OneTakes' /\ OneFile'
  BY <1>1 DEF Alone, OneTakes, OneFile
<1>4. Marked'
  BY <1>1 DEF Alone, Marked
<1> QED
  BY <1>2, <1>3, <1>4 DEF Alone

LEMMA OpenAlone ==
  ASSUME Types, Placed, Sole, NEW p \in Procs, Open(p), ~raced'
  PROVE  Alone'
<1>0. Alone
  BY DEF Sole, Open, OpenEnter, OpenBusy, OpenTest, OpenLoad, OpenStore, OpenPrint, OpenReset,
         OpenGet
<1>1. CASE OpenEnter(p)
  <2>1. /\ At(p, "idle", "o_test") /\ "o_test" \in Places
        /\ UNCHANGED <<file, has_open, loaded>> /\ Inside(Opening) = {}
    BY <1>1 DEF OpenEnter, Places, Opening, data
  <2> QED
    BY <1>0, <2>1, AloneKept DEF Taking, Claiming, Opening, Inside
<1>2. CASE OpenBusy(p)
  <2>1. /\ At(p, "o_test", "idle") /\ "idle" \in Places
        /\ UNCHANGED <<file, has_open, loaded>>
    BY <1>2 DEF OpenBusy, Places, data
  <2> QED
    BY <1>0, <2>1, AloneKept DEF Taking, Claiming, Opening
<1>3. CASE OpenTest(p)
  <2>1. /\ At(p, "o_test", "o_load") /\ "o_load" \in Places
        /\ UNCHANGED <<file, has_open, loaded>> /\ has_open = 0
    BY <1>3 DEF OpenTest, Places, Opening, data
  <2>2. /\ pc[p] = "o_test" /\ pc'[p] = "o_load"
        /\ \A q \in Procs : q # p => pc'[q] = pc[q]
    BY <2>1, AtMoves
  <2>3. \A q \in Procs : pc[q] \notin Claiming /\ file[q] = NULL
    BY <1>0, <2>1 DEF Alone, Marked
  <2>4. \A q \in Procs : pc[q] \notin Taking
    BY <1>0, <2>2, <2>3 DEF Alone, OneOpens, Taking, Opening
  <2>5. OneOpens' /\ OneTakes' /\ OneFile'
    BY <1>0, <2>1, <2>2, <2>3, <2>4 DEF Alone, OneOpens, OneTakes, OneFile, Opening, Taking
  <2>6. Marked'
    BY <1>0, <2>1, <2>2, <2>3 DEF Alone, Marked, Claiming
  <2> QED
    BY <2>5, <2>6 DEF Alone
<1>4. CASE OpenStore(p)
  <2>1. /\ At(p, "o_store", "o_print") /\ "o_print" \in Places
        /\ UNCHANGED <<file, loaded>> /\ has_open' = loaded[p] + 1
    BY <1>4 DEF OpenStore, Places, Opening
  <2>2. /\ pc[p] = "o_store" /\ pc'[p] = "o_print"
        /\ \A q \in Procs : q # p => pc'[q] = pc[q]
    BY <2>1, AtMoves
  <2>3. OneOpens' /\ OneTakes' /\ OneFile'
    BY <1>0, <2>1, <2>2 DEF Alone, OneOpens, OneTakes, OneFile, Opening, Taking, Claiming
  <2>4. has_open' = 1
    <3>1. loaded[p] = 0
      BY <1>0, <2>2 DEF Alone, Marked
    <3> QED
      BY <2>1, <3>1
  <2>5. \A q \in Procs : q # p => pc[q] \notin Taking
    BY <1>0, <2>2 DEF Alone, OneTakes, Taking
  <2>6. Marked'
    BY <1>0, <2>1, <2>2, <2>4, <2>5 DEF Alone, Marked, Taking, Claiming
  <2> QED
    BY <2>3, <2>6 DEF Alone
<1>5. CASE OpenPrint(p)
  <2>1. /\ At(p, "o_print", "o_reset") /\ "o_reset" \in Places
        /\ UNCHANGED <<file, has_open, loaded>>
    BY <1>5 DEF OpenPrint, Places, Opening
  <2> QED
    BY <1>0, <2>1, AloneKept DEF Taking, Claiming, Opening
<1>6. CASE OpenReset(p)
  <2>1. /\ At(p, "o_reset", "o_get") /\ "o_get" \in Places
        /\ UNCHANGED <<file, has_open, loaded>>
    BY <1>6 DEF OpenReset, Places, Opening
  <2> QED
    BY <1>0, <2>1, AloneKept DEF Taking, Claiming, Opening
<1>7. CASE OpenGet(p)
  <2>1. /\ At(p, "o_get", "idle") /\ "idle" \in Places
        /\ UNCHANGED <<has_open, loaded>>
    BY <1>7 DEF OpenGet, Places, data
  <2>2. /\ pc[p] = "o_get" /\ pc'[p] = "idle"
        /\ \A q \in Procs : q # p => pc'[q] = pc[q]
    BY <2>1, AtMoves
  <2>3. /\ file'[p] # NULL
        /\ \A q \in Procs : q # p => file'[q] = file[q]
    BY <1>7, ChardevAssumption DEF OpenGet, Types
  <2>4. \A q \in Procs : file[q] = NULL /\ (q # p => pc[q] \notin Taking)
    BY <1>0, <2>2 DEF Alone, OneTakes, Taking, Claiming
  <2>5. has_open # 0
    BY <1>0, <2>2 DEF Alone, Marked, Claiming
  <2>6. OneOpens'
    BY <1>0, <2>2 DEF Alone, OneOpens, Opening
  <2>7. OneTakes' /\ OneFile'
    BY <2>2, <2>3, <2>4 DEF OneTakes, OneFile, Taking, Claiming
  <2>8. Marked'
    BY <1>0, <2>1, <2>2, <2>3, <2>5 DEF Alone, Marked
  <2> QED
    BY <2>6, <2>7, <2>8 DEF Alone
<1>8. CASE OpenLoad(p)
  <2>1. /\ At(p, "o_load", "o_store") /\ "o_store" \in Places
        /\ UNCHANGED <<file, has_open>> /\ loaded' = [loaded EXCEPT ![p] = has_open]
    BY <1>8 DEF OpenLoad, Places, Opening, data
  <2>2. /\ pc[p] = "o_load" /\ pc'[p] = "o_store"
        /\ \A q \in Procs : q # p => pc'[q] = pc[q]
    BY <2>1, AtMoves
  <2>3. \A q \in Procs : file[q] = NULL /\ pc[q] \notin Claiming
    BY <1>0, <2>2 DEF Alone, OneTakes, Taking, Claiming
  <2>4. has_open = 0
    BY <1>0, <2>3 DEF Alone, Marked
  <2>5. loaded'[p] = 0 /\ \A q \in Procs : q # p => loaded'[q] = loaded[q]
    BY <2>1, <2>4 DEF Types
  <2>6. OneOpens' /\ OneTakes' /\ OneFile'
    BY <1>0, <2>1, <2>2 DEF Alone, OneOpens, OneTakes, OneFile, Opening, Taking, Claiming
  <2>7. Marked'
    BY <1>0, <2>1, <2>2, <2>5 DEF Alone, Marked, Claiming
  <2> QED
    BY <2>6, <2>7 DEF Alone
<1> QED
  BY <1>1, <1>2, <1>3, <1>4, <1>5, <1>6, <1>7, <1>8 DEF Open

LEMMA ReadAlone ==
  ASSUME Types, Alone, NEW p \in Procs, Read(p)
  PROVE  Alone'
<1>1. PICK here, next \in {"idle", "r_test", "r_load", "r_store"} : At(p, here, next)
  BY DEF Read, ReadEnter, ReadTest, ReadReturn, ReadLoad, ReadStore
<1>2. UNCHANGED <<file, has_open>>
  BY DEF Read, ReadEnter, ReadTest, ReadReturn, ReadLoad, ReadStore, data
<1>3. \A q \in Procs : q # p => loaded'[q] = loaded[q]
  BY DEF Read, ReadEnter, ReadTest, ReadReturn, ReadLoad, ReadStore, Types
<1>4. /\ next \in Places /\ next \notin {"c_store", "o_store"} /\ next \notin Opening
      /\ here \notin Taking /\ next \notin Taking /\ here \notin Claiming /\ next \notin Claiming
  BY <1>1 DEF Places, Reading, Taking, Claiming, Opening
<1> QED
  BY <1>1, <1>2, <1>3, <1>4, AloneKept

LEMMA ReleaseAlone ==
  ASSUME Types, Placed, Alone, NEW p \in Procs, Release(p)
  PROVE  Alone'
<1>1. CASE Close(p)
  <2>1. /\ file[p] # NULL /\ file'[p] = NULL /\ UNCHANGED <<has_open, loaded>> /\ pc[p] = "idle"
        /\ \A q \in Procs : q # p => file'[q] = file[q]
    BY <1>1 DEF Close, Types, data, At
  <2>2. has_open # 0 /\ \A q \in Procs : pc[q] \notin Taking
    BY <2>1 DEF Alone, Marked, OneTakes
  <2>3. CASE \E q \in Procs \ {p} : file[q] = file[p]
    <3>1. At(p, "idle", "idle") /\ "idle" \in Places
      BY <1>1, <2>3 DEF Close, Places
    <3>2. \A q \in Procs : pc'[q] = pc[q]
      BY <3>1, AtMoves
    <3>3. OneOpens' /\ OneTakes' /\ OneFile'
      BY <2>1, <2>2, <3>2 DEF Alone, OneOpens, OneTakes, OneFile
    <3>4. Marked'
      BY <2>1, <2>2, <2>3, <3>2 DEF Alone, Marked
    <3> QED
      BY <3>3, <3>4 DEF Alone
  <2>4. CASE ~ \E q \in Procs \ {p} : file[q] = file[p]
    <3>1. At(p, "idle", "c_load") /\ "c_load" \in Places
      BY <1>1, <2>4 DEF Close, Places, Closing
    <3>2. /\ pc'[p] = "c_load"
          /\ \A q \in Procs : q # p => pc'[q] = pc[q]
      BY <3>1, AtMoves
    <3>3. \A q \in Procs : file'[q] = NULL
      BY <2>1, <2>4 DEF Alone, OneFile
    <3>4. OneOpens'
      BY <3>2 DEF Alone, OneOpens, Opening
    <3>5. OneTakes' /\ OneFile'
      BY <2>2, <3>2, <3>3 DEF OneTakes, OneFile
    <3>6. Marked'
      BY <2>1, <2>2, <3>2 DEF Alone, Marked, Claiming
    <3> QED
      BY <3>4, <3>5, <3>6 DEF Alone
  <2> QED
    BY <2>3, <2>4
<1>2. CASE ReleaseLoad(p)
  <2>1. /\ At(p, "c_load", "c_store") /\ "c_store" \in Places
        /\ UNCHANGED <<file, has_open>> /\ loaded' = [loaded EXCEPT ![p] = has_open]
    BY <1>2 DEF ReleaseLoad, Places, Closing, data
  <2>2. /\ pc[p] = "c_load" /\ pc'[p] = "c_store"
        /\ \A q \in Procs : q # p => pc'[q] = pc[q]
    BY <2>1, AtMoves
  <2>3. has_open = 1
    BY <2>2 DEF Alone, Marked, Claiming
  <2>4. loaded'[p] = 1 /\ \A q \in Procs : q # p => loaded'[q] = loaded[q]
    BY <2>1, <2>3 DEF Types
  <2>5. OneOpens' /\ OneTakes' /\ OneFile'
    BY <2>1, <2>2 DEF Alone, OneOpens, OneTakes, OneFile, Opening, Taking, Claiming
  <2>6. Marked'
    BY <2>1, <2>2, <2>4 DEF Alone, Marked, Claiming
  <2> QED
    BY <2>5, <2>6 DEF Alone
<1>3. CASE ReleaseStore(p)
  <2>1. /\ At(p, "c_store", "c_put") /\ "c_put" \in Places
        /\ UNCHANGED <<file, loaded>> /\ has_open' = loaded[p] - 1
    BY <1>3 DEF ReleaseStore, Places, Closing
  <2>2. /\ pc[p] = "c_store" /\ pc'[p] = "c_put"
        /\ \A q \in Procs : q # p => pc'[q] = pc[q]
    BY <2>1, AtMoves
  <2>3. loaded[p] = 1
    BY <2>2 DEF Alone, Marked
  <2>4. has_open' = 0
    BY <2>1, <2>3
  <2>5. \A q \in Procs : file[q] = NULL /\ (q # p => pc[q] \notin Taking)
    BY <2>2 DEF Alone, OneTakes, Taking, Claiming
  <2>6. OneOpens'
    BY <2>2 DEF Alone, OneOpens, Opening
  <2>7. OneTakes' /\ OneFile'
    BY <2>1, <2>2, <2>5 DEF OneTakes, OneFile
  <2>8. Marked'
    BY <2>1, <2>2, <2>4, <2>5 DEF Alone, Marked, Taking, Claiming
  <2> QED
    BY <2>6, <2>7, <2>8 DEF Alone
<1>4. CASE ReleasePut(p)
  <2>1. /\ At(p, "c_put", "c_ret") /\ "c_ret" \in Places
        /\ UNCHANGED <<file, has_open, loaded>>
    BY <1>4 DEF ReleasePut, Places, data
  <2> QED
    BY <2>1, AloneKept DEF Taking, Claiming, Opening
<1>5. CASE ReleaseReturn(p)
  <2>1. /\ At(p, "c_ret", "idle") /\ "idle" \in Places
        /\ UNCHANGED <<file, has_open, loaded>>
    BY <1>5 DEF ReleaseReturn, Places, data
  <2> QED
    BY <2>1, AloneKept DEF Taking, Claiming, Opening
<1> QED
  BY <1>1, <1>2, <1>3, <1>4, <1>5 DEF Release

LEMMA ShareAlone ==
  ASSUME Types, Alone, NEW p \in Procs, NEW q \in Procs, Share(p, q)
  PROVE  Alone'
<1>1. /\ file[p] # NULL /\ file'[q] = file[p] /\ file[q] = NULL
      /\ \A r \in Procs : r # q => file'[r] = file[r]
      /\ UNCHANGED <<pc, has_open, loaded>>
  BY DEF Share, Types, data
<1>2. p # q
  BY <1>1
<1>3. has_open # 0 /\ \A r \in Procs : pc[r] \notin Taking
  BY <1>1 DEF Alone, Marked, OneTakes
<1>4. OneOpens'
  BY <1>1 DEF Alone, OneOpens
<1>5. OneTakes' /\ OneFile'
  BY <1>1, <1>3 DEF Alone, OneTakes, OneFile
<1>6. Marked'
  BY <1>1, <1>2, <1>3 DEF Alone, Marked
<1> QED
  BY <1>4, <1>5, <1>6 DEF Alone

LEMMA SoleStep ==
  ASSUME Safe, Sole, [Next]_vars
  PROVE  Sole'
<1> USE DEF Safe
<1>1. CASE UNCHANGED vars
  BY <1>1 DEF vars, data, Sole, Alone, OneOpens, OneTakes, OneFile, Marked
<1>2. CASE undefined = "no" /\ ModuleLoad
  <2>1. \A p \in Procs : pc[p] = "idle" /\ file[p] = NULL
    BY <1>2 DEF ModuleLoad, Pinned
  <2> QED
    BY <1>2, <2>1 DEF ModuleLoad, Sole, Alone, OneOpens, OneTakes, OneFile, Marked,
                      Opening, Taking, Claiming
<1>3. CASE ModuleUnload
  BY <1>3 DEF ModuleUnload, data, Sole, Alone, OneOpens, OneTakes, OneFile, Marked
<1>4. ASSUME NEW p \in Procs, Read(p) \/ Release(p) PROVE Sole'
  <2>1. raced' = raced
    BY <1>4 DEF Read, ReadEnter, ReadTest, ReadReturn, ReadLoad, ReadStore,
                Release, Close, ReleaseLoad, ReleaseStore, ReleasePut, ReleaseReturn
  <2> QED
    BY <1>4, <2>1, ReadAlone, ReleaseAlone DEF Sole
<1>5. ASSUME NEW p \in Procs, NEW q \in Procs, Share(p, q) PROVE Sole'
  <2>1. raced' = raced
    BY <1>5 DEF Share
  <2> QED
    BY <1>5, <2>1, ShareAlone DEF Sole
<1>6. ASSUME NEW p \in Procs, Open(p) PROVE Sole'
  BY <1>6, OpenAlone DEF Sole
<1> QED
  BY <1>1, <1>2, <1>3, <1>4, <1>5, <1>6 DEF Next, Halted

LEMMA SoleAlways == Spec => []Sole
<1>1. Init => Sole
  BY DEF Init, Sole, Alone, OneOpens, OneTakes, OneFile, Marked, Opening, Taking, Claiming
<1>2. IInv /\ Sole /\ [Next]_vars => Sole'
  BY SoleStep DEF IInv
<1> QED
  BY <1>1, <1>2, Inductive, PTL DEF Spec

(* What has_open is for: until two opens overlap, no second file is open,  *)
(* or being opened or closed, while one is, for any number of processes.   *)
THEOREM OneAtATime == Spec => []ExclusiveOpen
<1>1. IInv /\ Sole => ExclusiveOpen
  <2>1. SUFFICES ASSUME IInv, Sole, ~raced
                 PROVE  Cardinality(OpenFiles)
                        + Cardinality(Inside((Opening \ {"o_test"}) \cup {"c_load", "c_store"})) <= 1
    BY DEF ExclusiveOpen
  <2>2. Alone
    BY <2>1 DEF Sole
  <2>3. Taking = (Opening \ {"o_test"}) \cup {"c_load", "c_store"}
    BY DEF Taking, Claiming, Opening
  <2>4. CASE \E p \in Procs : pc[p] \in Taking
    <3>1. PICK p \in Procs : pc[p] \in Taking
      BY <2>4
    <3>2. OpenFiles = {} /\ Inside(Taking) = {p}
      BY <2>2, <3>1 DEF Alone, OneTakes, OpenFiles, Inside
    <3>3. Cardinality({}) = 0 /\ Cardinality({p}) = 1
      BY FS_EmptySet, FS_Singleton
    <3> QED
      BY <2>3, <3>2, <3>3
  <2>5. CASE \A p \in Procs : pc[p] \notin Taking
    <3>1. Inside(Taking) = {}
      BY <2>5 DEF Inside
    <3>2. CASE OpenFiles = {}
      <4>1. Cardinality({}) = 0
        BY FS_EmptySet
      <4> QED
        BY <2>3, <3>1, <3>2, <4>1
    <3>3. CASE OpenFiles # {}
      <4>1. PICK f \in OpenFiles : TRUE
        BY <3>3
      <4>2. OpenFiles = {f}
        BY <2>2, <4>1 DEF Alone, OneFile, OpenFiles
      <4>3. Cardinality({}) = 0 /\ Cardinality({f}) = 1
        BY FS_EmptySet, FS_Singleton
      <4> QED
        BY <2>3, <3>1, <4>2, <4>3
    <3> QED
      BY <3>2, <3>3
  <2> QED
    BY <2>4, <2>5
<1> QED
  BY <1>1, Inductive, SoleAlways, PTL

(* Until two opens overlap, a device nobody has open is not left busy.     *)
THEOREM NotLeftBusy == Spec => []BusyOnlyWhileOpen
<1>1. Sole => BusyOnlyWhileOpen
  BY DEF Sole, Alone, Marked, BusyOnlyWhileOpen, OpenFiles, Inside, Claiming
<1> QED
  BY <1>1, SoleAlways, PTL

-----------------------------------------------------------------------------
(* Two readers of one file. *)

Length == MessageLength(counter)
Handing == {"r_load", "r_store"}

(* How far a reader may be: each has seen a character before it goes on,   *)
(* and only the one that is alone can have seen the 0 at the end.          *)
Within == \A p \in Procs :
  /\ pc[p] = "o_get" => msg_ptr = 0
  /\ file[p] # NULL => msg_ptr <= Length + 1
  /\ pc[p] = "r_load" => msg_ptr <= Length
  /\ pc[p] = "r_store" => loaded[p] < Length \/ (loaded[p] = Length /\ msg_ptr = Length)

Apart == \A p, q \in Procs : p # q /\ pc[p] \in Handing /\ pc[q] \in Handing =>
  /\ pc[p] = "r_load" => msg_ptr < Length
  /\ pc[p] = "r_store" => loaded[p] < Length

Calm == ~raced /\ Length + 2 <= BUFFER_SIZE /\ Cardinality(Procs) <= 2
Reach == (Calm => Within /\ Apart) /\ StaysInBuffer

LEMMA LengthType == ASSUME Types PROVE Length \in Nat
<1>1. counter \in Nat /\ FixedText \in Nat
  BY ChardevAssumption DEF Types
<1>2. Digits(counter) \in Nat
  BY DEF Digits
<1> QED
  BY <1>1, <1>2 DEF Length, MessageLength

LEMMA AtMostTwo ==
  ASSUME Cardinality(Procs) <= 2, NEW p \in Procs, NEW q \in Procs, NEW r \in Procs,
         p # q, r # p
  PROVE  r = q
<1>1. {p, q} \in SUBSET Procs
  OBVIOUS
<1>2. Cardinality({p}) = 1 /\ IsFiniteSet({p})
  BY FS_Singleton
<1>3. {p, q} = {p} \cup {q} /\ q \notin {p}
  OBVIOUS
<1>4. Cardinality({p, q}) = 2
  <2>1. Cardinality({p} \cup {q}) = Cardinality({p}) + 1
    BY <1>2, <1>3, FS_AddElement, Zenon
  <2> QED
    BY <1>2, <1>3, <2>1
<1>5. /\ Cardinality({p, q}) <= Cardinality(Procs) /\ Cardinality(Procs) \in Nat
      /\ Cardinality(Procs) = Cardinality({p, q}) => Procs = {p, q}
  BY <1>1, ProcsFinite, FS_Subset, FS_CardinalityType
<1>6. Procs = {p, q}
  BY <1>4, <1>5
<1> QED
  BY <1>6

(* A step of p, or none, that leaves the pointer and the message alone.    *)
LEMMA ReadersKept ==
  ASSUME Within, Apart, NEW p \in Procs, pc'[p] \notin {"o_get", "r_load", "r_store"},
         \A q \in Procs : q # p => pc'[q] = pc[q] /\ loaded'[q] = loaded[q],
         \A q \in Procs : file'[q] # NULL => \E r \in Procs : file[r] # NULL,
         UNCHANGED <<counter, msg_ptr>>
  PROVE  Within' /\ Apart'
<1>1. Length' = Length
  BY DEF Length
<1>2. Within'
  BY <1>1 DEF Within
<1>3. Apart'
  BY <1>1 DEF Apart, Handing
<1> QED
  BY <1>2, <1>3

(* Where nobody has the file there is nobody to read.                      *)
LEMMA NoReaders ==
  ASSUME \A q \in Procs : /\ file'[q] = NULL /\ pc'[q] \notin Handing
                          /\ pc'[q] = "o_get" => msg_ptr' = 0
  PROVE  Within' /\ Apart'
BY DEF Within, Apart, Handing

LEMMA Order ==
  /\ \A m, n \in Nat : ~ (m + 2 <= n) => m + 2 > n
  /\ \A n \in Nat : ~ (n <= 2) => n > 2
OBVIOUS

LEMMA Calmer ==
  ASSUME Types, undefined' = "past buffer" => ~Calm,
         UNCHANGED <<raced, counter>>
  PROVE  StaysInBuffer'
<1>1. Length \in Nat /\ BUFFER_SIZE \in Nat /\ Cardinality(Procs) \in Nat
  BY LengthType, ChardevAssumption, SetFinite
<1>2. ~Calm => raced \/ Length + 2 > BUFFER_SIZE \/ Cardinality(Procs) > 2
  <2>1. ~ (Length + 2 <= BUFFER_SIZE) => Length + 2 > BUFFER_SIZE
    BY <1>1, Order, Zenon
  <2>2. ~ (Cardinality(Procs) <= 2) => Cardinality(Procs) > 2
    BY <1>1, Order, Zenon
  <2> QED
    BY <2>1, <2>2, Zenon DEF Calm
<1> QED
  BY <1>2 DEF StaysInBuffer, Length

LEMMA OpenReach ==
  ASSUME Safe, Sole, Reach, undefined = "no", NEW p \in Procs, Open(p)
  PROVE  Reach'
<1> USE DEF Safe
<1>1. CASE OpenEnter(p) \/ OpenBusy(p) \/ OpenTest(p) \/ OpenLoad(p) \/ OpenStore(p)
  <2>1. PICK here, next \in {"idle", "o_test", "o_load", "o_store", "o_print"} : At(p, here, next)
    BY <1>1 DEF OpenEnter, OpenBusy, OpenTest, OpenLoad, OpenStore
  <2>2. /\ UNCHANGED <<file, counter, msg_ptr>> /\ (raced => raced')
        /\ \A q \in Procs : q # p => loaded'[q] = loaded[q]
        /\ undefined' \in {"no", "freed code"}
    <3>1. CASE OpenEnter(p)
      BY <3>1 DEF OpenEnter, data
    <3>2. CASE OpenBusy(p) \/ OpenTest(p) \/ OpenStore(p)
      <4>1. UNCHANGED <<file, loaded, counter, msg_ptr, raced, undefined>>
        BY <3>2 DEF OpenBusy, OpenTest, OpenStore, data
      <4> QED
        BY <4>1
    <3>3. CASE OpenLoad(p)
      <4>1. UNCHANGED <<file, counter, msg_ptr, raced, undefined>>
        BY <3>3 DEF OpenLoad, data
      <4>2. \A q \in Procs : q # p => loaded'[q] = loaded[q]
        BY <3>3 DEF OpenLoad, Types
      <4> QED
        BY <4>1, <4>2
    <3> QED
      BY <1>1, <3>1, <3>2, <3>3
  <2>3. /\ pc'[p] = next
        /\ \A q \in Procs : q # p => pc'[q] = pc[q]
    BY <2>1, AtMoves DEF Places, Opening
  <2>4. Calm' => Calm
    BY <2>2 DEF Calm, Length
  <2>5. Within /\ Apart => Within' /\ Apart'
    BY <2>2, <2>3, ReadersKept
  <2> QED
    BY <2>2, <2>4, <2>5 DEF Reach, StaysInBuffer
<1>2. CASE OpenPrint(p) \/ OpenReset(p)
  <2>1. PICK here \in {"o_print", "o_reset"}, next \in {"o_reset", "o_get"} :
          At(p, here, next) /\ (next = "o_get" => msg_ptr' = 0)
    BY <1>2 DEF OpenPrint, OpenReset
  <2>2. UNCHANGED <<file, raced>>
    BY <1>2 DEF OpenPrint, OpenReset
  <2>3. /\ pc[p] = here /\ pc'[p] = next
        /\ \A q \in Procs : q # p => pc'[q] = pc[q]
    BY <2>1, AtMoves DEF Places, Opening
  <2>4. ASSUME Calm' PROVE Within' /\ Apart'
    <3>1. Alone
      BY <2>2, <2>4 DEF Calm, Sole
    <3>2. \A q \in Procs : file[q] = NULL
      BY <2>3, <3>1 DEF Alone, OneTakes, Taking, Claiming
    <3>3. \A q \in Procs : q # p => pc[q] # "o_get" /\ pc[q] \notin Handing
      BY <2>3, <3>1, <3>2 DEF Alone, OneOpens, Opening, Placed, Reading, Handing
    <3>4. pc'[p] \notin Handing /\ (pc'[p] = "o_get" => msg_ptr' = 0)
      BY <2>1, <2>3 DEF Handing
    <3>5. \A q \in Procs : /\ file'[q] = NULL /\ pc'[q] \notin Handing
                           /\ pc'[q] = "o_get" => msg_ptr' = 0
      BY <2>2, <2>3, <3>2, <3>3, <3>4
    <3> QED
      BY <3>5, NoReaders
  <2>5. StaysInBuffer'
    <3>1. CASE OpenPrint(p)
      <4>1. undefined' = "past buffer" => ~ MessageLength(counter') < BUFFER_SIZE
        BY <3>1 DEF OpenPrint
      <4>2. MessageLength(counter') \in Nat /\ BUFFER_SIZE \in Nat
        <5>1. Types'
          BY <3>1, OpenSafe DEF Open
        <5>2. Length' \in Nat
          <6>1. counter' \in Nat /\ FixedText \in Nat
            BY <5>1, ChardevAssumption DEF Types
          <6>2. Digits(counter') \in Nat
            BY DEF Digits
          <6> QED
            BY <6>1, <6>2 DEF Length, MessageLength
        <5> QED
          BY <5>2, ChardevAssumption DEF Length
      <4>3. undefined' = "past buffer" => MessageLength(counter') + 2 > BUFFER_SIZE
        <5>1. \A m, n \in Nat : ~ (m < n) => m + 2 > n
          OBVIOUS
        <5> QED
          BY <4>1, <4>2, <5>1, Zenon
      <4> QED
        BY <4>3 DEF StaysInBuffer
    <3>2. CASE OpenReset(p)
      BY <3>2 DEF OpenReset, StaysInBuffer
    <3> QED
      BY <1>2, <3>1, <3>2
  <2> QED
    BY <2>4, <2>5 DEF Reach
<1>3. CASE OpenGet(p)
  <2>1. /\ At(p, "o_get", "idle") /\ "idle" \in Places
        /\ UNCHANGED <<counter, msg_ptr, loaded, raced, undefined>>
    BY <1>3 DEF OpenGet, Places, data
  <2>2. /\ pc[p] = "o_get" /\ pc'[p] = "idle"
        /\ \A q \in Procs : q # p => pc'[q] = pc[q]
    BY <2>1, AtMoves
  <2>3. /\ Length' = Length /\ (Calm' => Calm)
    BY <2>1 DEF Calm, Length
  <2>4. ASSUME Calm PROVE Within' /\ Apart'
    <3>1. Alone /\ Within
      BY <2>4 DEF Calm, Sole, Reach
    <3>2. \A q \in Procs : file[q] = NULL
      BY <2>2, <3>1 DEF Alone, OneTakes, Taking, Claiming
    <3>3. \A q \in Procs : pc'[q] # "o_get" /\ pc'[q] \notin Handing
      BY <2>2, <3>1, <3>2 DEF Alone, OneOpens, Opening, Placed, Reading, Handing
    <3>4. msg_ptr' = 0 /\ Length' \in Nat
      BY <2>1, <2>2, <2>3, <3>1, LengthType DEF Within
    <3>5. msg_ptr' <= Length' + 1
      <4>1. \A n \in Nat : 0 <= n + 1
        OBVIOUS
      <4> QED
        BY <3>4, <4>1, Zenon
    <3> QED
      BY <3>3, <3>5 DEF Within, Apart, Handing
  <2> QED
    BY <2>1, <2>3, <2>4 DEF Reach, StaysInBuffer
<1> QED
  BY <1>1, <1>2, <1>3 DEF Open

LEMMA ReadReach ==
  ASSUME Safe, Sole, Reach, undefined = "no", NEW p \in Procs, Read(p)
  PROVE  Reach'
<1> USE DEF Safe
<1>1. UNCHANGED <<raced, counter, file>> /\ Length' = Length /\ (Calm' <=> Calm)
  BY DEF Read, ReadEnter, ReadTest, ReadReturn, ReadLoad, ReadStore, data, Calm, Length
<1>2. Length \in Nat /\ BUFFER_SIZE \in Nat
  BY LengthType, ChardevAssumption
<1>3. CASE ReadEnter(p) \/ ReadReturn(p)
  <2>1. PICK here, next \in {"idle", "r_test"} : At(p, here, next)
    BY <1>3 DEF ReadEnter, ReadReturn
  <2>2. UNCHANGED <<msg_ptr, loaded, undefined>>
    BY <1>3 DEF ReadEnter, ReadReturn, data
  <2>3. /\ pc'[p] = next
        /\ \A q \in Procs : q # p => pc'[q] = pc[q]
    BY <2>1, AtMoves DEF Places, Reading
  <2>4. Within /\ Apart => Within' /\ Apart'
    BY <1>1, <2>2, <2>3, ReadersKept
  <2> QED
    BY <1>1, <2>2, <2>4 DEF Reach, StaysInBuffer
<1>4. CASE ReadTest(p)
  <2>1. /\ At(p, "r_test", "r_load") /\ "r_load" \in Places
        /\ UNCHANGED <<msg_ptr, loaded>>
        /\ MoreToRead(msg_ptr) /\ undefined' = InBuffer(msg_ptr)
    BY <1>4 DEF ReadTest, Places, Reading, data
  <2>2. /\ pc[p] = "r_test" /\ pc'[p] = "r_load"
        /\ \A q \in Procs : q # p => pc'[q] = pc[q]
    BY <2>1, AtMoves
  <2>3. file[p] # NULL /\ msg_ptr \in Nat
    BY <2>2 DEF Placed, Pointed, Reading
  <2>4. ASSUME Calm PROVE msg_ptr < Length /\ msg_ptr < BUFFER_SIZE
    <3>1. msg_ptr <= Length + 1 /\ Length + 2 <= BUFFER_SIZE
      BY <2>3, <2>4 DEF Reach, Within, Calm
    <3>2. msg_ptr < Length \/ msg_ptr >= BUFFER_SIZE
      BY <2>1 DEF MoreToRead, Length
    <3> QED
      BY <1>2, <2>3, <3>1, <3>2
  <2>5. ASSUME Calm PROVE Within' /\ Apart'
    <3>1. Within /\ Apart /\ msg_ptr < Length
      BY <2>4, <2>5 DEF Reach
    <3>2. msg_ptr <= Length /\ msg_ptr # Length
      BY <1>2, <2>3, <3>1
    <3>3. Within'
      BY <1>1, <2>1, <2>2, <3>1, <3>2 DEF Within
    <3>4. \A q \in Procs : pc[q] = "r_store" => loaded[q] < Length
      BY <3>1, <3>2 DEF Within
    <3>5. Apart'
      BY <1>1, <2>1, <2>2, <3>1, <3>4 DEF Apart, Handing
    <3> QED
      BY <3>3, <3>5
  <2>6. StaysInBuffer'
    <3>1. Calm => undefined' = "no"
      BY <2>1, <2>4 DEF InBuffer
    <3> QED
      BY <1>1, <1>2, <3>1, Calmer
  <2> QED
    BY <1>1, <2>5, <2>6 DEF Reach
<1>5. CASE ReadLoad(p)
  <2>1. /\ At(p, "r_load", "r_store") /\ "r_store" \in Places
        /\ UNCHANGED msg_ptr /\ loaded' = [loaded EXCEPT ![p] = msg_ptr]
        /\ undefined' = InBuffer(msg_ptr)
    BY <1>5 DEF ReadLoad, Places, Reading, data
  <2>2. /\ pc[p] = "r_load" /\ pc'[p] = "r_store"
        /\ \A q \in Procs : q # p => pc'[q] = pc[q]
    BY <2>1, AtMoves
  <2>3. loaded'[p] = msg_ptr /\ \A q \in Procs : q # p => loaded'[q] = loaded[q]
    BY <2>1 DEF Types
  <2>4. msg_ptr \in Nat
    BY <2>2 DEF Placed, Pointed, Reading
  <2>5. ASSUME Calm PROVE msg_ptr < BUFFER_SIZE /\ Within' /\ Apart'
    <3>1. Within /\ Apart /\ Length + 2 <= BUFFER_SIZE
      BY <2>5 DEF Reach, Calm
    <3>2. msg_ptr <= Length
      BY <2>2, <3>1 DEF Within
    <3>3. msg_ptr < BUFFER_SIZE /\ (msg_ptr < Length \/ msg_ptr = Length)
      BY <1>2, <2>4, <3>1, <3>2
    <3>4. Within'
      BY <1>1, <2>1, <2>2, <2>3, <3>1, <3>3 DEF Within
    <3>5. Apart'
      BY <1>1, <2>1, <2>2, <2>3, <3>1 DEF Apart, Handing
    <3> QED
      BY <3>3, <3>4, <3>5
  <2>6. StaysInBuffer'
    <3>1. Calm => undefined' = "no"
      BY <2>1, <2>5 DEF InBuffer
    <3> QED
      BY <1>1, <1>2, <3>1, Calmer
  <2> QED
    BY <1>1, <2>5, <2>6 DEF Reach
<1>6. CASE ReadStore(p)
  <2>1. /\ At(p, "r_store", "r_test") /\ "r_test" \in Places
        /\ UNCHANGED <<loaded, undefined>> /\ msg_ptr' = loaded[p] + 1
    BY <1>6 DEF ReadStore, Places, Reading
  <2>2. /\ pc[p] = "r_store" /\ pc'[p] = "r_test"
        /\ \A q \in Procs : q # p => pc'[q] = pc[q]
    BY <2>1, AtMoves
  <2>3. loaded[p] \in Nat
    BY <2>2 DEF Pointed
  <2>4. ASSUME Calm PROVE Within' /\ Apart'
    <3>1. Within /\ Apart /\ Cardinality(Procs) <= 2
      BY <2>4 DEF Reach, Calm
    <3>2. msg_ptr' <= Length + 1
      <4>1. loaded[p] < Length \/ loaded[p] = Length
        BY <2>2, <3>1 DEF Within
      <4> QED
        BY <1>2, <2>1, <2>3, <4>1
    <3>3. \A q \in Procs : pc'[q] = "r_load" => msg_ptr' <= Length
      <4>1. SUFFICES ASSUME NEW q \in Procs, pc'[q] = "r_load" PROVE msg_ptr' <= Length
        OBVIOUS
      <4>2. p # q /\ pc[q] = "r_load"
        BY <2>2, <4>1
      <4>3. loaded[p] < Length
        BY <2>2, <3>1, <4>2 DEF Apart, Handing
      <4> QED
        BY <1>2, <2>1, <2>3, <4>3
    <3>4. \A q \in Procs : pc'[q] = "r_store" => loaded[q] < Length
      BY <2>2, <3>1 DEF Apart, Handing
    <3>5. \A q \in Procs : pc'[q] # "o_get"
      <4>1. SUFFICES ASSUME NEW q \in Procs, pc'[q] = "o_get" PROVE FALSE
        OBVIOUS
      <4>2. pc[q] = "o_get" /\ file[p] # NULL
        BY <2>2, <4>1 DEF Placed, Reading
      <4>3. Alone
        BY <2>4 DEF Calm, Sole
      <4> QED
        BY <4>2, <4>3 DEF Alone, OneTakes, Taking, Claiming
    <3>6. Within'
      BY <1>1, <2>1, <3>2, <3>3, <3>4, <3>5 DEF Within
    <3>7. Apart'
      BY <2>2, <3>1, AtMostTwo DEF Apart, Handing
    <3> QED
      BY <3>6, <3>7
  <2> QED
    BY <1>1, <2>1, <2>4 DEF Reach, StaysInBuffer
<1> QED
  BY <1>3, <1>4, <1>5, <1>6 DEF Read

LEMMA ReachStep ==
  ASSUME Safe, Sole, Reach, [Next]_vars
  PROVE  Reach'
<1> USE DEF Safe
<1>1. CASE UNCHANGED vars
  BY <1>1 DEF vars, data, Reach, Calm, Length, Within, Apart, StaysInBuffer
<1>2. CASE undefined = "no" /\ ModuleLoad
  <2>1. \A p \in Procs : pc[p] = "idle" /\ file[p] = NULL
    BY <1>2 DEF ModuleLoad, Pinned
  <2>2. UNCHANGED <<pc, file>> /\ undefined' = "no"
    BY <1>2 DEF ModuleLoad
  <2>3. Within' /\ Apart'
    BY <2>1, <2>2, NoReaders DEF Handing
  <2> QED
    BY <2>2, <2>3 DEF Reach, StaysInBuffer
<1>3. CASE ModuleUnload
  <2>1. UNCHANGED <<data, pc, file, loaded, raced>> /\ undefined' # "past buffer"
    BY <1>3 DEF ModuleUnload
  <2> QED
    BY <2>1 DEF data, Reach, Calm, Length, Within, Apart, StaysInBuffer
<1>4. ASSUME NEW p \in Procs, Release(p) PROVE Reach'
  <2>1. PICK next \in {"idle", "c_ret"} \cup Closing :
          /\ pc[p] \in {"idle", "c_ret"} \cup Closing
          /\ pc' = [pc EXCEPT ![p] = next]
    BY <1>4 DEF Release, Close, ReleaseLoad, ReleaseStore, ReleasePut, ReleaseReturn, At, Closing
  <2>2. UNCHANGED <<counter, msg_ptr, raced, undefined>>
    BY <1>4 DEF Release, Close, ReleaseLoad, ReleaseStore, ReleasePut, ReleaseReturn, data
  <2>3. \A q \in Procs : q # p => pc'[q] = pc[q] /\ loaded'[q] = loaded[q]
    BY <1>4, <2>1 DEF Release, Close, ReleaseLoad, ReleaseStore, ReleasePut, ReleaseReturn, Types
  <2>4. \A q \in Procs : file'[q] # NULL => file[q] # NULL
    BY <1>4 DEF Release, Close, ReleaseLoad, ReleaseStore, ReleasePut, ReleaseReturn, Types
  <2>5. pc'[p] = next
    BY <2>1 DEF Types
  <2>6. Within /\ Apart => Within' /\ Apart'
    BY <2>1, <2>2, <2>3, <2>4, <2>5, ReadersKept DEF Closing
  <2>7. Calm' <=> Calm
    BY <2>2 DEF Calm, Length
  <2> QED
    BY <2>2, <2>6, <2>7 DEF Reach, StaysInBuffer
<1>5. ASSUME NEW p \in Procs, NEW q \in Procs, Share(p, q) PROVE Reach'
  <2>1. /\ pc[q] = "idle" /\ file[p] # NULL
        /\ UNCHANGED <<pc, loaded, counter, msg_ptr, raced, undefined>>
    BY <1>5 DEF Share, data
  <2>2. Within /\ Apart => Within' /\ Apart'
    BY <2>1, ReadersKept
  <2>3. Calm' <=> Calm
    BY <2>1 DEF Calm, Length
  <2> QED
    BY <2>1, <2>2, <2>3 DEF Reach, StaysInBuffer
<1> QED
  BY <1>1, <1>2, <1>3, <1>4, <1>5, OpenReach, ReadReach DEF Next, Halted

(* With one file open and two processes reading it through one msg_ptr,    *)
(* neither gets past the buffer while the message leaves a character to    *)
(* spare: however the tests, the loads and the stores of *msg_ptr++        *)
(* interleave, only one of the two can go past the 0 at the end, by one.   *)
THEOREM ReadersStayInside == Spec => []StaysInBuffer
<1>1. Init => Reach
  <2>1. SUFFICES ASSUME Init PROVE Reach
    OBVIOUS
  <2>2. Within /\ Apart
    BY <2>1 DEF Init, Within, Apart, Handing
  <2> QED
    BY <2>1, <2>2 DEF Init, Reach, StaysInBuffer
<1>2. IInv /\ Sole /\ Reach /\ [Next]_vars => Reach'
  BY ReachStep DEF IInv
<1>3. Reach => StaysInBuffer
  BY DEF Reach
<1> QED
  BY <1>1, <1>2, <1>3, Inductive, SoleAlways, PTL DEF Spec

=============================================================================
