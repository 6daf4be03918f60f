------------------------------ MODULE Chardev ------------------------------
(***************************************************************************)
(* The character device of src/src/chardev-01 and src/src/chardev-02: its  *)
(* load and unload, the /proc entry of chardev-02, and device_open,        *)
(* device_read and device_release as the VFS calls them for processes that *)
(* may share an open file.                                                 *)
(*                                                                         *)
(* One file is to be open at a time: device_open refuses while has_open is *)
(* not 0.  It leaves a message in msg_buff, and device_read hands out the  *)
(* message a character at a time through the one pointer msg_ptr.  None of *)
(* this is locked; pc[p] says where the callback process p runs is.        *)
(***************************************************************************)
EXTENDS Integers, FiniteSets

CONSTANTS
  Procs,        (* the processes that use the device                        *)
  Files,        (* the open file objects the kernel has                     *)
  NULL,
  BUFFER_SIZE,  (* the size of msg_buff                                     *)
  FixedText,    (* the characters of the message that are not its number    *)
  MaxOpens,     (* a bound: how often device_open goes through              *)
  MaxLoads,     (* a bound: how often the module is loaded                  *)
  HasProc,      (* TRUE for chardev-02, which makes a /proc entry           *)
  Faults        (* the kernel calls that may fail: a subset of {"proc"}     *)

ASSUME ChardevAssumption ==
  /\ NULL \notin Files
  /\ BUFFER_SIZE \in Nat /\ FixedText \in Nat
  /\ MaxOpens \in Nat /\ MaxLoads \in Nat
  /\ Faults \subseteq {"proc"}
  /\ HasProc \in BOOLEAN

ASSUME ProcsFinite == IsFiniteSet(Procs)

VARIABLES
  text,      (* which load's code is in memory, or 0                        *)
  loads,     (* how often the module was loaded                             *)
  nodes,     (* the loads whose fops are registered for a major number      *)
  refs,      (* the module's reference count                                *)
  has_open,
  counter,   (* device_open's static counter, which is also the number in   *)
             (* msg_buff from OpenPrint on                                  *)
  msg_ptr,   (* an index into msg_buff, or NULL                             *)
  pc,        (* where the callback p runs is                                *)
  file,      (* the open file p holds, or NULL                              *)
  loaded,    (* the has_open or msg_ptr a running -- or ++ of p has read    *)
  raced,     (* a history: an open of this load began during another        *)
  undefined  (* "no", or what the code did that leaves defined behaviour    *)

kernel == <<text, loads, nodes>>
data == <<has_open, counter, msg_ptr>>
vars == <<kernel, refs, data, pc, file, loaded, raced, undefined>>

Opening == {"o_test", "o_load", "o_store", "o_print", "o_reset", "o_get"}
Reading == {"r_test", "r_load", "r_store"}
Closing == {"c_load", "c_store", "c_put"}

OpenFiles == {file[p] : p \in Procs} \ {NULL}
Inside(states) == {p \in Procs : pc[p] \in states}

Digits(n) == IF n < 10 THEN 1 ELSE IF n < 100 THEN 2 ELSE 3

(* The characters of "device already opened %d times\n", without the 0 at  *)
(* the end.                                                                *)
MessageLength(n) == FixedText + Digits(n)

At(p, here, next) == pc[p] = here /\ pc' = [pc EXCEPT ![p] = next]

-----------------------------------------------------------------------------
(* module_load and module_unload *)

Init ==
  /\ text = 0 /\ loads = 0 /\ nodes = {} /\ refs = 0
  /\ has_open = 0 /\ counter = 0 /\ msg_ptr = NULL
  /\ pc = [p \in Procs |-> "idle"]
  /\ file = [p \in Procs |-> NULL]
  /\ loaded = [p \in Procs |-> 0]
  /\ raced = FALSE /\ undefined = "no"

(* register_chrdev goes through.  When proc_create fails the module is     *)
(* given up with its major number still registered.                        *)
ModuleLoad ==
  /\ text = 0 /\ loads < MaxLoads
  /\ loads' = loads + 1
  /\ nodes' = nodes \cup {loads + 1}
  /\ \/ text' = loads + 1
     \/ HasProc /\ "proc" \in Faults /\ UNCHANGED text
  /\ has_open' = 0 /\ counter' = 0 /\ msg_ptr' = NULL /\ raced' = FALSE
  /\ UNCHANGED <<refs, pc, file, loaded, undefined>>

(* rmmod goes ahead when the reference count is 0.  module_unload does not *)
(* unregister the device, and a callback that has not raised the count yet *)
(* or has put it down already finds its code gone.                         *)
ModuleUnload ==
  /\ text # 0 /\ refs = 0
  /\ text' = 0
  /\ undefined' = IF Inside({"idle"}) = Procs THEN "no" ELSE "freed code"
  /\ UNCHANGED <<loads, nodes, refs, data, pc, file, loaded, raced>>

-----------------------------------------------------------------------------
(* device_open *)

(* The VFS calls open of a registered fops, in code that may be gone.      *)
OpenEnter(p) ==
  /\ file[p] = NULL
  /\ raced' = (raced \/ Inside(Opening) # {})
  /\ \E load \in nodes : undefined' = IF load = text THEN "no" ELSE "freed code"
  /\ At(p, "idle", "o_test")
  /\ UNCHANGED <<kernel, refs, data, file, loaded>>

OpenBusy(p) ==
  /\ has_open # 0
  /\ At(p, "o_test", "idle")
  /\ UNCHANGED <<kernel, refs, data, file, loaded, raced, undefined>>

(* Fault for the mutation runs: the test is not made.                      *)
OpenTest_Skipped(p) ==
  /\ counter < MaxOpens
  /\ At(p, "o_test", "o_load")
  /\ UNCHANGED <<kernel, refs, data, file, loaded, raced, undefined>>

OpenTest(p) ==
  /\ has_open = 0 /\ counter < MaxOpens
  /\ At(p, "o_test", "o_load")
  /\ UNCHANGED <<kernel, refs, data, file, loaded, raced, undefined>>

(* ++has_open reads has_open again, and another open may have stored 1.    *)
OpenLoad(p) ==
  /\ At(p, "o_load", "o_store")
  /\ loaded' = [loaded EXCEPT ![p] = has_open]
  /\ UNCHANGED <<kernel, refs, data, file, raced, undefined>>

OpenStore(p) ==
  /\ At(p, "o_store", "o_print")
  /\ has_open' = loaded[p] + 1
  /\ UNCHANGED <<kernel, refs, counter, msg_ptr, file, loaded, raced, undefined>>

(* sprintf does not know how large msg_buff is.  ++counter and sprintf are *)
(* one step here: only opens that race come between them.                  *)
OpenPrint(p) ==
  /\ At(p, "o_print", "o_reset")
  /\ counter' = counter + 1
  /\ undefined' = IF MessageLength(counter') < BUFFER_SIZE THEN "no" ELSE "past buffer"
  /\ UNCHANGED <<kernel, refs, has_open, msg_ptr, file, loaded, raced>>

OpenReset(p) ==
  /\ At(p, "o_reset", "o_get")
  /\ msg_ptr' = 0
  /\ UNCHANGED <<kernel, refs, has_open, counter, file, loaded, raced, undefined>>

(* Fault for the mutation runs: the module's count is not raised.          *)
OpenGet_NoCount(p) ==
  /\ At(p, "o_get", "idle")
  /\ \E f \in Files \ OpenFiles : file' = [file EXCEPT ![p] = f]
  /\ UNCHANGED <<kernel, refs, data, loaded, raced, undefined>>

(* try_module_get, and the file is open.                                   *)
OpenGet(p) ==
  /\ At(p, "o_get", "idle")
  /\ refs' = refs + 1
  /\ \E f \in Files \ OpenFiles : file' = [file EXCEPT ![p] = f]
  /\ UNCHANGED <<kernel, data, loaded, raced, undefined>>

(* fork, or a descriptor passed on: another process holds the file too.    *)
Share(p, q) ==
  /\ pc[p] = "idle" /\ file[p] # NULL
  /\ pc[q] = "idle" /\ file[q] = NULL
  /\ file' = [file EXCEPT ![q] = file[p]]
  /\ UNCHANGED <<kernel, refs, data, pc, loaded, raced, undefined>>

-----------------------------------------------------------------------------
(* device_read *)

ReadEnter(p) ==
  /\ file[p] # NULL
  /\ At(p, "idle", "r_test")
  /\ UNCHANGED <<kernel, refs, data, file, loaded, raced, undefined>>

(* Fault for the mutation runs: one character too far.                     *)
MoreToRead_OneMore(i) == i <= MessageLength(counter) \/ i >= BUFFER_SIZE

(* *msg_ptr # 0: sprintf ends the message with a 0, the rest of the buffer *)
(* was never written, and past the buffer there may be anything.           *)
MoreToRead(i) == i < MessageLength(counter) \/ i >= BUFFER_SIZE

InBuffer(i) == IF i < BUFFER_SIZE THEN "no" ELSE "past buffer"

(* size && *msg_ptr != 0 ...                                               *)
ReadTest(p) ==
  /\ At(p, "r_test", "r_load")
  /\ MoreToRead(msg_ptr)
  /\ undefined' = InBuffer(msg_ptr)
  /\ UNCHANGED <<kernel, refs, data, file, loaded, raced>>

(* ... or the end of the message, or of what the caller asked for.         *)
ReadReturn(p) ==
  /\ At(p, "r_test", "idle")
  /\ UNCHANGED <<kernel, refs, data, file, loaded, raced, undefined>>

(* put_user of *msg_ptr++: the pointer is read, and what it points at.     *)
ReadLoad(p) ==
  /\ At(p, "r_load", "r_store")
  /\ loaded' = [loaded EXCEPT ![p] = msg_ptr]
  /\ undefined' = InBuffer(msg_ptr)
  /\ UNCHANGED <<kernel, refs, data, file, raced>>

ReadStore(p) ==
  /\ At(p, "r_store", "r_test")
  /\ msg_ptr' = loaded[p] + 1
  /\ UNCHANGED <<kernel, refs, has_open, counter, file, loaded, raced, undefined>>

-----------------------------------------------------------------------------
(* device_release *)

(* close: the last process to hold the file runs device_release.           *)
Close(p) ==
  /\ file[p] # NULL
  /\ At(p, "idle", IF \E q \in Procs \ {p} : file[q] = file[p] THEN "idle" ELSE "c_load")
  /\ file' = [file EXCEPT ![p] = NULL]
  /\ UNCHANGED <<kernel, refs, data, loaded, raced, undefined>>

ReleaseLoad(p) ==
  /\ At(p, "c_load", "c_store")
  /\ loaded' = [loaded EXCEPT ![p] = has_open]
  /\ UNCHANGED <<kernel, refs, data, file, raced, undefined>>

(* Fault for the mutation runs: has_open is not counted down.              *)
ReleaseStore_Skipped(p) ==
  /\ At(p, "c_store", "c_put")
  /\ UNCHANGED <<kernel, refs, data, file, loaded, raced, undefined>>

ReleaseStore(p) ==
  /\ At(p, "c_store", "c_put")
  /\ has_open' = loaded[p] - 1
  /\ UNCHANGED <<kernel, refs, counter, msg_ptr, file, loaded, raced, undefined>>

(* Fault for the mutation runs: the reference is put twice.                *)
ReleasePut_Twice(p) ==
  /\ At(p, "c_put", "c_ret")
  /\ refs' = refs - 2
  /\ UNCHANGED <<kernel, data, file, loaded, raced, undefined>>

ReleasePut(p) ==
  /\ At(p, "c_put", "c_ret")
  /\ refs' = refs - 1
  /\ UNCHANGED <<kernel, data, file, loaded, raced, undefined>>

(* device_release has put the reference and is still running.              *)
ReleaseReturn(p) ==
  /\ At(p, "c_ret", "idle")
  /\ UNCHANGED <<kernel, refs, data, file, loaded, raced, undefined>>

-----------------------------------------------------------------------------
Open(p) == OpenEnter(p) \/ OpenBusy(p) \/ OpenTest(p) \/ OpenLoad(p) \/ OpenStore(p)
           \/ OpenPrint(p) \/ OpenReset(p) \/ OpenGet(p)
Read(p) == ReadEnter(p) \/ ReadTest(p) \/ ReadReturn(p) \/ ReadLoad(p) \/ ReadStore(p)
Release(p) == Close(p) \/ ReleaseLoad(p) \/ ReleaseStore(p) \/ ReleasePut(p)
              \/ ReleaseReturn(p)

(* After undefined behaviour nothing more is claimed of the machine; and   *)
(* the bounds end the model where the code goes on.                        *)
Halted == (undefined # "no" \/ counter = MaxOpens \/ loads = MaxLoads) /\ UNCHANGED vars

Next ==
  \/ /\ undefined = "no"
     /\ \/ ModuleLoad \/ ModuleUnload
        \/ \E p \in Procs : Open(p) \/ Read(p) \/ Release(p) \/ \E q \in Procs : Share(p, q)
  \/ Halted

Spec == Init /\ [][Next]_vars

-----------------------------------------------------------------------------
(* Properties *)

TypeOK ==
  /\ text \in 0 .. MaxLoads /\ loads \in 0 .. MaxLoads /\ nodes \subseteq 1 .. MaxLoads
  /\ refs \in Nat
  /\ has_open \in Int /\ counter \in 0 .. MaxOpens + Cardinality(Procs)
  /\ msg_ptr \in Nat \cup {NULL}
  /\ pc \in [Procs -> {"idle", "c_ret"} \cup Opening \cup Reading \cup Closing]
  /\ file \in [Procs -> Files \cup {NULL}]
  /\ loaded \in [Procs -> Int]
  /\ undefined \in {"no", "freed code", "past buffer"}

(* What has_open is for: unless two opens overlapped, no second file is    *)
(* open, or being opened or closed, while one is.                          *)
ExclusiveOpen ==
  ~raced => Cardinality(OpenFiles)
            + Cardinality(Inside((Opening \ {"o_test"}) \cup {"c_load", "c_store"})) <= 1

(* The device is busy only while somebody has it open: unless two opens    *)
(* overlapped, the next one goes through when no file is open and no       *)
(* callback runs.                                                          *)
BusyOnlyWhileOpen ==
  ~raced /\ OpenFiles = {} /\ Inside({"idle"}) = Procs => has_open = 0

(* The module's reference count is the number of files that are open or    *)
(* that device_release has not put yet, even when opens race.              *)
RefsCountFiles ==
  refs = Cardinality(OpenFiles) + Cardinality(Inside(Closing))

(* An open file keeps the module's code, and so does a release up to its   *)
(* module_put.  With no owner in the fops nothing keeps it for the rest:   *)
(* an open that has not come to try_module_get, and a release that has put *)
(* its reference and not returned, are all that rmmod can run under.       *)
FilesPinTheModule ==
  text = 0 => OpenFiles = {} /\ Inside({"idle", "c_ret"} \cup Opening) = Procs

(* Two readers of a shared file test and increment msg_ptr with no lock,   *)
(* and one may carry it a character past the message's end, but no         *)
(* further: past msg_buff they come only where opens overlapped, or where  *)
(* the number has grown too long to leave that character (from the tenth   *)
(* open on; three readers need not wait for it).                           *)
StaysInBuffer ==
  undefined = "past buffer" =>
    raced \/ MessageLength(counter) + 2 > BUFFER_SIZE \/ Cardinality(Procs) > 2

(* A module that is not there has no device registered: the call that      *)
(* module_unload has commented out (chardev-02/chardev.c:97).              *)
UnloadUnregisters ==
  text = 0 => nodes = {}

=============================================================================
