------------------------------ MODULE FakeCard ------------------------------
(***************************************************************************)
(* The driver of src/src/pci-fake/pcidev.c: it has one context in use for  *)
(* all its devices, resets the card in probe, sends it a request through   *)
(* the memory of the card, and polls the tag for the answer.               *)
(*                                                                         *)
(* The callbacks of one device come one after the other; those of two may  *)
(* run at the same time, and each step is one access to the context or to  *)
(* a card, but that the BARs are looked up in one step and reset_io is     *)
(* one.  The card runs beside them.  What is said of it here is what the   *)
(* driver expects of it: it looks at the tag when its doorbell rings,      *)
(* writes the answer over the request and then sets the tag, at any time   *)
(* or never, and a reset makes it give up what it is doing.  Only the      *)
(* worker of chip 0 is modelled, the only one that is used; where those of *)
(* the other chips are, for reset_io writes to all, is in WorkerLayout.    *)
(***************************************************************************)
EXTENDS WorkerLayout, FiniteSets

CONSTANTS
  Devices,     (* the PCI devices that match pci_ids                        *)
  NULL,
  Faults,      (* the kernel calls that may fail                            *)
  AnswerTags,  (* the tags the card may set on an answer                    *)
  Cards,       (* the BARs the devices may have: whether there is one of    *)
               (* ports, and the size of the one of memory, 0 if none       *)
  Retries,     (* how often test_io reads the tag: 5 in the code            *)
  MaxProbes    (* a bound: how often probe is called                        *)

ASSUME FakeAssumption ==
  /\ NULL \notin Devices /\ NULL \notin Int
  /\ NULL \notin {"zero", "junk", "request", "answer"} \X (0 .. MaxProbes)
  /\ NULL \notin [dev : Devices, nth : 0 .. MaxProbes]
  /\ Retries \in Nat \ {0} /\ MaxProbes \in Nat
  /\ Cards \subseteq [Devices -> [io : BOOLEAN, mem : Nat]]
  /\ Faults \subseteq {"regions", "ioremap"}
  /\ AnswerTags \subseteq {"free", "returned"}

VARIABLES
  bars,       (* the BARs of d, as the card has them                        *)
  phase,      (* where the module is                                        *)
  ctx,        (* driver_contexts[0]                                         *)
  regions,    (* the devices whose regions the driver holds                 *)
  mappings,   (* the mappings of device memory that exist                   *)
  probes,     (* how many probes have begun                                 *)
  pc,         (* where the callback for d is                                *)
  nth,        (* which probe the last of d was; its request has that number *)
  retry,      (* test_io's retry, in the probe of d                         *)
  got,        (* the data that was last read as an answer, or NULL          *)
  tag, buf,   (* chip 0's tag and buffer in the memory of d                 *)
  in_reset,   (* whether the reset line of d is on                          *)
  work,       (* what the card d is doing, and for which request            *)
  slips,      (* a history of what the code is not made for                 *)
  undefined   (* "no", or what the code did that leaves defined behaviour   *)

driver == <<ctx, regions, mappings, slips>>
local == <<probes, nth, retry, got>>
memory == <<tag, buf>>
card == <<in_reset, work>>
vars == <<bars, phase, driver, pc, local, memory, card, undefined>>

Requests == 0 .. MaxProbes
Mapping == [dev : Devices, nth : Requests]
Content == {"zero", "junk", "request", "answer"} \X Requests
Working == {"idle", "working", "answered"} \X Requests
Context == [pci_dev : Devices \cup {NULL},   (* the device probed last      *)
            port    : Devices \cup {NULL},   (* dev_resource: whose ports   *)
            mem     : Devices \cup {NULL},   (* and whose memory            *)
            base    : Mapping \cup {NULL},   (* base_addr                   *)
            buffers : Mapping \cup {NULL},   (* w_buffer and s_buffer       *)
            workers : Mapping \cup {NULL}]   (* those of the workers        *)

BlankContext == [pci_dev |-> NULL, port |-> NULL, mem |-> NULL,
                 base |-> NULL, buffers |-> NULL, workers |-> NULL]

AtRest == {"unbound", "bound"}
Others(d) == Devices \ {d}
Goto(d, l) == pc' = [pc EXCEPT ![d] = l]
Slip(S) == slips' = slips \cup S

(* A callback for d that begins while one for another device runs.         *)
Overlapping(d) == IF \E e \in Others(d) : pc[e] \notin AtRest THEN {"overlap"} ELSE {}
(* A probe of d while another device has the context.                      *)
Sharing(d) == IF \E e \in Others(d) : pc[e] = "bound" THEN {"shared"} ELSE {}

-----------------------------------------------------------------------------
(* krn_module_init and krn_module_exit *)

Init ==
  /\ bars \in Cards
  /\ phase = "absent" /\ ctx = BlankContext
  /\ regions = {} /\ mappings = {} /\ probes = 0
  /\ pc = [d \in Devices |-> "unbound"] /\ nth = [d \in Devices |-> 0]
  /\ retry = [d \in Devices |-> 0] /\ got = NULL
  /\ tag = [d \in Devices |-> "free"] /\ buf = [d \in Devices |-> <<"junk", 0>>]
  /\ in_reset = [d \in Devices |-> FALSE] /\ work = [d \in Devices |-> <<"idle", 0>>]
  /\ slips = {} /\ undefined = "no"

(* A load that fails gives its minors back and leaves nothing.             *)
ModuleInit ==
  /\ phase = "absent"
  /\ phase' = "loaded" /\ ctx' = BlankContext    (* init_driver_contexts *)
  /\ UNCHANGED <<bars, regions, mappings, slips, pc, local, memory, card, undefined>>

(* pci_unregister_driver has the devices removed that are still bound, as  *)
(* they may be while the module is loaded, and returns when none is.       *)
ModuleExit ==
  /\ phase = "loaded" /\ \A d \in Devices : pc[d] = "unbound"
  /\ phase' = "absent"
  /\ UNCHANGED <<bars, driver, pc, local, memory, card, undefined>>

-----------------------------------------------------------------------------
(* probe.  An enable that fails changes nothing.  The locals of test_io    *)
(* are fresh in every probe.                                               *)

ProbeStart(d) ==
  /\ phase = "loaded" /\ pc[d] = "unbound" /\ probes < MaxProbes
  /\ probes' = probes + 1 /\ nth' = [nth EXCEPT ![d] = probes + 1]
  /\ retry' = [retry EXCEPT ![d] = 0] /\ got' = NULL
  /\ ctx' = [ctx EXCEPT !.pci_dev = d]
  /\ Slip(Overlapping(d) \cup Sharing(d))
  /\ Goto(d, "p_hold")
  /\ UNCHANGED <<bars, phase, regions, mappings, memory, card, undefined>>

(* hold_pci_resources: the regions ...                                     *)
HoldRefused(d) ==
  /\ pc[d] = "p_hold"
  /\ d \in regions \/ "regions" \in Faults
  /\ Goto(d, "unbound")
  /\ UNCHANGED <<bars, phase, driver, local, memory, card, undefined>>

(* ... then the BARs: of one that d does not have, the context keeps what  *)
(* it had ...                                                              *)
HoldLookUp(d) ==
  /\ pc[d] = "p_hold" /\ d \notin regions
  /\ regions' = regions \cup {d}
  /\ ctx' = [ctx EXCEPT !.port = IF bars[d].io THEN d ELSE @,
                        !.mem = IF bars[d].mem > 0 THEN d ELSE @]
  /\ Slip(IF bars[d].io /\ bars[d].mem > 0 THEN {} ELSE {"missing"})
  /\ Goto(d, "p_map")
  /\ UNCHANGED <<bars, phase, mappings, local, memory, card, undefined>>

(* ... ioremap, which maps nothing when it is given nothing ...            *)
HoldMap(d) ==
  /\ pc[d] = "p_map" /\ ctx.mem # NULL
  /\ LET mapping == [dev |-> ctx.mem, nth |-> nth[d]]
     IN  /\ mappings' = mappings \cup {mapping}
         /\ ctx' = [ctx EXCEPT !.base = mapping]
  /\ Goto(d, "p_base")
  /\ UNCHANGED <<bars, phase, regions, slips, local, memory, card, undefined>>

HoldUnmapped(d) ==
  /\ pc[d] = "p_map"
  /\ ctx.mem = NULL \/ "ioremap" \in Faults
  /\ ctx' = [ctx EXCEPT !.base = NULL]
  /\ Slip({"unmapped"})
  /\ Goto(d, "p_base")
  /\ UNCHANGED <<bars, phase, regions, mappings, local, memory, card, undefined>>

(* ... and, when it failed, the regions are released and the result is     *)
(* still 0.                                                                *)
HoldFailed(d) ==
  /\ pc[d] = "p_base" /\ ctx.base = NULL
  /\ regions' = regions \ {d}
  /\ Goto(d, "p_workers")
  /\ UNCHANGED <<bars, phase, ctx, mappings, slips, local, memory, card, undefined>>

(* Fault for the mutation runs: w_buffer and s_buffer are not set.         *)
HoldBuffers_NotSet(d) ==
  /\ pc[d] = "p_base" /\ ctx.base # NULL
  /\ Goto(d, "p_workers")
  /\ UNCHANGED <<bars, phase, driver, local, memory, card, undefined>>

(* Else the memory is cleared.                                             *)
HoldBuffers(d) ==
  /\ pc[d] = "p_base" /\ ctx.base # NULL
  /\ ctx' = [ctx EXCEPT !.buffers = ctx.base]
  /\ \/ /\ ctx.base \in mappings
        /\ tag' = [tag EXCEPT ![ctx.base.dev] = "free"]
        /\ buf' = [buf EXCEPT ![ctx.base.dev] = <<"zero", 0>>]
        /\ UNCHANGED undefined
     \/ /\ ctx.base \notin mappings
        /\ undefined' = "unmapped memory"
        /\ UNCHANGED memory
  /\ Goto(d, "p_workers")
  /\ UNCHANGED <<bars, phase, regions, mappings, slips, local, card>>

InitWorkers(d) ==
  /\ pc[d] = "p_workers"
  /\ ctx' = [ctx EXCEPT !.workers = ctx.buffers]
  /\ Goto(d, "p_reset")
  /\ UNCHANGED <<bars, phase, regions, mappings, slips, local, memory, card, undefined>>

(* A step on the card behind the context's ports, if it has any: port 0    *)
(* is somebody else's.                                                     *)
OnPort(step) ==
  \/ ctx.port # NULL /\ step /\ UNCHANGED undefined
  \/ ctx.port = NULL /\ undefined' = "port 0" /\ UNCHANGED card

(* Fault for the mutation runs: reset_device is left out.                  *)
ProbeReset_Skipped(d) ==
  /\ pc[d] = "p_reset"
  /\ Goto(d, "p_unreset")
  /\ UNCHANGED <<bars, phase, driver, local, memory, card, undefined>>

(* reset_device: the reset line goes on, and off again.                    *)
ProbeReset(d) ==
  /\ pc[d] = "p_reset"
  /\ OnPort(/\ in_reset' = [in_reset EXCEPT ![ctx.port] = TRUE]
            /\ work' = [work EXCEPT ![ctx.port] = <<"idle", 0>>])
  /\ Goto(d, "p_unreset")
  /\ UNCHANGED <<bars, phase, driver, local, memory>>

ProbeUnreset(d) ==
  /\ pc[d] = "p_unreset"
  /\ OnPort(in_reset' = [in_reset EXCEPT ![ctx.port] = FALSE] /\ UNCHANGED work)
  /\ Goto(d, "p_io")
  /\ UNCHANGED <<bars, phase, driver, local, memory>>

Usable == ctx.workers \in mappings
Card == ctx.workers.dev

(* A step on the card's memory, where it is mapped.                        *)
OnMemory(step) ==
  \/ Usable /\ step /\ UNCHANGED undefined
  \/ ~Usable /\ undefined' = "unmapped memory" /\ UNCHANGED memory

TooSmall == Usable /\ ~Fits(bars[Card].mem)

(* reset_io writes the words of an array nobody set, and the tag, for every *)
(* chip: where the memory is too small, past its end.                      *)
ProbeIo(d) ==
  /\ pc[d] = "p_io"
  /\ \/ /\ ~TooSmall
        /\ OnMemory(/\ buf' = [buf EXCEPT ![Card] = <<"junk", 0>>]
                    /\ tag' = [tag EXCEPT ![Card] = "free"])
     \/ /\ TooSmall
        /\ undefined' = "past the memory" /\ UNCHANGED memory
  /\ Goto(d, "p_buffer")
  /\ UNCHANGED <<bars, phase, driver, local, card>>

(* test_io: the request, the tag, the doorbell.                            *)
TestBuffer(d) ==
  /\ pc[d] = "p_buffer"
  /\ OnMemory(buf' = [buf EXCEPT ![Card] = <<"request", nth[d]>>] /\ UNCHANGED tag)
  /\ Goto(d, "p_tag")
  /\ UNCHANGED <<bars, phase, driver, local, card>>

TestTag(d) ==
  /\ pc[d] = "p_tag"
  /\ OnMemory(tag' = [tag EXCEPT ![Card] = "write"] /\ UNCHANGED buf)
  /\ Goto(d, "p_bell")
  /\ UNCHANGED <<bars, phase, driver, local, card>>

TestBell(d) ==
  /\ pc[d] = "p_bell"
  /\ OnPort(/\ work' = IF in_reset[ctx.port] \/ tag[ctx.port] # "write" THEN work
                       ELSE [work EXCEPT ![ctx.port] = <<"working", buf[ctx.port][2]>>]
            /\ UNCHANGED in_reset)
  /\ Goto(d, "p_poll")
  /\ UNCHANGED <<bars, phase, driver, local, memory>>

(* read: TAG_FREE and TAG_RETURNED are both taken for an answer.           *)
PollAnswered(d) ==
  /\ pc[d] = "p_poll" /\ Usable
  /\ tag[Card] \in {"free", "returned"}
  /\ Goto(d, "p_copy")
  /\ UNCHANGED <<bars, phase, driver, local, memory, card, undefined>>

(* Fault for the mutation runs: the tries are not counted.                 *)
PollNotYet_ForEver(d) ==
  /\ pc[d] = "p_poll" /\ Usable
  /\ tag[Card] = "write"
  /\ UNCHANGED vars

(* Fault for the mutation runs: one try more.                              *)
PollNotYet_OneMore(d) ==
  /\ pc[d] = "p_poll" /\ Usable
  /\ tag[Card] = "write"
  /\ retry' = [retry EXCEPT ![d] = @ + 1]
  /\ Goto(d, IF retry'[d] <= Retries THEN "p_poll" ELSE "bound")
  /\ UNCHANGED <<bars, phase, driver, probes, nth, got, memory, card, undefined>>

PollNotYet(d) ==
  /\ pc[d] = "p_poll" /\ Usable
  /\ tag[Card] = "write"
  /\ retry' = [retry EXCEPT ![d] = @ + 1]
  /\ Goto(d, IF retry'[d] < Retries THEN "p_poll" ELSE "bound")
  /\ UNCHANGED <<bars, phase, driver, probes, nth, got, memory, card, undefined>>

TestCopy(d) ==
  /\ pc[d] = "p_copy" /\ Usable
  /\ got' = buf[Card]
  /\ Goto(d, "bound")
  /\ UNCHANGED <<bars, phase, driver, probes, nth, retry, memory, card, undefined>>

(* read, from memory that somebody has unmapped.                           *)
ReadUnmapped(d) ==
  /\ pc[d] \in {"p_poll", "p_copy"} /\ ~Usable
  /\ undefined' = "unmapped memory"
  /\ UNCHANGED <<bars, phase, driver, pc, local, memory, card>>

-----------------------------------------------------------------------------
(* remove, by way of free_pci_resources.                                   *)

(* Fault for the mutation runs: the memory stays mapped.                   *)
RemoveUnmap_KeepsMapping(d) ==
  /\ pc[d] = "bound"
  /\ Slip(Overlapping(d))
  /\ Goto(d, "r_release")
  /\ UNCHANGED <<bars, phase, ctx, regions, mappings, local, memory, card, undefined>>

RemoveUnmap(d) ==
  /\ pc[d] = "bound"
  /\ undefined' = IF ctx.base \in mappings \cup {NULL} THEN undefined ELSE "unmapped twice"
  /\ mappings' = mappings \ {ctx.base}
  /\ Slip(Overlapping(d))
  /\ Goto(d, "r_release")
  /\ UNCHANGED <<bars, phase, ctx, regions, local, memory, card>>

RemoveRelease(d) ==
  /\ pc[d] = "r_release"
  /\ regions' = regions \ {ctx.pci_dev}
  /\ Goto(d, "unbound")
  /\ UNCHANGED <<bars, phase, ctx, mappings, slips, local, memory, card, undefined>>

-----------------------------------------------------------------------------
(* The card: the answer, then the tag.                                     *)

CardAnswers(d) ==
  /\ work[d][1] = "working"
  /\ buf' = [buf EXCEPT ![d] = <<"answer", work[d][2]>>]
  /\ work' = [work EXCEPT ![d] = <<"answered", work[d][2]>>]
  /\ UNCHANGED <<bars, phase, driver, pc, local, tag, in_reset, undefined>>

CardTags(d) ==
  /\ work[d][1] = "answered"
  /\ \E t \in AnswerTags : tag' = [tag EXCEPT ![d] = t]
  /\ work' = [work EXCEPT ![d] = <<"idle", 0>>]
  /\ UNCHANGED <<bars, phase, driver, pc, local, buf, in_reset, undefined>>

-----------------------------------------------------------------------------
Hold(d) ==
  \/ HoldRefused(d) \/ HoldLookUp(d) \/ HoldMap(d) \/ HoldUnmapped(d)
  \/ HoldFailed(d) \/ HoldBuffers(d) \/ InitWorkers(d)
Reset(d) == ProbeReset(d) \/ ProbeUnreset(d) \/ ProbeIo(d)
Test(d) ==
  \/ TestBuffer(d) \/ TestTag(d) \/ TestBell(d)
  \/ PollAnswered(d) \/ PollNotYet(d) \/ TestCopy(d) \/ ReadUnmapped(d)

(* The rest of a callback for d that has begun, until something undefined  *)
(* has happened: after that nothing more is claimed of the machine.        *)
Callback(d) == undefined = "no" /\ (Hold(d) \/ Reset(d) \/ Test(d) \/ RemoveRelease(d))

Halted == (undefined # "no" \/ probes = MaxProbes) /\ UNCHANGED vars

Next ==
  \/ \E d \in Devices : Callback(d)
  \/ /\ undefined = "no"
     /\ \/ ModuleInit \/ ModuleExit
        \/ \E d \in Devices : ProbeStart(d) \/ RemoveUnmap(d) \/ CardAnswers(d) \/ CardTags(d)
  \/ Halted

(* The kernel runs a callback to its end, and each step of it changes one  *)
(* of the three; the card may be silent.                                   *)
Spec == Init /\ [][Next]_vars /\ \A d \in Devices : WF_<<pc, retry, undefined>>(Callback(d))

-----------------------------------------------------------------------------
(* Properties *)

TypeOK ==
  /\ bars \in Cards
  /\ phase \in {"absent", "loaded"}
  /\ ctx \in Context
  /\ regions \subseteq Devices /\ mappings \subseteq Mapping
  /\ pc \in [Devices -> AtRest \cup {"p_hold", "p_map", "p_base", "p_workers",
                                     "p_reset", "p_unreset", "p_io", "p_buffer", "p_tag",
                                     "p_bell", "p_poll", "p_copy", "r_release"}]
  /\ probes \in Requests /\ nth \in [Devices -> Requests]
  /\ retry \in [Devices -> 0 .. Retries] /\ got \in Content \cup {NULL}
  /\ tag \in [Devices -> {"free", "write", "returned"}] /\ buf \in [Devices -> Content]
  /\ in_reset \in [Devices -> BOOLEAN] /\ work \in [Devices -> Working]
  /\ slips \subseteq {"shared", "overlap", "unmapped", "missing"}
  /\ undefined \in {"no", "unmapped memory", "unmapped twice", "past the memory", "port 0"}

(* While the context is not shared, callbacks do not overlap, every device *)
(* has its two BARs and ioremap does not fail, a device that is bound has  *)
(* its regions and the memory the workers point into, and one that is not  *)
(* bound holds nothing (pcidev.c:492, 519).                                *)
HeldWhileBound ==
  slips = {} => \A d \in Devices :
    /\ pc[d] = "bound" => d \in regions /\ Usable /\ Card = d
    /\ pc[d] = "unbound" => d \notin regions /\ \A m \in mappings : m.dev # d

(* Memory is used unmapped, or unmapped twice, or port 0 is written, only  *)
(* after one of the four.                                                  *)
UndefinedOnlyAfterSlip ==
  undefined \in {"unmapped memory", "unmapped twice", "port 0"} => slips # {}

(* The chips do not get into one another's memory, and reset_io writes     *)
(* past the end of none but a memory that has no room for window and tags  *)
(* (pcidev.c:108-110, 176-182, 317-318).                                   *)
ChipsHaveRoom ==
  ChipsApart /\ (undefined = "past the memory" => ~Enough(bars[Card].mem))

(* A probe ends, whether the card answers or not (pcidev.c:444).           *)
ProbeEnds ==
  \A d \in Devices : pc[d] \notin AtRest ~> (pc[d] \in AtRest \/ undefined # "no")

(* Chip 0 is a mailbox: test_io takes for the answer to its request only   *)
(* that, not the request itself, not what reset_io left, not a late answer *)
(* to a probe that stopped waiting (pcidev.c:372-409, 444).  This also     *)
(* holds when a device is probed beside a bound one, and when ioremap      *)
(* fails, but not when both happen; and it ends with two callbacks at a    *)
(* time (pcidev.c:488, 510), or with a device that lacks a BAR (line 139). *)
Sound ==
  /\ undefined = "no"
  /\ "overlap" \notin slips /\ "missing" \notin slips
  /\ ~({"shared", "unmapped"} \subseteq slips)

Asking == \E d \in Devices : pc[d] \in {"p_tag", "p_bell", "p_poll", "p_copy"}

Pending == IF Sound /\ Asking THEN probes ELSE NULL

Taken == IF ~Sound \/ got = NULL THEN NULL
         ELSE IF got[1] = "answer" THEN got[2] ELSE -1

Chip0 == INSTANCE Mailbox WITH
  Boxes <- {0}, Requests <- Requests,
  asked <- [b \in {0} |-> Pending], got <- [b \in {0} |-> Taken]

ImplementsMailbox == Chip0!Spec

=============================================================================
