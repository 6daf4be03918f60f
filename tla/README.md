# Verification of the ldd-learn drivers

The repository holds five small Linux drivers, each a step in learning to write
the next: two character devices and three drivers for the SSX10A PCI
cryptographic card. This directory models them in TLA+, checks the models with
TLC and proves what matters most with TLAPS.

Paths are relative to `src/src/`.

## 1. Inventory

| component | source | state it keeps | operations | what is hard about it |
|---|---|---|---|---|
| SSX10A driver life cycle | `pcidev-02/pcidev.c`, `common.h` | `driver_contexts[MAX_DEVICE]`, `dev_attach_counter`, `dev_class`, each device's drvdata | `module_load`, `module_unload`, `pci_driver_attach`, `pci_driver_detach` | one unlocked counter is both the number of devices and the index of the next context; undo ladder of an attach that fails half way; `class_destroy` before `pci_unregister_driver` |
| SSX10A file operations | `pcidev-02/file_op.c` | none | `fop_open/release/read/write` | stubs that return 0 |
| SSX10A messages | `pcidev-02/utils.h`, `common.h` | a 256 byte packed message | `ssxa_checksum`, `put_crc`, `make_rest_msg` | 16 bit wrap-around of the sums; the checksum lives inside `data` |
| SSX10A interrupt | `pcidev-02/pci_irq.c` (not in the Makefile) | a tag, a wait condition and a wait queue per cell | interrupt handler, tasklet | the semaphore around a cell is commented out |
| first PCI driver | `pcidev-01/pcidev.c` | `pci_cdev[MAX_DEVICE]` of (minor, device, cdev) | `module_load/unload`, `pci_probe`, `pci_remove`, `pci_open/read/write` | pairs are searched by device or minor; error paths leave a pair or a cdev behind |
| the example it was written from | `pcidev-01/pci-driver.c` (third party, not in the Makefile) | as above | as above | as above |
| fake card driver | `pci-fake/pcidev.c` | one used context of `driver_contexts[]`, tags and buffers in card memory | `probe`, `remove`, `read` as a request to the card, `test_io`, `reset_io` | polls a tag in shared memory; no undo in `probe`; one context for all devices, whose callbacks nothing keeps apart |
| character device | `chardev-01/*`, `chardev-02/*` | `has_open`, `counter`, `msg_buff`, `msg_ptr`, `major` | `module_load/unload`, `device_open/release/read/write` | test and increment of `has_open` are not atomic; shared read pointer |
| /proc entry | `chardev-02/proc_entry.c` | the entry | `poc_entry_open/close`, show | a failed `proc_create` leaves the device registered |
| backup copy | `pcidev-02/pcidev-bak.c` (not in the Makefile) | as `pcidev-01/pcidev.c` | as there | as there; remove gives all regions back |

The drivers are independent modules. Each interacts only with the kernel: the
PCI core calls probe and remove, the VFS calls the file operations, `insmod` and
`rmmod` call load and unload, and the drivers call back to reserve regions, map
memory and register devices.

The properties that make each component correct:

- life cycle of `pcidev-02`: a context belongs to one device at a time and describes
  that device while it is attached; the counter is the number of devices counted;
  whatever fails, what was acquired is given back; there is a node while a device is
  attached;
- messages: the checksum tells a message from one with a byte changed or two
  exchanged, and is stored inside the message;
- `pcidev-01`: a minor that can be opened has its device and its cdev in the
  table, entries are not lost, a cdev is deleted once;
- `pci-fake`: the answer read is the answer to the request sent, probe ends,
  resources are held exactly while a device is bound;
- character device: one file open at a time, never busy with nobody inside,
  never past the buffer, the code in memory while a file is open;
- interrupt: an answer is found, a waiter is woken for its own answer and not left
  asleep, the interrupt is cleared;
- both ways to ask the card (polling and sleeping): what is read is the answer to the
  request it is read for; the chips' areas of the card's memory are apart.

## 2. Modules

| module | models | |
|---|---|---|
| `SsxaDriver` | `pcidev-02/pcidev.c`, load, unload, attach, detach | the core |
| `ContextTable` | what a table of per-device contexts promises | abstract, implemented by `SsxaDriver` |
| `SsxaMessage` | `pcidev-02/utils.h`, the checksum | |
| `Chardev` | `chardev-02/*`, and `chardev-01/*` with `HasProc = FALSE` | |
| `PciPair` | `pcidev-01/pcidev.c` | |
| `PciCopies` | `pcidev-02/pcidev-bak.c`, `pcidev-01/pci-driver.c`, the two relatives of `PciPair` | extends it |
| `WorkerLayout` | `buff_ptr`, `tag_ptr` of the chips, in `pci-fake` and `pcidev-02` | used by `FakeCard` |
| `FakeCard` | `pci-fake/pcidev.c` and the card it talks to | |
| `PciIrq` | `pcidev-02/pci_irq.c`, with the card and the threads that ask | |
| `Mailbox` | what a chip's buffer and tag promise whoever asks | abstract, implemented by `FakeCard` and `PciIrq` |
| `MCSsxaDriver`, `MCChardev`, `MCPciPair`, `MCPciCopies` | the symmetry sets TLC uses | |
| `MCFakeCard` | the cards TLC tries | |
| `SsxaDriver_proofs`, `SsxaMessage_proofs`, `Chardev_proofs`, `PciPair_proofs`, `PciCopies_proofs`, `PciIrq_proofs`, `WorkerLayout_proofs`, `FakeCard_proofs` | the theorems | each extends the module it is about; `PciCopies_proofs` extends `PciPair_proofs`, `FakeCard_proofs` extends `WorkerLayout_proofs` |

The drivers share no state, so no module composes two of them: each is composed
with its environment (PCI core, VFS, card), whose actions are marked external.
Where two of them promise the same, they implement the same abstract module.

All the modules are made alike. A C variable is a TLA+ variable of the same
name, a pointer is the thing it points at or `NULL`. `pc[x]` says where the
callback for a device or the system call of a process is. A function is one
action per stretch of code between two points where another callback, process
or the card could see or change something. An action that does something C or
the kernel leaves undefined (an index outside an array, a null or stale pointer,
code that was freed, memory unmapped twice, a cdev deleted when it is not registered
or set up while it is) sets `undefined`, and the behaviour stops there: nothing is
claimed of the machine afterwards. A driver that is called in a way it is not made
for goes on, and `slips` or `raced`, history variables that no action reads, say that
it has happened; a property that holds until then says so.
Operators named like an action with a suffix (`UndoCount_Twice`) are the same
action with a plausible mistake in it; nothing uses them but runs in which they
take the place of the action and a property must fail.

### SsxaDriver

`driver_contexts`, `dev_attach_counter`, `dev_class` are the statics of
`pcidev.c`; `drvdata` is what `pci_set_drvdata` stored; `held`, `mapped`,
`cdevs` and `node` are what the kernel has of the driver: regions, mappings,
registered cdevs, the file `/dev/ssxa-pci`. An address is the device whose
memory it lies in; the offsets of the sixteen workers are in `WorkerLayout`.

| action | code |
|---|---|
| `ModuleLoad`, `ModuleLoadFails` | 370-409 |
| `UnloadDestroyClass`, `UnloadUnregister`, `UnloadDone` | 415-428; the class goes first, the driver is still registered for a while |
| `AttachRefused`, `AttachTest`, `AttachLoad`, `AttachCount` | 269-274; the test, and then the load and the store of `++` |
| `AttachEnable` | 276-284, with the second read of the counter |
| `AttachHold` | 286-290, `hold_pci_resources` with its three ends |
| `AttachMount` | 292-297, `mount_chr_dev` |
| `UndoHold`, `UndoLoad`, `UndoCount` | 305-316, the labels, then the load and the store of `--` |
| `DetachUnmount`, `DetachFree`, `DetachLoad`, `DetachCount` | 322-352 |

The counter is read at line 270, by the `++` at 274 and again at 282, each time in a
step of its own, so that two callbacks may pass the test together and store over each
other's update.

The PCI core takes 0 for success, although the comment at line 247 takes it for "not
handled": a device whose attach gave up stays with the driver (`"failed"`) and is
detached in the end. It may call back for several devices at once and remove them in
any order. `slips` records what the driver is not made for: `"overlap"`, a
callback that begins during another's; `"order"`, the detach of a device that is not
the one attached last; `"failed"`, the detach of a device whose attach gave up. The
constant `MaySlip` says which of these a run makes; no theorem assumes anything of it.

### SsxaMessage

One behaviour runs `put_crc` on a message and, beside it, the same loop on a copy
in which one byte was changed or two were exchanged. `Q`, `S` are the loop's
sums, cut to `Word`. The message is a function on positions, header and data; the
four byte processor id, command and length are `HeaderLen` bytes, of which the last is
`datalen`. `put_crc` sums `6 + datalen` bytes, so a copy whose `datalen` was changed or
exchanged is summed over a length of its own (`SummedCopy`), and the loop goes on for
the longer of the two.

### Chardev

`has_open`, `counter`, `msg_ptr` are the driver's statics; `text`, `nodes` and
`refs` the kernel's: which load's code is in memory, which are registered,
the reference count. Increments are a load and a store. `Share` gives an open file to
another process (fork, or passing a descriptor), so that two readers meet at
`msg_ptr`. `raced` is a history variable, set when an `open` begins while another
is running, which the kernels this code was written for prevented with the big
lock; the message is printed in one step (`OpenPrint`) and only means something
without a race. A load clears it.
The test of `has_open` and the load of its `++` are two steps, and so are the `module_put`
of `device_release` and its return, between which nothing keeps the code in memory.

### PciPair

An entry of `pci_cdev` is `pair_dev[i]` and `pair_cdev[i]`; its minor is its
index, since the minors are reserved from 0. Cdevs are numbered as they are
allocated, so that a deleted one is not mistaken for its successor. `cdev_map` is
the kernel's table from minors to cdevs. `OpenEnter` is the VFS finding the cdev,
`PciOpen` the driver's search: remove may run in between. The probe is
`ProbeStart`, then the search for a free entry, one entry at a time (`ProbeNext`,
`ProbeFull`, `ProbeFree`), `ProbeTake`, `ProbeAdd`, `ProbeRegionsFail`,
`ProbeRegions`, and the removal `RemoveCdev`, `RemovePair`, `RemoveRegion`, in the
order of the code. Callbacks for different devices interleave step by step, and
two probes may find the same entry free; the history variable `raced` says that
one has overwritten the other's device. `ProbeAdd` is `cdev_alloc`, whose result is not
tested, `cdev_init` and `cdev_add`, which opens the node to others; the pair gets its
cdev a step later (`ProbeStore`). `cdev_of` is the local `cdev` of a probe,
`cdev_map[m]` a set because two probes may register a cdev for one minor. An open file
keeps the device's pointer, and its use after the removal is undefined.

A probe that gives up returns 0, which leaves the device with the driver, as in
`SsxaDriver`. After a failed `pci_register_driver` the driver asks for one minor to be
given back, where the kernel has a region of `MAX_DEVICE`; none is.

### PciCopies

`source` is the file at hand. Both files keep the table, the search, load, unload
and the file operations of `PciPair`, and name the same actions. `BackupRemove`
ends in `ReleaseRegions`, which gives all regions back. In the example
`pci_request_region(...) == 0` is taken for the failure (line 312):
`ExampleRequested` is the request that went through and is given up, with the region
still held and the deleted cdev still in the table, so that the removal deletes it a
second time; `ExampleNotRequested` is the one that failed and goes on.

### FakeCard

`ctx` is `driver_contexts[0]`, the only one the driver uses. `tag`, `buf` are the
card's memory for chip 0, the one that is sent requests; `work`, `in_reset` are
inside the card. `bars` says of each device whether it has a BAR of ports and how large
its BAR of memory is, 0 for none: `Cards` are the possibilities. The context keeps the
ports or the address it had where a device lacks the BAR (`HoldLookUp`). `reset_io`
writes for all sixteen chips, and where the memory does not hold them (`TooSmall`, the
FIXMEs) it writes past its end. A mapping is the device and a number, so that an
old mapping is told from a new one. A request is named by the number of its probe; the
data of every request is the same in the code, which is why only a model can tell a
late answer from the right one.

The callbacks of two devices interleave, with one action per access to the context or
to a card: `HoldRefused` to `InitWorkers` are `hold_pci_resources` and `init_workers`,
`ProbeReset`, `ProbeUnreset`, `ProbeIo` the reset, `TestBuffer` to `TestCopy` `test_io`,
`RemoveUnmap` and `RemoveRelease` the removal. Two stretches are one step though other
callbacks could come in between: the loop over the BARs, and `reset_io`. Where two
callbacks do overlap the properties about the context claim nothing any more. `krn_module_exit`
returns when no device is bound; that it has the devices removed is
`RemoveUnmap`, which may come at any time.

`slips` is a history variable: `"shared"` once a device is probed while another is
bound, `"overlap"` once a callback began during another's, `"unmapped"` once `ioremap`
failed, `"missing"` once a device without one of the BARs was probed. What is assumed of
the card: it looks at the tag when the doorbell rings, writes the answer and then
the tag, at any time or never, and a reset makes it drop its work. `read` accepts
`TAG_FREE` as well as `TAG_RETURNED`, so the card may set either (`AnswerTags`).

`Chip0` maps this to a `Mailbox` with one box: a request is asked from `TestBuffer`
on, and the answer got is the number of the request whose answer is in the buffer
that `TestCopy` copied. Anything else it might copy (the request itself, the junk
of `reset_io`) maps to a value that is no answer.

### PciIrq

A cell is a chip. `line` is the card's interrupt request as `inb(sport)` tells,
`handler`, `step` and `index` are where handler and tasklet are, `scheduled` the
tasklet's flag: a tasklet that is scheduled while it runs is run again, and never
beside itself. The rest of the driver is not in the repository; what surrounds
the file is modelled as it uses it:

- a thread that uses a cell (`Ask`, `Ring`, `WaitCheck`, `GiveUp`, `ReadAnswer`)
  follows the commented request in `pci-fake/pcidev.c:424-441`. It takes back
  `waitcond`, which nothing in the file does, before it sends; it is on the wait
  queue when it looks at the condition, as `wait_event` has it; it may time out;
- the card writes its answer, then the tag, then interrupts, or does nothing.

`crowded` is a history variable: the cells that were sent a request while an
earlier one, given up, was still with the card, in its tag or between the tasklet's
test and its `waitcond = 1`. Nothing ties an answer to its request then, and
`CellsAreMailboxes` claims nothing of those cells any more. With the semaphore in
place the last of the three could not happen; the first two still could.

## 3. Runs

| run | question | bounds |
|---|---|---|
| `ssxa_order` | does the driver keep its promises until it is called out of order, and what is left after that? | 3 devices, 2 contexts; every fault; detaches in any order and of devices whose attach gave up |
| `ssxa_overlap` | what is left of the counter when callbacks overlap as well? | 2 devices, 1 context; `enable`, `regions`, `ioremap`, `cdev` may fail |
| `ssxa_ioremap`, `ssxa_context_reused` | findings, section 5 | 2 devices at most |
| `ssxa_checksum` | which corruptions does the checksum see? | bytes below 4, sums modulo 16, 3 header and 4 data bytes |
| `chardev` | is the device exclusive, the code in memory and the buffer safe, and what is left when opens race? | 2 processes, 2 files, 2 loads, 10 opens, `/proc` may fail |
| `chardev_stale_node` | finding | 1 process |
| `pair_table` | is the table right through every failure and overlap? | 3 devices, 2 entries, 1 process, 3 cdevs; `register`, `alloc`, `cdev` may fail |
| `pair_copies` | do the two relatives keep it right? | 2 devices, 2 entries, 1 process, 5 cdevs; `regions` may fail as well |
| `fake_card` | is the answer ours, are the chips apart, and does probe end? | 2 devices, one of which has both BARs and 8192 bytes, and the other 8192, 4096 or no bytes, or no ports; 2 tries, 2 probes |
| `irq_cells` | is every answer found and every waiter woken? | 2 cells, 2 requests each |
| `irq_unlocked` | finding | 2 cells, 2 requests each |

Why the bounds are enough. In `ssxa_order` three devices are one more than the table has
contexts, so that the attach too many comes, and one more than a conflict over a context
takes. In `ssxa_overlap` a table of one context is full at once, and two callbacks lose
each other's updates in both directions. In `pair_table` a third device finds the table
full, two probes meet at each entry, and three cdevs let an entry be used, freed and used
again. Regions do not fail there, which a device bound for the second time does
on its own; `pair_copies`, with the same probe, has that fault and the longer sequences,
five cdevs with a failure in each place. In `chardev` the buffer is as short for the
text as the code's 32 characters are for its 29, and the number reaches its second digit.
In `fake_card` two probes are enough for a late answer, for a context that is shared and
for callbacks that overlap; the second try is the last, as the fifth is in the code; one
odd device beside one that is as expected is enough for the context to keep what is
not its own; and the answer tag is the one a driver could take for something else,
`TAG_FREE`, since `read` does the same for both. The sizes of the layout are the code's
own. In `irq_cells` one interrupt may stand for the answers of both cells, one answer comes
while the other is looked for, and a second request meets what the first left behind.
The bytes, sums and lengths of `ssxa_checksum` keep the relation between them
that the code's 256, 65536 and 250 have (`MessageAssumption`), which is all the
theorem uses.

`MaxOpens`, `MaxLoads`, `MaxCdevs`, `MaxReserved`, `MaxProbes` and `MaxAsks` only bound the
model; the code has no such limit. Where one is reached, or behaviour is
undefined, the model stutters (`Halted`); everywhere else a state without a step
would be reported as a deadlock.

Fairness. Three properties are liveness. `ProbeEnds` (`FakeCard`) assumes that
the kernel runs a callback it has begun to its end (`WF_<<pc, retry,
undefined>>(Callback(d))` for each device; every step of a callback changes one
of the three): probe runs in the thread that loads the module or plugs the
device, and waits for nothing but `mdelay`. Nothing is assumed of the card. The
property holds because the tries are counted, and it holds of a card that never
answers. `LineSettles` and `AnswerWakes` (`PciIrq`) assume that the kernel takes
an interrupt that stays requested and runs the handler to its end, runs a
tasklet that is scheduled, and lets a thread that is woken go on; of the card
only that it interrupts for an answer it has tagged
(`WF_vars(CardInterrupts(c))`). A thread need not ask, and the card need not
answer.

Where the properties stop holding, as tried with the same modules:

- `ssxa_order`: `ExclusiveContext`, `ContextServesDevice`, `NothingLeftBehind`,
  `NodeWhileAttached` and `ImplementsTable` each fail after a detach out of order, or of a
  device whose attach gave up; for the first of them this is the run
  `ssxa_context_reused`. `CounterIsAttached` fails after the detach of such a device, and
  of overlapping callbacks; the order of the detaches alone never disturbs it.
- `DefinedButFor` without `OneTooMany`: with a device more than the table has contexts
  the test at `pcidev-02/pcidev.c:270`, `>` before an increment, lets in one attach that
  writes behind the table.
- `ssxa_checksum` with `datalen` among the bytes: a message and a copy of another length
  may have the same checksum, since the sums then are of different bytes. Nothing in the
  code compares the length with anything but `BUG_ON`'s bound.
- `chardev` with a third process: three readers of one file each pass the end of the
  message by one, and the last is past `msg_buff` with the first number. With the
  code's own 32 and 29 two readers need a number of two digits, from the tenth open
  on, and from the hundredth the `sprintf` itself writes past the end.
- `chardev` without `~raced` in `ExclusiveOpen` or `BusyOnlyWhileOpen`: both fail,
  the first within six steps.
- `fake_card`: without the clauses of `Sound`, `ImplementsMailbox` fails. After a timed
  out probe of one device, a probe of another whose `ioremap` fails talks to the first
  device's memory and takes its late answer for its own; so does one of a device
  without a memory BAR; and a second probe that begins while the first polls moves the
  workers to a card whose tag is free.
- `irq_cells` with `crowded` left out of the mapping: a thread that gave up and
  asked again is woken by the answer to its first request.
- `pair_table` without `~raced`: two probes take one entry, and a node that can be
  opened has the other device, or none after that one's removal.
- `pair_table`: a device with more than one BAR is never bound a second time,
  because remove releases BAR 0 only; and after a failed
  `pci_register_driver` all minors stay reserved. Both are in the
  model and are no property.

## 4. Proofs

`tlapm` checks every obligation of the eight proof modules. None takes the
constants to be particular values, and none assumes anything of the order in which the
kernel calls back: what a property claims only up to a slip or a race it says itself.
Every invariant, every action property and every refinement that a passing run checks is
also a theorem.

| module | property | theorem |
|---|---|---|
| `SsxaDriver` | `TypeOK`, `DriftHasACause`, `CounterIsAttached` | `TypeCorrect`, `DriftIsExplained`, `CounterExact` |
| | `ExclusiveContext`, `ContextServesDevice`, `NothingLeftBehind`, `NodeWhileAttached` | `ContextsAreExclusive`, `AttachedAreServed`, `AllIsGivenBack`, `NodeStays` |
| | `DefinedButFor`, `ImplementsTable` | `DefinedElsewhere`, `TableImplemented` |
| `SsxaMessage` | `TypeOK`, `SumIsWeighted`, `OneByteDetected`, `ExchangeDetected`, `CrcInPlace` | `TypeCorrect`, `ChecksumIsWeightedSum`, `OneByteAlwaysDetected`, `ExchangeAlwaysDetected`, `ChecksumIsInPlace` |
| `Chardev` | `TypeOK`, `RefsCountFiles`, `FilesPinTheModule`, `ExclusiveOpen`, `BusyOnlyWhileOpen`, `StaysInBuffer` | `TypeCorrect`, `CountIsRight`, `FilesKeepTheCode`, `OneAtATime`, `NotLeftBusy`, `ReadersStayInside` |
| `PciPair` | `TypeOK`, `NoEntryLost`, `NodeHasDevice`, `DeletedTwiceOnlyAfterFailure` | `TypeCorrect`, `NoEntryIsLost`, `NodesHaveDevices`, `DeletedTwiceExplained` |
| `PciCopies` | `NodeHasDevice`, `NoEntryLost` | `CopiesNodesHaveDevices`, `CopiesLoseNoEntry` |
| `PciIrq` | `TypeOK`, `AnswerIsOnItsWay`, `SleeperIsWoken`, `CellsAreMailboxes` | `TypeCorrect`, `NoAnswerForgotten`, `NoWakeUpLost`, `CellsAnswerInOrder` |
| `FakeCard` | `TypeOK`, `HeldWhileBound`, `UndefinedOnlyAfterSlip`, `ChipsHaveRoom`, `ImplementsMailbox` | `TypeCorrect`, `BoundIsHeld`, `SlipsExplainIt`, `RoomForTheChips`, `Chip0IsMailbox` |

### SsxaDriver

For any set of finitely many devices, more than `MAX_DEVICE` included, and any
`MAX_DEVICE > 0`. Since `slips` only grows, an invariant that holds until a slip is one
of the form `slips... => Inv`, and is as inductive as `Inv` is in the steps that
do not slip (`SoloWhile`, `OrderlyWhile`).

- `TypeCorrect`. `TypeInv` adds to `TypeOK` that a drvdata used by a
  callback is an index in the table or behaviour is undefined
  (`DrvdataInTable`): a store to `driver_contexts` has its type only then.
- `DriftIsExplained`: each step is looked at, and all that changes the counter
  without the devices counted, or the other way round, is one of the causes
  `DriftHasACause` names. It holds in every order of calls.
- `CounterExact`. `SoloInv`: until callbacks overlap one runs at a time, and a value read
  for `++` or `--` is still the counter's. `ExactInv`: nothing but the detach of a failed
  device then makes the counter part from the devices counted.
- `ContextsAreExclusive`. `StackInv`: contexts of attached devices lie below that of
  the running callback, which is the last one the counter stands for.
  `ExclusiveContext` alone is not inductive: nothing in it says that the next index is
  above the others.
- `AttachedAreServed`, `AllIsGivenBack`, `NodeStays`, from `OrderlyInv`, which joins the
  invariants above with three more. `Serves(d)`: what the context of a device says of
  regions and mapping is what the kernel has of it, at each point of attach, of the undo
  ladder and of detach. `NodeInv`: the cdevs are those of the attached devices, and
  while the class is usable the node is that of the oldest, which by `StackInv` is the
  last to go. `CeilingInv`: a `++` stores one more than a value that passed the test, so
  the index is at most one behind the table. They hold with a failing `ioremap` too.
- `DefinedElsewhere`. `BadInv` names the device and the step; by `CeilingInv` and
  `ExactInv` an index behind the table means that all `MAX_DEVICE` contexts are attached.
- `TableImplemented`. A device owns the context its drvdata names for as long as a
  callback or user space may use it. `OwnerComes`, `OwnerGoes` and `OwnersStay` say of
  each action whether it gives a context, takes one back or neither.

### SsxaMessage

For every size of byte, word, header and data field with `MessageAssumption`; the
assumption says that the number of bytes summed, times the largest difference of two
bytes, is less than the word, and 254 * 255 < 65536 is it for the code.

- `OneByteAlwaysDetected` and `ExchangeAlwaysDetected`. `ApartInv` relates the two runs of
  the loop: the copy's sums are the message's plus the differences met so far, modulo
  `Word`. At the end the difference is n * d with |n * d| < `Word`, so it does not
  vanish. It compares runs over the same number of bytes, which is what leaving
  `datalen` alone gives.
- `ChecksumIsWeightedSum` and `ChecksumIsInPlace`, from `SumsInv`. The model cuts both
  sums in every round, `WeightedSum` is cut once: `CutSum` says it is the same.
  `WeightedStep` is the loop without the cuts: one more byte adds the new total of the
  bytes to the weighted sum. It needs induction on the number of bytes, and
  `TotalsAre`, that the recursive definition has a solution, needs it too; both get it
  from `NatSetInduction`, which is stated for a set and follows from `WFMin` and
  `NatLessThanWellFounded` of the library.

### Chardev

For any finite set of processes, any files, loads and sizes of the buffer.

- `IInv`, for `TypeCorrect`, `CountIsRight` and `FilesKeepTheCode`. A process that opens or
  releases has no file in hand yet or any more, one that reads has one (`Placed`); when the code
  is gone nobody has a file or is short of `module_put` on the way out (`Pinned`): `rmmod`
  asks for a count of 0, which by `RefsCountFiles` is no file at all. The three cannot be proved one
  by one. `Bounded` counts the opens that are past the bound on their number, for the
  type of `counter`.
- `Sole`, for `OneAtATime` and `NotLeftBusy`: until a race, of all processes one at most is
  between the test of `has_open` and the end, and `has_open` says so.
- `Reach`, for `ReadersStayInside`. While two readers are both past the test of the character
  at `msg_ptr`, both are short of the 0 (`Apart`). One whose test is overtaken by
  the other's store may read the 0 itself, and goes past it by one (`Within`).

### PciPair and PciCopies

For any devices, processes and `MAX_DEVICE > 0`.

- `TypeCorrect`. `Provided` adds that a probe past `cdev_add` has a cdev and
  that a loaded driver has its minors: the store of `ProbeStore` and the subtraction of
  `UnloadDone` have their types only then.
- `NoEntryIsLost`. `Held`: a device in the table is past the search, and its entry is that
  of its minor. It says nothing of the search, so it holds of overlapping probes too.
- `NodesHaveDevices` and `DeletedTwiceExplained`, from one inductive invariant,
  `PairInv`. `Tidy` is what holds until two probes take one entry: a device
  at work has the entry of its minor (`Own`), entry and kernel have its cdev
  (`Served`) and nothing else (`Nodes`). `Fresh` is needed besides, for the removal
  of a device whose probe gave up: it deletes whatever cdev a former device left in the
  entry, and only because cdevs are told apart is that nobody else's.
- Nothing in these depends on regions. They are proved of `AnyNext`, where a probe
  or removal does anything it likes with regions, and both `PciPair` and the two files of
  `PciCopies` are instances (`CopiesAreAny`).

### PciIrq

For any number of cells and requests.

- `NoAnswerForgotten` and `NoWakeUpLost`. `AnswerIsOnItsWay` and `SleeperIsWoken` are
  each inductive together with `TypeOK`: the first follows the answer from the card's
  request through the handler and the tasklet's index, the second the wake-up from the
  store of `waitcond`.
- `CellsAnswerInOrder`. `BoxInv(c)`, for a cell that is not `crowded`: when a request is about
  to be rung in, nothing is going on in the cell (`Quiet`); the card works on the latest
  request and no other; and whatever says that the cell is answered, its tag, the
  tasklet's step or the condition, says so of the answer to that request, which is in the buffer
  (`Answered`).

### FakeCard and WorkerLayout

For any devices, sizes of memory, tries and layout with `LayoutAssumption`.

- `ChipsNeverOverlap`, and `EnoughFits`, what a test in place of the FIXMEs would have
  to ask of the memory. `RoomForTheChips` uses it for every step of
  the driver; its invariant (`RoomInv`) says that a mapping is of a card, that memories have
  a size, and that only a memory that is too small is written past.
- `TypeCorrect`. `Tries`: a probe that polls has tries left, and there is no callback
  without the module.
- `Solo`, for what follows: until callbacks overlap one runs at a time, and the context is of the
  device that is being probed; its ports and memory are, when that device has both BARs.
- `BoundIsHeld` and `SlipsExplainIt`, from `Unshared`. While the context is not shared,
  callbacks do not overlap and no BAR is missing (`Undisturbed`), there is one device in
  hand at most (`OneInHand`), and regions, mapping and context are its own, or nothing is
  mapped and `ioremap` has failed (`HasMemory`).
- `Chip0IsMailbox` has a case for each way a context that is not shared, or an `ioremap` that
  does not fail, helps, since it takes both to break it. While `ioremap` has not failed, whoever
  polls polls his own memory (`AllMapped`); while the context was not shared, `Unshared` says so.
  `Chat` then ties tag, buffer and the card's work of that memory to the request in hand: what a
  card still has from a former probe is gone with the reset.

### Only model-checked

`ProbeEnds`, `LineSettles` and `AnswerWakes` are liveness under fairness, which is out of the
prover's reach, and stay with TLC. So do the counterexamples of section 5.

## 5. Where the code and its comments disagree

| run | what |
|---|---|
| `ssxa_ioremap` | `pcidev-02/pcidev.c:103` says 0 is success; when `ioremap` fails `hold_pci_resources` returns 0 with nothing held |
| `ssxa_context_reused` | line 256 says an attach makes a context of the device's own; after a detach out of order it takes one in use |
| `chardev_stale_node` | `chardev-02/chardev.c:95` explains why the result of `unregister_chrdev` is not tested; the call itself is commented out too |
| `irq_unlocked` | `pcidev-02/pci_irq.c:20-21` says a cell must be locked; the lock is commented out, and the tasklet frees the tag of a request that was sent after it looked |

## 6. Not modelled

`pcidev-02/file_op.c` (stubs that change no state) and the build files. Of
`pcidev-02/pcidev-bak.c`: the ports its probe stores as fields of an array (it is not
C yet), an earlier form of `put_crc` without the bound, and what lies under `#if 0`.
The contents of `/proc` and all logging are left out, as are the ports `pcidev-01`
stores in globals that nothing reads, and the enable count of a device. The part of
the interrupt driver that the repository does not have (who asks, who sets a cell
up) is modelled only as `pci_irq.c` uses it. The model of the memory is sequentially
consistent.

## 7. Next

1. What is left of `OrderlyInv` after a slip: after detaches out of order the counter is
   exact, but which devices share a context, and what the detach of one takes from the
   other, is only in the model.
2. The memory of `PciIrq` and `FakeCard` with stores that other processors see late.
