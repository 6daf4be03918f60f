------------------------------- MODULE PciIrq -------------------------------
(***************************************************************************)
(* The interrupt side of the SSX10A driver, src/src/pcidev-02/pci_irq.c:   *)
(* the interrupt handler pci_sscrypt_dev_interrupt, and the tasklet        *)
(* pci_do_tasklet that looks through the cells of the card and wakes the   *)
(* threads whose requests are answered.                                    *)
(*                                                                         *)
(* A cell is a chip's buffer and tag, a wait condition and a wait queue.   *)
(* The handler, the tasklet, the card and the threads that ask run beside  *)
(* one another; the semaphore of a cell is commented out, so only the      *)
(* order of their steps protects it.  The card and the asking threads are  *)
(* not in the file.  They are modelled as it uses them, and after the      *)
(* commented sketch of a request in pci-fake/pcidev.c:424-441: a thread    *)
(* takes back the wait condition, writes request and tag, rings, waits for *)
(* the condition or a timeout, and then reads the buffer.                  *)
(***************************************************************************)
EXTENDS Integers

CONSTANTS
  DEVICE_CELL_COUNT,
  NULL,
  MaxAsks             (* a bound: how many requests a cell is sent           *)

ASSUME IrqAssumption ==
  /\ DEVICE_CELL_COUNT \in Nat \ {0} /\ MaxAsks \in Nat
  /\ NULL \notin Int /\ NULL \notin {"request", "answer"} \X (0 .. MaxAsks)

VARIABLES
  line,       (* whether the card requests an interrupt, as sport tells      *)
  handler,    (* where the interrupt handler is                              *)
  scheduled,  (* whether the tasklet is scheduled                            *)
  step,       (* where the tasklet is ...                                    *)
  index,      (* ... and its index                                           *)
  tag, buf,   (* a cell's tag and buffer in the memory of the card           *)
  waitcond,
  thread,     (* where the thread that uses a cell is                        *)
  request,    (* the number of a cell's latest request                       *)
  got,        (* what that thread has read from the buffer, or NULL          *)
  work,       (* what the card is doing for a cell, and for which request    *)
  crowded     (* a history: the cells sent a request before the one given up *)
              (* earlier was settled                                         *)

irq == <<line, handler>>
tasklet == <<scheduled, step, index>>
memory == <<tag, buf>>
asker == <<thread, request, got, crowded>>
vars == <<irq, tasklet, memory, waitcond, asker, work>>

Cells == 0 .. DEVICE_CELL_COUNT - 1
Numbers == 1 .. MaxAsks
Content == {"request", "answer"} \X (0 .. MaxAsks)

Set(f, c, v) == f' = [f EXCEPT ![c] = v]

Init ==
  /\ line = FALSE /\ handler = "idle"
  /\ scheduled = FALSE /\ step = "idle" /\ index = 0
  /\ tag = [c \in Cells |-> "free"] /\ buf = [c \in Cells |-> <<"request", 0>>]
  /\ waitcond = [c \in Cells |-> FALSE]
  /\ thread = [c \in Cells |-> "idle"] /\ request = [c \in Cells |-> 0]
  /\ got = [c \in Cells |-> NULL]
  /\ work = [c \in Cells |-> <<"idle", 0>>] /\ crowded = {}

-----------------------------------------------------------------------------
(* pci_sscrypt_dev_interrupt.  An interrupt that is not the card's changes *)
(* nothing; the handler does not run twice at once.                        *)

IrqEnter ==
  /\ handler = "idle" /\ line
  /\ handler' = "clear"
  /\ UNCHANGED <<line, tasklet, memory, waitcond, asker, work>>

(* Fault for the mutation runs: the request is not cleared.                *)
IrqClear_Skipped ==
  /\ handler = "clear"
  /\ handler' = "schedule"
  /\ UNCHANGED <<line, tasklet, memory, waitcond, asker, work>>

(* Fault for the mutation runs: scheduled first, cleared afterwards.       *)
IrqClear_Late ==
  \/ /\ handler = "clear"
     /\ scheduled' = TRUE
     /\ handler' = "late"
     /\ UNCHANGED <<line, step, index, memory, waitcond, asker, work>>
  \/ /\ handler = "late"
     /\ line' = FALSE
     /\ handler' = "idle"
     /\ UNCHANGED <<tasklet, memory, waitcond, asker, work>>

(* outb(SIG_INTERRUPT, cport): the card takes its request back.            *)
IrqClear ==
  /\ handler = "clear"
  /\ line' = FALSE
  /\ handler' = "schedule"
  /\ UNCHANGED <<tasklet, memory, waitcond, asker, work>>

IrqSchedule ==
  /\ handler = "schedule"
  /\ scheduled' = TRUE
  /\ handler' = "idle"
  /\ UNCHANGED <<line, step, index, memory, waitcond, asker, work>>

-----------------------------------------------------------------------------
(* pci_do_tasklet.  It does not run beside itself; scheduled while it runs *)
(* it runs once more.                                                      *)

TaskletStart ==
  /\ scheduled /\ step = "idle"
  /\ scheduled' = FALSE
  /\ step' = "read" /\ index' = 0
  /\ UNCHANGED <<irq, memory, waitcond, asker, work>>

(* Fault for the mutation runs: the last cell is left out.                 *)
NextCell_Short ==
  IF index + 2 < DEVICE_CELL_COUNT THEN step' = "read" /\ index' = index + 1
                                   ELSE step' = "idle" /\ index' = 0

(* Fault for the mutation runs: the loop goes one cell too far.            *)
NextCell_Long ==
  IF index < DEVICE_CELL_COUNT THEN step' = "read" /\ index' = index + 1
                               ELSE step' = "idle" /\ index' = 0

(* The end of the loop's body.                                             *)
NextCell ==
  IF index + 1 < DEVICE_CELL_COUNT THEN step' = "read" /\ index' = index + 1
                                   ELSE step' = "idle" /\ index' = 0

(* Fault for the mutation runs: the tag is not looked at.                  *)
ScanRead_Any ==
  /\ step = "read"
  /\ step' = "free" /\ UNCHANGED index
  /\ UNCHANGED <<scheduled, irq, memory, waitcond, asker, work>>

ScanRead ==
  /\ step = "read"
  /\ \/ tag[index] = "returned" /\ step' = "free" /\ UNCHANGED index
     \/ tag[index] # "returned" /\ NextCell
  /\ UNCHANGED <<scheduled, irq, memory, waitcond, asker, work>>

ScanFree ==
  /\ step = "free"
  /\ Set(tag, index, "free")
  /\ step' = "cond"
  /\ UNCHANGED <<scheduled, index, irq, buf, waitcond, asker, work>>

(* Fault for the mutation runs: it wakes first, and sets the condition     *)
(* afterwards.                                                             *)
ScanCond_Late ==
  \/ /\ step = "cond"
     /\ step' = "wake"
     /\ thread' = [thread EXCEPT ![index] = IF @ = "asleep" THEN "check" ELSE @]
     /\ UNCHANGED <<scheduled, index, irq, memory, waitcond, request, got, crowded, work>>
  \/ /\ step = "wake"
     /\ Set(waitcond, index, TRUE)
     /\ NextCell
     /\ UNCHANGED <<scheduled, irq, memory, asker, work>>

ScanCond ==
  /\ step = "cond"
  /\ Set(waitcond, index, TRUE)
  /\ step' = "wake"
  /\ UNCHANGED <<scheduled, index, irq, memory, asker, work>>

(* wake_up_interruptible: whoever sleeps on the queue looks again.         *)
ScanWake ==
  /\ step = "wake"
  /\ thread' = [thread EXCEPT ![index] = IF @ = "asleep" THEN "check" ELSE @]
  /\ NextCell
  /\ UNCHANGED <<scheduled, irq, memory, waitcond, request, got, crowded, work>>

Scan == TaskletStart \/ ScanRead \/ ScanFree \/ ScanCond \/ ScanWake

-----------------------------------------------------------------------------
(* The thread that uses cell c.                                            *)

(* Nothing is on its way for cell c any more.                              *)
Settled(c) ==
  /\ work[c][1] = "idle" /\ tag[c] # "returned"
  /\ ~(index = c /\ step \in {"free", "cond"})

Ask(c) ==
  /\ thread[c] = "idle" /\ request[c] < MaxAsks
  /\ Set(waitcond, c, FALSE)
  /\ Set(request, c, request[c] + 1)
  /\ Set(buf, c, <<"request", request[c] + 1>>)
  /\ Set(tag, c, "write")
  /\ Set(got, c, NULL)
  /\ Set(thread, c, "ring")
  /\ crowded' = IF Settled(c) THEN crowded ELSE crowded \cup {c}
  /\ UNCHANGED <<irq, tasklet, work>>

Ring(c) ==
  /\ thread[c] = "ring"
  /\ work' = IF tag[c] = "write" THEN [work EXCEPT ![c] = <<"working", buf[c][2]>>] ELSE work
  /\ Set(thread, c, "check")
  /\ UNCHANGED <<irq, tasklet, memory, waitcond, request, got, crowded>>

(* wait_event: the thread is on the queue before it looks at waitcond.     *)
WaitCheck(c) ==
  /\ thread[c] = "check"
  /\ Set(thread, c, IF waitcond[c] THEN "done" ELSE "asleep")
  /\ UNCHANGED <<irq, tasklet, memory, waitcond, request, got, crowded, work>>

(* The timeout: the request stays with the card.                           *)
GiveUp(c) ==
  /\ thread[c] = "asleep"
  /\ Set(thread, c, "idle")
  /\ UNCHANGED <<irq, tasklet, memory, waitcond, request, got, crowded, work>>

ReadAnswer(c) ==
  /\ thread[c] = "done"
  /\ Set(got, c, buf[c])
  /\ Set(thread, c, "idle")
  /\ UNCHANGED <<irq, tasklet, memory, waitcond, request, crowded, work>>

-----------------------------------------------------------------------------
(* The card: the answer, then the tag, then the interrupt; or none of it.  *)

CardAnswers(c) ==
  /\ work[c][1] = "working"
  /\ Set(buf, c, <<"answer", work[c][2]>>)
  /\ Set(work, c, <<"answered", work[c][2]>>)
  /\ UNCHANGED <<irq, tasklet, tag, waitcond, asker>>

CardTags(c) ==
  /\ work[c][1] = "answered"
  /\ Set(tag, c, "returned")
  /\ Set(work, c, <<"tagged", work[c][2]>>)
  /\ UNCHANGED <<irq, tasklet, buf, waitcond, asker>>

CardInterrupts(c) ==
  /\ work[c][1] = "tagged"
  /\ line' = TRUE
  /\ Set(work, c, <<"idle", 0>>)
  /\ UNCHANGED <<handler, tasklet, memory, waitcond, asker>>

-----------------------------------------------------------------------------
Thread(c) == WaitCheck(c) \/ ReadAnswer(c)
Card(c) == CardAnswers(c) \/ CardTags(c) \/ CardInterrupts(c)

(* The bound ends the model when every cell has had its requests.          *)
Finished == (\A c \in Cells : request[c] = MaxAsks) /\ UNCHANGED vars

Next ==
  \/ IrqEnter \/ IrqClear \/ IrqSchedule
  \/ Scan
  \/ \E c \in Cells : Ask(c) \/ Ring(c) \/ Thread(c) \/ GiveUp(c) \/ Card(c)
  \/ Finished

(* The kernel takes an interrupt that stays requested, runs the handler    *)
(* and the tasklet to their ends and lets a woken thread go on; the card   *)
(* interrupts for what it has tagged, and may be silent otherwise.         *)
Fairness ==
  /\ WF_vars(IrqEnter \/ IrqClear \/ IrqSchedule)
  /\ WF_vars(Scan)
  /\ \A c \in Cells : WF_vars(Thread(c)) /\ WF_vars(CardInterrupts(c))

Spec == Init /\ [][Next]_vars /\ Fairness

-----------------------------------------------------------------------------
(* Properties *)

TypeOK ==
  /\ line \in BOOLEAN /\ handler \in {"idle", "clear", "schedule"}
  /\ scheduled \in BOOLEAN /\ step \in {"idle", "read", "free", "cond", "wake"}
  /\ index \in Cells
  /\ tag \in [Cells -> {"free", "write", "returned"}] /\ buf \in [Cells -> Content]
  /\ waitcond \in [Cells -> BOOLEAN]
  /\ thread \in [Cells -> {"idle", "ring", "check", "asleep", "done"}]
  /\ request \in [Cells -> 0 .. MaxAsks] /\ got \in [Cells -> Content \cup {NULL}]
  /\ work \in [Cells -> {"idle", "working", "answered", "tagged"} \X (0 .. MaxAsks)]
  /\ crowded \subseteq Cells

(* No answer is forgotten: while a tag says that a cell is answered, there *)
(* is an interrupt to come, or the handler or the tasklet is still to get  *)
(* to the cell.  This is why the handler clears before it schedules        *)
(* (pci_irq.c:58-60) and the tasklet looks at every cell.                  *)
AnswerIsOnItsWay ==
  \A c \in Cells : tag[c] = "returned" =>
    \/ work[c][1] = "tagged" \/ line \/ handler # "idle" \/ scheduled
    \/ step # "idle" /\ index < c
    \/ step \in {"read", "free"} /\ index = c

(* No wake-up is lost: a thread that sleeps although its condition is set  *)
(* is about to be woken (pci_irq.c:29-32).                                 *)
SleeperIsWoken ==
  \A c \in Cells : thread[c] = "asleep" /\ waitcond[c] => index = c /\ step = "wake"

(* A cell is locked "to prevent the race for the resource" (translated,    *)
(* pci_irq.c:20-21): what the tasklet frees is a tag that says the cell is *)
(* answered, as it read it (line 23), not one of a request sent since.     *)
FreesOnlyAnswers ==
  [][\A c \in Cells : tag[c] # "free" /\ tag'[c] = "free" => tag[c] = "returned"]_vars

(* The interrupt is cleared in the handler, or the hardware requests it    *)
(* for ever (pci_irq.c:56-57).                                             *)
LineSettles == line ~> ~line

(* A thread whose answer has come gets on.                                 *)
AnswerWakes ==
  \A c \in Cells : tag[c] = "returned" /\ thread[c] = "asleep" ~> thread[c] # "asleep"

(* Each cell is a mailbox, as long as it is sent no request before an      *)
(* earlier one that was given up is settled.                               *)
Pending == [c \in Cells |-> IF c \notin crowded /\ thread[c] # "idle" THEN request[c] ELSE NULL]

Taken == [c \in Cells |-> IF c \in crowded \/ got[c] = NULL THEN NULL
                         ELSE IF got[c][1] = "answer" THEN got[c][2] ELSE 0]

Boxes == INSTANCE Mailbox WITH
  Boxes <- Cells, Requests <- Numbers, asked <- Pending, got <- Taken

CellsAreMailboxes == Boxes!Spec

=============================================================================
