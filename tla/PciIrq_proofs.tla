--------------------------- MODULE PciIrq_proofs ---------------------------
(***************************************************************************)
(* That no answer and no wake-up is lost between the card, the interrupt   *)
(* handler, the tasklet and the sleeping threads, for any number of cells  *)
(* and requests.                                                           *)
(***************************************************************************)
EXTENDS PciIrq, TLAPS

Memory == {"free", "write", "returned"}
Places == {"idle", "ring", "check", "asleep", "done"}
Works == {"idle", "working", "answered", "tagged"} \X (0 .. MaxAsks)

USE DEF Set

(* The tasklet's index stays in the table of cells.                        *)
LEMMA NextCellType ==
  ASSUME TypeOK, NextCell
  PROVE  index' \in Cells /\ step' \in {"read", "idle"}
BY IrqAssumption DEF TypeOK, NextCell, Cells

(* Each kind of step keeps the types.                                      *)
LEMMA HandlerType ==
  ASSUME TypeOK, IrqEnter \/ IrqClear \/ IrqSchedule
  PROVE  TypeOK'
BY DEF TypeOK, IrqEnter, IrqClear, IrqSchedule, tasklet, memory, asker

LEMMA ScanType ==
  ASSUME TypeOK, Scan
  PROVE  TypeOK'
<1>1. 0 \in Cells
  BY IrqAssumption DEF Cells
<1>2. CASE TaskletStart
  BY <1>1, <1>2 DEF TypeOK, TaskletStart, irq, memory, asker
<1>3. CASE ScanRead
  <2>1. index' \in Cells /\ step' \in {"read", "idle", "free"}
    BY <1>3, NextCellType DEF ScanRead, TypeOK
  <2> QED
    BY <1>3, <2>1 DEF TypeOK, ScanRead, irq, memory, asker
<1>4. CASE ScanFree
  BY <1>4 DEF TypeOK, ScanFree, irq, asker
<1>5. CASE ScanCond
  BY <1>5 DEF TypeOK, ScanCond, irq, memory, asker
<1>6. CASE ScanWake
  <2>1. index' \in Cells /\ step' \in {"read", "idle"}
    BY <1>6, NextCellType DEF ScanWake
  <2>2. thread' \in [Cells -> Places]
    BY <1>6 DEF TypeOK, ScanWake, Places
  <2> QED
    BY <1>6, <2>1, <2>2 DEF TypeOK, ScanWake, irq, memory, Places
<1> QED
  BY <1>2, <1>3, <1>4, <1>5, <1>6 DEF Scan

LEMMA AskerType ==
  ASSUME TypeOK, NEW c \in Cells, Ask(c) \/ Ring(c) \/ Thread(c) \/ GiveUp(c)
  PROVE  TypeOK'
<1>1. CASE Ask(c)
  <2>1. request[c] + 1 \in 0 .. MaxAsks
    BY <1>1, IrqAssumption DEF Ask, TypeOK
  <2>2. <<"request", request[c] + 1>> \in Content
    BY <2>1 DEF Content
  <2>3. buf' \in [Cells -> Content] /\ request' \in [Cells -> 0 .. MaxAsks]
    BY <1>1, <2>1, <2>2 DEF Ask, TypeOK
  <2>4. /\ waitcond' \in [Cells -> BOOLEAN] /\ tag' \in [Cells -> Memory]
        /\ thread' \in [Cells -> Places] /\ got' \in [Cells -> Content \cup {NULL}]
        /\ crowded' \subseteq Cells
    BY <1>1 DEF Ask, TypeOK, Memory, Places
  <2> QED
    BY <1>1, <2>3, <2>4 DEF Ask, TypeOK, irq, tasklet, Memory, Places
<1>2. CASE Ring(c)
  <2>1. buf[c][2] \in 0 .. MaxAsks
    BY DEF TypeOK, Content
  <2>2. <<"working", buf[c][2]>> \in Works
    BY <2>1 DEF Works
  <2>3. work' \in [Cells -> Works]
    BY <1>2, <2>2 DEF Ring, TypeOK, Works
  <2>4. thread' \in [Cells -> Places]
    BY <1>2 DEF Ring, TypeOK, Places
  <2> QED
    BY <1>2, <2>3, <2>4 DEF Ring, TypeOK, irq, tasklet, memory, Works, Places
<1>3. CASE WaitCheck(c)
  <2>1. thread' \in [Cells -> Places]
    BY <1>3 DEF WaitCheck, TypeOK, Places
  <2> QED
    BY <1>3, <2>1 DEF WaitCheck, TypeOK, irq, tasklet, memory, Places
<1>4. CASE GiveUp(c)
  BY <1>4 DEF GiveUp, TypeOK, irq, tasklet, memory
<1>5. CASE ReadAnswer(c)
  <2>1. got' \in [Cells -> Content \cup {NULL}] /\ thread' \in [Cells -> Places]
    BY <1>5 DEF ReadAnswer, TypeOK, Places
  <2> QED
    BY <1>5, <2>1 DEF ReadAnswer, TypeOK, irq, tasklet, memory, Places
<1> QED
  BY <1>1, <1>2, <1>3, <1>4, <1>5 DEF Thread

LEMMA CardType ==
  ASSUME TypeOK, NEW c \in Cells, Card(c)
  PROVE  TypeOK'
<1>1. work[c][2] \in 0 .. MaxAsks
  BY DEF TypeOK
<1>2. \A w \in {"idle", "working", "answered", "tagged"} : <<w, work[c][2]>> \in Works
  BY <1>1 DEF Works
<1>3. CASE CardAnswers(c)
  <2>1. <<"answer", work[c][2]>> \in Content
    BY <1>1 DEF Content
  <2>2. buf' \in [Cells -> Content] /\ work' \in [Cells -> Works]
    BY <1>2, <1>3, <2>1 DEF CardAnswers, TypeOK, Works
  <2> QED
    BY <1>3, <2>2 DEF CardAnswers, TypeOK, irq, tasklet, asker, Works
<1>4. CASE CardTags(c)
  <2>1. work' \in [Cells -> Works] /\ tag' \in [Cells -> Memory]
    BY <1>2, <1>4 DEF CardTags, TypeOK, Works, Memory
  <2> QED
    BY <1>4, <2>1 DEF CardTags, TypeOK, irq, tasklet, asker, Works, Memory
<1>5. CASE CardInterrupts(c)
  <2>1. <<"idle", 0>> \in Works
    BY IrqAssumption DEF Works
  <2>2. work' \in [Cells -> Works]
    BY <1>5, <2>1 DEF CardInterrupts, TypeOK, Works
  <2> QED
    BY <1>5, <2>2 DEF CardInterrupts, TypeOK, tasklet, memory, asker, Works
<1> QED
  BY <1>3, <1>4, <1>5 DEF Card

(* The type invariant, of every behaviour.                                 *)
THEOREM TypeCorrect == Spec => []TypeOK
<1>1. Init => TypeOK
  <2>1. SUFFICES ASSUME Init PROVE TypeOK
    OBVIOUS
  <2>2. 0 \in Cells /\ 0 \in 0 .. MaxAsks
    BY IrqAssumption DEF Cells
  <2>3. <<"request", 0>> \in Content /\ <<"idle", 0>> \in Works
    BY <2>2 DEF Content, Works
  <2>4. buf \in [Cells -> Content] /\ work \in [Cells -> Works]
    BY <2>1, <2>3 DEF Init
  <2>5. /\ tag \in [Cells -> Memory] /\ thread \in [Cells -> Places]
        /\ waitcond \in [Cells -> BOOLEAN] /\ request \in [Cells -> 0 .. MaxAsks]
        /\ got \in [Cells -> Content \cup {NULL}]
    BY <2>1, <2>2 DEF Init, Memory, Places
  <2> QED
    BY <2>1, <2>2, <2>4, <2>5 DEF Init, TypeOK, Memory, Places, Works
<1>2. TypeOK /\ [Next]_vars => TypeOK'
  <2>1. SUFFICES ASSUME TypeOK, [Next]_vars PROVE TypeOK'
    OBVIOUS
  <2>2. CASE UNCHANGED vars
    BY <2>1, <2>2 DEF TypeOK, vars, irq, tasklet, memory, asker
  <2> QED
    BY <2>1, <2>2, HandlerType, ScanType, AskerType, CardType DEF Next, Finished
<1> QED
  BY <1>1, <1>2, PTL DEF Spec

-----------------------------------------------------------------------------
(* No answer is forgotten                                                  *)

(* Where an answer in cell c still is to be found from.                    *)
Coming(c) ==
  \/ work[c][1] = "tagged" \/ line \/ handler # "idle" \/ scheduled
  \/ step # "idle" /\ index < c
  \/ step \in {"read", "free"} /\ index = c

(* While the loop is before cell c it comes to it.                         *)
LEMMA NextCellReaches ==
  ASSUME TypeOK, NextCell, NEW c \in Cells, index < c
  PROVE  step' = "read" /\ (index' < c \/ index' = c)
BY IrqAssumption DEF TypeOK, NextCell, Cells

LEMMA AnswersInit == Init => AnswerIsOnItsWay
BY DEF Init, AnswerIsOnItsWay

LEMMA AnswersStep ==
  ASSUME TypeOK, AnswerIsOnItsWay, [Next]_vars
  PROVE  AnswerIsOnItsWay'
<1>1. SUFFICES ASSUME NEW c \in Cells, tag'[c] = "returned" PROVE Coming(c)'
  BY DEF AnswerIsOnItsWay, Coming
<1>2. tag[c] = "returned" => Coming(c)
  BY DEF AnswerIsOnItsWay, Coming
<1>3. CASE UNCHANGED vars
  BY <1>1, <1>2, <1>3 DEF Coming, vars, irq, tasklet, memory
<1>4. CASE IrqEnter
  BY <1>4 DEF IrqEnter, Coming
<1>5. CASE IrqClear
  BY <1>5 DEF IrqClear, Coming
<1>6. CASE IrqSchedule
  BY <1>6 DEF IrqSchedule, Coming
<1>7. CASE TaskletStart
  BY <1>7, IrqAssumption DEF TaskletStart, Coming, Cells
<1>8. CASE ScanRead
  <2>1. tag[c] = "returned" /\ Coming(c)
    BY <1>1, <1>2, <1>8 DEF ScanRead, memory
  <2>2. CASE tag[index] = "returned"
    BY <1>8, <2>1, <2>2 DEF ScanRead, Coming, irq, memory
  <2>3. CASE tag[index] # "returned" /\ NextCell
    <3>1. index # c
      BY <2>1, <2>3
    <3>2. index < c => step' = "read" /\ (index' < c \/ index' = c)
      BY <2>3, NextCellReaches
    <3> QED
      BY <1>8, <2>1, <3>1, <3>2 DEF ScanRead, Coming, irq
  <2> QED
    BY <1>8, <2>2, <2>3 DEF ScanRead
<1>9. CASE ScanFree
  <2>1. c # index /\ tag[c] = "returned"
    BY <1>1, <1>9 DEF ScanFree, TypeOK
  <2> QED
    BY <1>2, <1>9, <2>1 DEF ScanFree, Coming, irq
<1>10. CASE ScanCond
  BY <1>1, <1>2, <1>10 DEF ScanCond, Coming, irq, memory
<1>11. CASE ScanWake
  <2>1. tag[c] = "returned" /\ Coming(c)
    BY <1>1, <1>2, <1>11 DEF ScanWake, memory
  <2>2. index < c => step' = "read" /\ (index' < c \/ index' = c)
    BY <1>11, NextCellReaches DEF ScanWake
  <2> QED
    BY <1>11, <2>1, <2>2 DEF ScanWake, Coming, irq
<1>12. ASSUME NEW b \in Cells, Ask(b) \/ GiveUp(b) \/ Thread(b)
       PROVE  Coming(c)'
  <2>1. tag[c] = "returned"
    BY <1>1, <1>12 DEF Ask, GiveUp, Thread, WaitCheck, ReadAnswer, memory, TypeOK
  <2> QED
    BY <1>2, <1>12, <2>1 DEF Ask, GiveUp, Thread, WaitCheck, ReadAnswer, Coming, irq, tasklet
<1>13. ASSUME NEW b \in Cells, Ring(b)
       PROVE  Coming(c)'
  <2>1. tag[c] = "returned"
    BY <1>1, <1>13 DEF Ring, memory
  <2>2. work'[c] = work[c]
    BY <1>13, <2>1 DEF Ring, TypeOK
  <2> QED
    BY <1>2, <1>13, <2>1, <2>2 DEF Ring, Coming, irq, tasklet
<1>14. ASSUME NEW b \in Cells, CardAnswers(b) \/ CardTags(b)
       PROVE  Coming(c)'
  <2>1. CASE b = c /\ CardTags(b)
    <3>1. work'[c] = <<"tagged", work[c][2]>>
      BY <2>1 DEF CardTags, TypeOK
    <3> QED
      BY <3>1 DEF Coming
  <2>2. CASE b = c /\ CardAnswers(b)
    BY <1>1, <1>2, <2>2 DEF CardAnswers, Coming, irq, tasklet
  <2>3. CASE b # c
    <3>1. tag[c] = "returned" /\ work'[c] = work[c]
      BY <1>1, <1>14, <2>3 DEF CardAnswers, CardTags, TypeOK
    <3> QED
      BY <1>2, <1>14, <3>1 DEF CardAnswers, CardTags, Coming, irq, tasklet
  <2> QED
    BY <1>14, <2>1, <2>2, <2>3
<1>15. ASSUME NEW b \in Cells, CardInterrupts(b)
       PROVE  Coming(c)'
  BY <1>15 DEF CardInterrupts, Coming
<1> QED
  BY <1>3, <1>4, <1>5, <1>6, <1>7, <1>8, <1>9, <1>10, <1>11, <1>12, <1>13, <1>14, <1>15
     DEF Next, Scan, Card, Finished

(* While a tag says that a cell is answered, an interrupt is to come or    *)
(* the handler or the tasklet is still to get to the cell                  *)
(* (pci_irq.c:18, 58-60).                                                  *)
THEOREM NoAnswerForgotten == Spec => []AnswerIsOnItsWay
BY TypeCorrect, AnswersInit, AnswersStep, PTL DEF Spec

-----------------------------------------------------------------------------
(* No wake-up is lost                                                      *)

LEMMA SleepersInit == Init => SleeperIsWoken
BY DEF Init, SleeperIsWoken

LEMMA SleepersStep ==
  ASSUME TypeOK, SleeperIsWoken, [Next]_vars
  PROVE  SleeperIsWoken'
<1>1. SUFFICES ASSUME NEW c \in Cells, thread'[c] = "asleep", waitcond'[c]
               PROVE  index' = c /\ step' = "wake"
  BY DEF SleeperIsWoken
<1>2. thread[c] = "asleep" /\ waitcond[c] => index = c /\ step = "wake"
  BY DEF SleeperIsWoken
<1>3. CASE UNCHANGED vars
  BY <1>1, <1>2, <1>3 DEF vars, tasklet, asker
<1>4. CASE IrqEnter \/ IrqClear \/ IrqSchedule
  BY <1>1, <1>2, <1>4 DEF IrqEnter, IrqClear, IrqSchedule, tasklet, asker
<1>5. CASE TaskletStart
  BY <1>1, <1>2, <1>5 DEF TaskletStart, asker
<1>6. CASE ScanRead \/ ScanFree
  BY <1>1, <1>2, <1>6 DEF ScanRead, ScanFree, asker
<1>7. CASE ScanCond
  <2>1. c # index => waitcond[c]
    BY <1>1, <1>7 DEF ScanCond, TypeOK
  <2> QED
    BY <1>1, <1>2, <1>7, <2>1 DEF ScanCond, asker
<1>8. CASE ScanWake
  <2>1. c # index /\ thread[c] = "asleep"
    BY <1>1, <1>8 DEF ScanWake, TypeOK
  <2> QED
    BY <1>1, <1>2, <1>8, <2>1 DEF ScanWake
<1>9. ASSUME NEW b \in Cells, Ask(b) \/ Ring(b) \/ GiveUp(b) \/ ReadAnswer(b)
      PROVE  index' = c /\ step' = "wake"
  <2>1. b # c /\ thread[c] = "asleep" /\ waitcond[c]
    BY <1>1, <1>9 DEF Ask, Ring, GiveUp, ReadAnswer, TypeOK
  <2> QED
    BY <1>2, <1>9, <2>1 DEF Ask, Ring, GiveUp, ReadAnswer, tasklet
<1>10. ASSUME NEW b \in Cells, WaitCheck(b)
       PROVE  index' = c /\ step' = "wake"
  <2>1. b # c /\ thread[c] = "asleep" /\ waitcond[c]
    BY <1>1, <1>10 DEF WaitCheck, TypeOK
  <2> QED
    BY <1>2, <1>10, <2>1 DEF WaitCheck, tasklet
<1>11. ASSUME NEW b \in Cells, Card(b)
       PROVE  index' = c /\ step' = "wake"
  BY <1>1, <1>2, <1>11 DEF Card, CardAnswers, CardTags, CardInterrupts, tasklet, asker
<1> QED
  BY <1>3, <1>4, <1>5, <1>6, <1>7, <1>8, <1>9, <1>10, <1>11 DEF Next, Scan, Thread, Finished

(* A thread that sleeps although its condition is set is about to be woken *)
(* (pci_irq.c:29-32).                                                      *)
THEOREM NoWakeUpLost == Spec => []SleeperIsWoken
BY TypeCorrect, SleepersInit, SleepersStep, PTL DEF Spec

-----------------------------------------------------------------------------
(* Each cell is a mailbox                                                  *)

(* What holds of a cell that was never sent a request before an earlier    *)
(* one was settled: until its latest request is rung in nothing is going   *)
(* on, the card works on that request and no other, and whatever says that *)
(* the cell is answered is true.                                           *)
Answered(c) == buf[c] = <<"answer", request[c]>>

Quiet(c) ==
  /\ Settled(c) /\ ~waitcond[c]
  /\ tag[c] = "write" /\ buf[c] = <<"request", request[c]>>

BoxInv(c) ==
  /\ thread[c] = "ring" => Quiet(c)
  /\ work[c][1] # "idle" => work[c][2] = request[c]
  /\ work[c][1] \in {"answered", "tagged"} => Answered(c)
  /\ tag[c] = "returned" => Answered(c)
  /\ index = c /\ step \in {"free", "cond"} => Answered(c)
  /\ waitcond[c] => Answered(c)
  /\ thread[c] = "done" => waitcond[c]

BoxesInv == \A c \in Cells \ crowded : BoxInv(c)

LEMMA BoxesInit == Init => BoxesInv
BY DEF Init, BoxesInv, BoxInv

(* A step that leaves all of a cell alone but where the tasklet is.        *)
LEMMA BoxKept ==
  ASSUME NEW c \in Cells, BoxInv(c),
         tag'[c] = tag[c], buf'[c] = buf[c], waitcond'[c] = waitcond[c],
         thread'[c] = thread[c], request'[c] = request[c], work'[c] = work[c],
         index' = c /\ step' \in {"free", "cond"} => index = c /\ step \in {"free", "cond"}
  PROVE  BoxInv(c)'
BY DEF BoxInv, Quiet, Answered, Settled

LEMMA BoxesHandler ==
  ASSUME BoxesInv, IrqEnter \/ IrqClear \/ IrqSchedule
  PROVE  BoxesInv'
BY BoxKept DEF BoxesInv, IrqEnter, IrqClear, IrqSchedule, tasklet, memory, asker

LEMMA BoxesScan ==
  ASSUME TypeOK, BoxesInv, Scan
  PROVE  BoxesInv'
<1>1. crowded' = crowded /\ request' = request /\ buf' = buf /\ work' = work
  BY DEF Scan, TaskletStart, ScanRead, ScanFree, ScanCond, ScanWake, memory, asker
<1>2. SUFFICES ASSUME NEW c \in Cells, c \notin crowded PROVE BoxInv(c)'
  BY <1>1 DEF BoxesInv
<1>3. BoxInv(c)
  BY <1>2 DEF BoxesInv
<1>4. CASE TaskletStart
  BY <1>2, <1>3, <1>4, BoxKept DEF TaskletStart, irq, memory, asker
<1>5. CASE ScanRead
  <2>1. tag' = tag /\ waitcond' = waitcond /\ thread' = thread
    BY <1>5 DEF ScanRead, memory, asker
  <2>2. CASE tag[index] = "returned" /\ step' = "free" /\ UNCHANGED index
    BY <1>1, <1>3, <2>1, <2>2 DEF BoxInv, Quiet, Answered, Settled
  <2>3. CASE NextCell
    <3>1. step' \in {"read", "idle"}
      BY <2>3 DEF NextCell
    <3> QED
      BY <1>1, <1>2, <1>3, <2>1, <3>1, BoxKept
  <2> QED
    BY <1>5, <2>2, <2>3 DEF ScanRead
<1>6. CASE ScanFree
  <2>1. waitcond' = waitcond /\ thread' = thread /\ index' = index /\ step = "free" /\ step' = "cond"
    BY <1>6 DEF ScanFree, asker
  <2>2. CASE c = index
    <3>1. tag'[c] = "free"
      BY <1>6, <2>2 DEF ScanFree, TypeOK
    <3> QED
      BY <1>1, <1>3, <2>1, <2>2, <3>1 DEF BoxInv, Quiet, Answered, Settled
  <2>3. CASE c # index
    <3>1. tag'[c] = tag[c]
      BY <1>6, <2>3 DEF ScanFree, TypeOK
    <3> QED
      BY <1>1, <1>2, <1>3, <2>1, <2>3, <3>1, BoxKept
  <2> QED
    BY <2>2, <2>3
<1>7. CASE ScanCond
  <2>1. tag' = tag /\ thread' = thread /\ index' = index /\ step = "cond" /\ step' = "wake"
    BY <1>7 DEF ScanCond, memory, asker
  <2>2. CASE c = index
    <3>1. waitcond'[c] = TRUE
      BY <1>7, <2>2 DEF ScanCond, TypeOK
    <3> QED
      BY <1>1, <1>3, <2>1, <2>2, <3>1 DEF BoxInv, Quiet, Answered, Settled
  <2>3. CASE c # index
    <3>1. waitcond'[c] = waitcond[c]
      BY <1>7, <2>3 DEF ScanCond, TypeOK
    <3> QED
      BY <1>1, <1>2, <1>3, <2>1, <2>3, <3>1, BoxKept
  <2> QED
    BY <2>2, <2>3
<1>8. CASE ScanWake
  <2>1. tag' = tag /\ waitcond' = waitcond /\ step' \in {"read", "idle"} /\ step = "wake"
    BY <1>8 DEF ScanWake, NextCell, memory
  <2>2. thread'[c] = thread[c] \/ thread'[c] = "check"
    BY <1>8 DEF ScanWake, TypeOK
  <2> QED
    BY <1>1, <1>3, <2>1, <2>2 DEF BoxInv, Quiet, Answered, Settled
<1> QED
  BY <1>4, <1>5, <1>6, <1>7, <1>8 DEF Scan

LEMMA BoxesAsker ==
  ASSUME TypeOK, BoxesInv, NEW b \in Cells, Ask(b) \/ Ring(b) \/ Thread(b) \/ GiveUp(b)
  PROVE  BoxesInv'
<1>1. UNCHANGED <<index, step>> /\ crowded \subseteq crowded'
  BY DEF Ask, Ring, Thread, WaitCheck, ReadAnswer, GiveUp, tasklet
<1>2. SUFFICES ASSUME NEW c \in Cells, c \notin crowded' PROVE BoxInv(c)'
  BY DEF BoxesInv
<1>3. BoxInv(c)
  BY <1>1, <1>2 DEF BoxesInv
<1>4. CASE c # b
  <2>1. /\ tag'[c] = tag[c] /\ buf'[c] = buf[c] /\ waitcond'[c] = waitcond[c]
        /\ thread'[c] = thread[c] /\ request'[c] = request[c] /\ work'[c] = work[c]
    BY <1>4 DEF Ask, Ring, Thread, WaitCheck, ReadAnswer, GiveUp, memory, TypeOK
  <2> QED
    BY <1>1, <1>2, <1>3, <2>1, BoxKept
<1>5. CASE c = b /\ Ask(b)
  <2>1. /\ tag'[c] = "write" /\ waitcond'[c] = FALSE /\ thread'[c] = "ring" /\ work' = work
        /\ buf'[c] = <<"request", request'[c]>>
    BY <1>5 DEF Ask, TypeOK
  <2>2. Settled(c)
    BY <1>2, <1>5 DEF Ask
  <2> QED
    BY <1>1, <2>1, <2>2 DEF BoxInv, Quiet, Settled
<1>6. CASE c = b /\ Ring(b)
  <2>1. Quiet(c)
    BY <1>3, <1>6 DEF BoxInv, Ring
  <2>2. buf[c][2] = request[c]
    BY <2>1 DEF Quiet
  <2>3. /\ tag' = tag /\ buf' = buf /\ waitcond' = waitcond /\ request' = request
        /\ thread'[c] = "check" /\ work'[c] = <<"working", request[c]>>
    BY <1>6, <2>1, <2>2 DEF Ring, Quiet, memory, TypeOK
  <2> QED
    BY <1>1, <2>1, <2>3 DEF BoxInv, Quiet, Settled
<1>7. CASE c = b /\ (Thread(b) \/ GiveUp(b))
  <2>1. UNCHANGED <<tag, buf, waitcond, request, work>>
    BY <1>7 DEF Thread, WaitCheck, ReadAnswer, GiveUp, memory
  <2>2. thread'[c] # "ring" /\ (thread'[c] = "done" => waitcond[c])
    BY <1>7 DEF Thread, WaitCheck, ReadAnswer, GiveUp, TypeOK
  <2> QED
    BY <1>1, <1>3, <2>1, <2>2 DEF BoxInv, Answered
<1> QED
  BY <1>4, <1>5, <1>6, <1>7

LEMMA BoxesCard ==
  ASSUME TypeOK, BoxesInv, NEW b \in Cells, Card(b)
  PROVE  BoxesInv'
<1>1. UNCHANGED <<index, step, waitcond, thread, request, crowded>>
  BY DEF Card, CardAnswers, CardTags, CardInterrupts, tasklet, asker
<1>2. SUFFICES ASSUME NEW c \in Cells, c \notin crowded PROVE BoxInv(c)'
  BY <1>1 DEF BoxesInv
<1>3. BoxInv(c)
  BY <1>2 DEF BoxesInv
<1>4. CASE c # b
  <2>1. tag'[c] = tag[c] /\ buf'[c] = buf[c] /\ work'[c] = work[c]
    BY <1>4 DEF Card, CardAnswers, CardTags, CardInterrupts, memory, TypeOK
  <2> QED
    BY <1>1, <1>2, <1>3, <2>1, BoxKept
<1>5. CASE c = b
  <2>1. work[c][1] # "idle" /\ work[c][2] = request[c] /\ thread[c] # "ring"
    BY <1>3, <1>5 DEF BoxInv, Quiet, Settled, Card, CardAnswers, CardTags, CardInterrupts
  <2>2. CASE CardAnswers(b)
    <3>1. tag' = tag /\ buf'[c] = <<"answer", request[c]>> /\ work'[c] = <<"answered", request[c]>>
      BY <1>5, <2>1, <2>2 DEF CardAnswers, TypeOK
    <3> QED
      BY <1>1, <1>3, <2>1, <3>1 DEF BoxInv, Answered
  <2>3. CASE CardTags(b)
    <3>1. work[c][1] = "answered" /\ buf' = buf /\ work'[c] = <<"tagged", request[c]>>
      BY <1>5, <2>1, <2>3 DEF CardTags, TypeOK
    <3> QED
      BY <1>1, <1>3, <2>1, <3>1 DEF BoxInv, Answered
  <2>4. CASE CardInterrupts(b)
    <3>1. tag' = tag /\ buf' = buf /\ work'[c] = <<"idle", 0>>
      BY <1>5, <2>4 DEF CardInterrupts, memory, TypeOK
    <3> QED
      BY <1>1, <1>3, <2>1, <3>1 DEF BoxInv, Answered
  <2> QED
    BY <2>2, <2>3, <2>4 DEF Card
<1> QED
  BY <1>4, <1>5

LEMMA BoxesStep ==
  ASSUME TypeOK, BoxesInv, [Next]_vars
  PROVE  BoxesInv'
<1>1. CASE UNCHANGED vars
  BY <1>1, BoxKept DEF BoxesInv, vars, tasklet, memory, asker
<1> QED
  BY <1>1, BoxesHandler, BoxesScan, BoxesAsker, BoxesCard DEF Next, Finished

(* A function of the cells that a step moves to what it was is unmoved.    *)
LEMMA SameBox ==
  ASSUME NEW f, NEW g, NEW c \in Cells,
         f = [x \in Cells |-> f[x]], g = [f EXCEPT ![c] = g[c]], g[c] = f[c]
  PROVE  g = f
OBVIOUS

(* A step of one cell, seen from the mailboxes.                            *)
LEMMA OneBox ==
  ASSUME NEW c \in Cells,
         \A b \in Cells \ {c} :
           /\ thread'[b] = thread[b] /\ request'[b] = request[b] /\ got'[b] = got[b]
           /\ b \in crowded' <=> b \in crowded
  PROVE  /\ Pending' = [Pending EXCEPT ![c] = Pending'[c]]
         /\ Taken' = [Taken EXCEPT ![c] = Taken'[c]]
BY DEF Pending, Taken

(* ... and one that no mailbox notices: no thread comes or goes.           *)
LEMMA NoBox ==
  ASSUME UNCHANGED <<request, got, crowded>>,
         \A c \in Cells : thread'[c] = "idle" <=> thread[c] = "idle"
  PROVE  UNCHANGED Boxes!vars
BY DEF Pending, Taken, Boxes!vars

LEMMA MailboxInit == Init => Boxes!Init
BY DEF Init, Boxes!Init, Pending, Taken

LEMMA MailboxStep ==
  ASSUME TypeOK, BoxesInv, [Next]_vars
  PROVE  [Boxes!Next]_(Boxes!vars)
<1>1. CASE UNCHANGED vars
  BY <1>1, NoBox DEF vars, asker
<1>2. CASE IrqEnter \/ IrqClear \/ IrqSchedule \/ TaskletStart \/ ScanRead \/ ScanFree \/ ScanCond
  BY <1>2, NoBox DEF IrqEnter, IrqClear, IrqSchedule, TaskletStart, ScanRead, ScanFree, ScanCond,
                     asker
<1>3. CASE ScanWake
  BY <1>3, NoBox DEF ScanWake, TypeOK
<1>4. ASSUME NEW c \in Cells, Ring(c) \/ WaitCheck(c) \/ Card(c)
      PROVE  UNCHANGED Boxes!vars
  BY <1>4, NoBox DEF Ring, WaitCheck, Card, CardAnswers, CardTags, CardInterrupts, asker, TypeOK
<1>5. ASSUME NEW c \in Cells, Ask(c)
      PROVE  [Boxes!Next]_(Boxes!vars)
  <2>1. /\ Pending' = [Pending EXCEPT ![c] = Pending'[c]]
        /\ Taken' = [Taken EXCEPT ![c] = Taken'[c]]
    BY <1>5, OneBox DEF Ask, TypeOK
  <2>2. Pending[c] = NULL /\ Taken'[c] = NULL
    BY <1>5 DEF Ask, Pending, Taken, TypeOK
  <2>3. CASE c \in crowded'
    <3>1. Pending'[c] = NULL
      BY <2>3 DEF Pending
    <3>2. Pending' = Pending
      BY <2>1, <2>2, <3>1 DEF Pending
    <3>3. Boxes!Forget(c)
      BY <2>1, <2>2, <3>2 DEF Boxes!Forget
    <3> QED
      BY <3>3 DEF Boxes!Next
  <2>4. CASE c \notin crowded'
    <3>1. Pending'[c] = request[c] + 1
      BY <1>5, <2>4 DEF Ask, Pending, TypeOK
    <3>2. request[c] + 1 \in Numbers
      BY <1>5, IrqAssumption DEF Ask, TypeOK, Numbers
    <3>3. Boxes!Ask(c)
      BY <2>1, <2>2, <3>1, <3>2 DEF Boxes!Ask
    <3> QED
      BY <3>3 DEF Boxes!Next
  <2> QED
    BY <2>3, <2>4
<1>6. ASSUME NEW c \in Cells, GiveUp(c) \/ ReadAnswer(c)
      PROVE  [Boxes!Next]_(Boxes!vars)
  <2>1. /\ Pending' = [Pending EXCEPT ![c] = Pending'[c]]
        /\ Taken' = [Taken EXCEPT ![c] = Taken'[c]]
    BY <1>6, OneBox DEF GiveUp, ReadAnswer, TypeOK
  <2>2. thread[c] # "idle" /\ thread'[c] = "idle" /\ UNCHANGED <<request, crowded>>
    BY <1>6 DEF GiveUp, ReadAnswer, TypeOK
  <2>3. Pending'[c] = NULL
    BY <2>2 DEF Pending
  <2>4. CASE c \in crowded
    <3>1. Pending[c] = NULL /\ Taken[c] = NULL /\ Taken'[c] = NULL
      BY <2>2, <2>4 DEF Pending, Taken
    <3>2. Pending' = Pending
      <4>1. Pending = [x \in Cells |-> Pending[x]] /\ Pending'[c] = Pending[c]
        BY <2>3, <3>1 DEF Pending
      <4> QED
        BY <2>1, <4>1, SameBox
    <3>3. Taken' = Taken
      <4>1. Taken = [x \in Cells |-> Taken[x]] /\ Taken'[c] = Taken[c]
        BY <3>1 DEF Taken
      <4> QED
        BY <2>1, <4>1, SameBox
    <3> QED
      BY <3>2, <3>3 DEF Boxes!vars
  <2>5. CASE c \notin crowded
    <3>1. Pending[c] = request[c] /\ Pending[c] # NULL
      BY <2>2, <2>5, IrqAssumption DEF Pending, TypeOK
    <3>2. CASE GiveUp(c)
      <4>1. Taken' = Taken
        BY <2>2, <3>2 DEF GiveUp, Taken
      <4>2. Boxes!GiveUp(c)
        BY <2>1, <2>3, <3>1, <4>1 DEF Boxes!GiveUp
      <4> QED
        BY <4>2 DEF Boxes!Next
    <3>3. CASE ReadAnswer(c)
      <4>1. buf[c] = <<"answer", request[c]>> /\ got'[c] = buf[c]
        BY <2>5, <3>3 DEF ReadAnswer, BoxesInv, BoxInv, Answered, TypeOK
      <4>2. got'[c] # NULL
        <5>1. buf[c] \in Content
          BY DEF TypeOK
        <5> QED
          BY <4>1, <5>1, IrqAssumption DEF Content
      <4>3. Taken'[c] = request[c]
        BY <2>2, <2>5, <4>1, <4>2 DEF Taken
      <4>4. Boxes!Reply(c)
        BY <2>1, <2>3, <3>1, <4>3 DEF Boxes!Reply
      <4> QED
        BY <4>4 DEF Boxes!Next
    <3> QED
      BY <1>6, <3>2, <3>3
  <2> QED
    BY <2>4, <2>5
<1> QED
  BY <1>1, <1>2, <1>3, <1>4, <1>5, <1>6 DEF Next, Scan, Thread, Finished

(* For any number of cells and requests, and threads that give up and ask  *)
(* again at any time, what a thread reads as the answer to its request is  *)
(* the answer to that request, on every cell that was sent no request      *)
(* before an earlier one was settled (pci_irq.c:18-33).                    *)
THEOREM CellsAnswerInOrder == Spec => CellsAreMailboxes
<1>1. Spec => []BoxesInv
  BY TypeCorrect, BoxesInit, BoxesStep, PTL DEF Spec
<1>2. TypeOK /\ BoxesInv /\ [Next]_vars => [Boxes!Next]_(Boxes!vars)
  BY MailboxStep
<1> QED
  BY <1>1, <1>2, TypeCorrect, MailboxInit, PTL DEF Spec, CellsAreMailboxes, Boxes!Spec

=============================================================================
