-------------------------- MODULE FakeCard_proofs --------------------------
(***************************************************************************)
(* What the driver of pci-fake does to the card's memory and takes from    *)
(* it, for any number of devices, whatever BARs they have, and any layout  *)
(* of the chips.                                                           *)
(***************************************************************************)
EXTENDS FakeCard, WorkerLayout_proofs

-----------------------------------------------------------------------------
(* Types, and what makes them inductive: a probe has tries left, and there *)
(* is no callback without the module.                                      *)
Past == {"p_reset", "p_unreset", "p_io", "p_buffer", "p_tag", "p_bell", "p_poll", "p_copy"}
InProbe == {"p_hold", "p_map", "p_base", "p_workers"} \cup Past
Places == AtRest \cup InProbe \cup {"r_release"}
Tags == {"free", "write", "returned"}
Causes == {"shared", "overlap", "unmapped", "missing"}

Tries ==
  /\ \A d \in Devices : pc[d] \in InProbe => retry[d] < Retries
  /\ phase = "absent" => \A d \in Devices : pc[d] = "unbound"

TypeInv == TypeOK /\ Tries

LEMMA NullIsNone ==
  /\ NULL \notin Devices /\ NULL \notin Mapping /\ NULL \notin Requests
  /\ NULL \notin Content /\ 0 \in Requests
BY FakeAssumption DEF Mapping, Requests, Content

LEMMA TypeInvInit == Init => TypeInv
<1>1. SUFFICES ASSUME Init PROVE TypeInv
  OBVIOUS
<1>2. 0 \in Requests /\ 0 \in 0 .. Retries
  BY FakeAssumption DEF Requests
<1>3. <<"junk", 0>> \in Content /\ <<"idle", 0>> \in Working
  BY <1>2 DEF Content, Working
<1>4. buf \in [Devices -> Content] /\ work \in [Devices -> Working]
  BY <1>1, <1>3 DEF Init
<1>5. /\ pc \in [Devices -> Places] /\ tag \in [Devices -> Tags] /\ in_reset \in [Devices -> BOOLEAN]
      /\ nth \in [Devices -> Requests] /\ retry \in [Devices -> 0 .. Retries]
  BY <1>1, <1>2 DEF Init, Places, AtRest, Tags
<1>6. ctx \in Context
  BY <1>1 DEF Init, BlankContext, Context
<1>7. TypeOK
  BY <1>1, <1>2, <1>4, <1>5, <1>6 DEF Init, TypeOK, Places, InProbe, Past, Tags
<1>8. Tries
  BY <1>1 DEF Init, Tries, InProbe, Past
<1> QED
  BY <1>7, <1>8 DEF TypeInv

(* Where a callback goes.                                                  *)
LEMMA Goes ==
  ASSUME TypeOK, NEW d \in Devices, NEW l \in Places, Goto(d, l)
  PROVE  /\ pc' \in [Devices -> Places]
         /\ \A e \in Devices : pc'[e] = IF e = d THEN l ELSE pc[e]
BY DEF TypeOK, Goto, Places, InProbe, Past

LEMMA TriesKept ==
  ASSUME TypeInv, NEW d \in Devices, NEW l \in Places, Goto(d, l),
         pc[d] # "unbound" \/ phase # "absent", phase' = phase,
         \A e \in Devices : e # d => retry'[e] = retry[e],
         l \in InProbe => retry'[d] < Retries
  PROVE  Tries'
<1>1. \A e \in Devices : pc'[e] = IF e = d THEN l ELSE pc[e]
  BY Goes DEF TypeInv
<1>2. phase' # "absent"
  BY DEF TypeInv, Tries
<1> QED
  BY <1>1, <1>2 DEF TypeInv, Tries

LEMMA TypeInvModule ==
  ASSUME TypeInv, ModuleInit \/ ModuleExit
  PROVE  TypeInv'
<1>1. BlankContext \in Context
  BY DEF BlankContext, Context
<1>2. TypeOK'
  BY <1>1 DEF TypeInv, TypeOK, ModuleInit, ModuleExit, driver, local, memory, card
<1>3. Tries'
  BY DEF TypeInv, Tries, ModuleInit, ModuleExit, local
<1> QED
  BY <1>2, <1>3 DEF TypeInv

LEMMA TypeInvStart ==
  ASSUME TypeInv, NEW d \in Devices, ProbeStart(d)
  PROVE  TypeInv'
<1>1. ctx' \in Context
  BY DEF ProbeStart, TypeInv, TypeOK, Context
<1>2. Goto(d, "p_hold") /\ "p_hold" \in Places
  BY DEF ProbeStart, Places, InProbe
<1>3. 0 \in 0 .. Retries /\ 0 < Retries
  BY FakeAssumption
<1>4. probes + 1 \in Requests
  <2>1. probes \in 0 .. MaxProbes /\ probes < MaxProbes
    BY DEF ProbeStart, TypeInv, TypeOK, Requests
  <2> QED
    BY <2>1, FakeAssumption DEF Requests
<1>5. /\ probes' \in Requests /\ nth' \in [Devices -> Requests]
      /\ retry' \in [Devices -> 0 .. Retries] /\ got' = NULL
      /\ retry'[d] = 0 /\ \A e \in Devices : e # d => retry'[e] = retry[e]
  BY <1>3, <1>4 DEF ProbeStart, TypeInv, TypeOK
<1>6. slips' \subseteq Causes
  BY DEF ProbeStart, Slip, Overlapping, Sharing, TypeInv, TypeOK, Causes
<1>7. pc' \in [Devices -> Places]
  BY <1>2, Goes DEF TypeInv
<1>8. TypeOK'
  BY <1>1, <1>5, <1>6, <1>7
     DEF ProbeStart, TypeInv, TypeOK, memory, card, Places, InProbe, Past, Causes
<1>9. Tries'
  BY <1>2, <1>3, <1>5, TriesKept DEF ProbeStart
<1> QED
  BY <1>8, <1>9 DEF TypeInv

LEMMA TypeInvHold ==
  ASSUME TypeInv, NEW d \in Devices, Hold(d)
  PROVE  TypeInv'
<1>1. /\ pc[d] \in InProbe /\ pc[d] # "unbound" /\ phase' = phase
      /\ UNCHANGED <<bars, local, card>>
  BY DEF Hold, HoldRefused, HoldLookUp, HoldMap, HoldUnmapped, HoldFailed, HoldBuffers,
         InitWorkers, InProbe
<1>2. PICK l \in {"unbound", "p_map", "p_base", "p_workers", "p_reset"} : Goto(d, l)
  BY DEF Hold, HoldRefused, HoldLookUp, HoldMap, HoldUnmapped, HoldFailed, HoldBuffers,
         InitWorkers
<1>3. l \in Places
  BY <1>2 DEF Places, AtRest, InProbe, Past
<1>4. ctx' \in Context
  <2>1. ctx \in Context /\ bars \in Cards /\ nth[d] \in Requests
    BY DEF TypeInv, TypeOK
  <2>2. CASE HoldLookUp(d)
    BY <2>1, <2>2 DEF HoldLookUp, Context
  <2>3. CASE HoldMap(d)
    <3> DEFINE m == [dev |-> ctx.mem, nth |-> nth[d]]
    <3>1. m \in Mapping /\ ctx' = [ctx EXCEPT !.base = m]
      BY <2>1, <2>3 DEF HoldMap, Mapping, Context
    <3> HIDE DEF m
    <3> QED
      BY <2>1, <3>1 DEF Context
  <2>4. CASE HoldUnmapped(d)
    BY <2>1, <2>4 DEF HoldUnmapped, Context
  <2>5. CASE HoldBuffers(d) \/ InitWorkers(d)
    BY <2>1, <2>5 DEF HoldBuffers, InitWorkers, Context
  <2>6. CASE HoldRefused(d) \/ HoldFailed(d)
    BY <2>1, <2>6 DEF HoldRefused, HoldFailed, driver
  <2> QED
    BY <2>2, <2>3, <2>4, <2>5, <2>6 DEF Hold
<1>5. mappings' \subseteq Mapping
  <2>1. mappings \subseteq Mapping /\ ctx \in Context /\ nth[d] \in Requests
    BY DEF TypeInv, TypeOK
  <2>2. CASE HoldMap(d)
    <3>1. [dev |-> ctx.mem, nth |-> nth[d]] \in Mapping
      BY <2>1, <2>2 DEF HoldMap, Mapping, Context
    <3> QED
      BY <2>1, <2>2, <3>1 DEF HoldMap
  <2> QED
    BY <2>1, <2>2 DEF Hold, HoldRefused, HoldLookUp, HoldUnmapped, HoldFailed, HoldBuffers,
       InitWorkers, driver
<1>6. regions' \subseteq Devices /\ slips' \subseteq Causes
  BY DEF Hold, HoldRefused, HoldLookUp, HoldMap, HoldUnmapped, HoldFailed, HoldBuffers,
         InitWorkers, driver, Slip, TypeInv, TypeOK, Causes
<1>7. /\ tag' \in [Devices -> Tags] /\ buf' \in [Devices -> Content]
      /\ undefined' \in {undefined, "unmapped memory"}
  <2>1. tag \in [Devices -> Tags] /\ buf \in [Devices -> Content]
    BY DEF TypeInv, TypeOK, Tags
  <2>2. <<"zero", 0>> \in Content
    BY NullIsNone DEF Content
  <2>3. CASE HoldBuffers(d)
    <3>1. \/ /\ tag' = [tag EXCEPT ![ctx.base.dev] = "free"]
             /\ buf' = [buf EXCEPT ![ctx.base.dev] = <<"zero", 0>>]
             /\ undefined' = undefined
          \/ tag' = tag /\ buf' = buf /\ undefined' = "unmapped memory"
      BY <2>3 DEF HoldBuffers, memory
    <3> QED
      BY <2>1, <2>2, <3>1 DEF Tags
  <2> QED
    BY <2>1, <2>3 DEF Hold, HoldRefused, HoldLookUp, HoldMap, HoldUnmapped, HoldFailed,
       InitWorkers, memory
<1>8. pc' \in [Devices -> Places]
  BY <1>2, <1>3, Goes DEF TypeInv
<1>9. TypeOK'
  BY <1>1, <1>4, <1>5, <1>6, <1>7, <1>8
     DEF TypeInv, TypeOK, local, card, Places, InProbe, Past, Tags, Causes
<1>10. Tries'
  BY <1>1, <1>2, <1>3, TriesKept DEF TypeInv, Tries, local
<1> QED
  BY <1>9, <1>10 DEF TypeInv

(* The memory a step may touch is a device's.                              *)
LEMMA CardIsDevice == TypeOK /\ Usable => Card \in Devices
BY DEF TypeOK, Usable, Card, Mapping

(* The steps of probe past the hold ...                                    *)
LEMMA PastSteps ==
  ASSUME TypeInv, NEW d \in Devices, Reset(d) \/ Test(d)
  PROVE  /\ UNCHANGED <<bars, phase, ctx, regions, mappings, slips, probes, nth>>
         /\ pc[d] \in Past
         /\ \E l \in Past \cup {"bound"} : Goto(d, l)
<1>1. CASE ReadUnmapped(d)
  <2>1. pc' = [pc EXCEPT ![d] = pc[d]] /\ pc[d] \in Past
    BY <1>1 DEF ReadUnmapped, TypeInv, TypeOK, Past
  <2> QED
    BY <1>1, <2>1 DEF ReadUnmapped, Goto, driver, local
<1>2. CASE Reset(d)
  BY <1>2 DEF Reset, ProbeReset, ProbeUnreset, ProbeIo, driver, local, Past
<1>3. CASE TestBuffer(d) \/ TestTag(d) \/ TestBell(d)
  BY <1>3 DEF TestBuffer, TestTag, TestBell, driver, local, Past
<1>4. CASE PollAnswered(d) \/ PollNotYet(d) \/ TestCopy(d)
  BY <1>4 DEF PollAnswered, PollNotYet, TestCopy, driver, local, Past
<1> QED
  BY <1>1, <1>2, <1>3, <1>4 DEF Test

(* ... and what they do to the numbers ...                                 *)
LEMMA TypeInvTries ==
  ASSUME TypeInv, NEW d \in Devices, Reset(d) \/ Test(d)
  PROVE  /\ retry' \in [Devices -> 0 .. Retries] /\ got' \in Content \cup {NULL}
         /\ Tries'
<1>1. pc[d] \in Past /\ phase' = phase /\ pc[d] # "unbound"
  BY PastSteps DEF Past
<1>2. retry[d] \in 0 .. Retries /\ retry[d] < Retries /\ retry \in [Devices -> 0 .. Retries]
  BY <1>1 DEF TypeInv, TypeOK, Tries, InProbe
<1>3. PICK l \in Past \cup {"bound"} : Goto(d, l)
  BY PastSteps
<1>4. l \in Places
  BY DEF Places, AtRest, InProbe
<1>5. CASE PollNotYet(d)
  <2>1. /\ retry' = [retry EXCEPT ![d] = @ + 1] /\ got' = got
        /\ Goto(d, IF retry'[d] < Retries THEN "p_poll" ELSE "bound")
    BY <1>5 DEF PollNotYet
  <2>2. retry[d] + 1 \in 0 .. Retries
    BY ONLY <1>2, FakeAssumption, SMT
  <2>3. retry' \in [Devices -> 0 .. Retries] /\ \A e \in Devices : e # d => retry'[e] = retry[e]
    BY <1>2, <2>1, <2>2
  <2>4. CASE retry'[d] < Retries
    <3>1. Goto(d, "p_poll") /\ "p_poll" \in Places
      BY <2>1, <2>4 DEF Places, InProbe, Past
    <3> QED
      BY <1>1, <2>1, <2>3, <2>4, <3>1, TriesKept DEF TypeInv, TypeOK
  <2>5. CASE ~(retry'[d] < Retries)
    <3>1. Goto(d, "bound") /\ "bound" \in Places /\ "bound" \notin InProbe
      BY <2>1, <2>5 DEF Places, AtRest, InProbe, Past
    <3> QED
      BY <1>1, <2>1, <2>3, <3>1, TriesKept DEF TypeInv, TypeOK
  <2> QED
    BY <2>4, <2>5
<1>6. CASE ~PollNotYet(d)
  <2>1. retry' = retry
    BY <1>6 DEF Reset, Test, ProbeReset, ProbeUnreset, ProbeIo, TestBuffer, TestTag, TestBell,
                PollAnswered, TestCopy, ReadUnmapped, local
  <2>2. got' \in Content \cup {NULL}
    <3>1. CASE TestCopy(d)
      BY <3>1, CardIsDevice DEF TestCopy, TypeInv, TypeOK
    <3> QED
      BY <1>6, <3>1 DEF Reset, Test, ProbeReset, ProbeUnreset, ProbeIo, TestBuffer, TestTag,
                        TestBell, PollAnswered, ReadUnmapped, local, TypeInv, TypeOK
  <2> QED
    BY <1>1, <1>2, <1>3, <1>4, <2>1, <2>2, TriesKept
<1> QED
  BY <1>5, <1>6

(* ... to the memory ...                                                   *)
LEMMA TypeInvMemory ==
  ASSUME TypeInv, NEW d \in Devices, Reset(d) \/ Test(d)
  PROVE  tag' \in [Devices -> Tags] /\ buf' \in [Devices -> Content]
<1>1. tag \in [Devices -> Tags] /\ buf \in [Devices -> Content] /\ nth[d] \in Requests
  BY DEF TypeInv, TypeOK, Tags
<1>2. <<"junk", 0>> \in Content /\ <<"request", nth[d]>> \in Content
  BY <1>1, NullIsNone DEF Content
<1>3. /\ tag' \in {tag, [tag EXCEPT ![Card] = "free"], [tag EXCEPT ![Card] = "write"]}
      /\ buf' \in {buf, [buf EXCEPT ![Card] = <<"junk", 0>>],
                       [buf EXCEPT ![Card] = <<"request", nth[d]>>]}
  <2>1. CASE Reset(d)
    BY <2>1 DEF Reset, ProbeReset, ProbeUnreset, ProbeIo, OnMemory, memory
  <2>2. CASE TestBuffer(d) \/ TestTag(d)
    BY <2>2 DEF TestBuffer, TestTag, OnMemory, memory
  <2>3. CASE Test(d) /\ ~TestBuffer(d) /\ ~TestTag(d)
    BY <2>3 DEF Test, TestBell, PollAnswered, PollNotYet, TestCopy, ReadUnmapped, memory
  <2> QED
    BY <2>1, <2>2, <2>3
<1> QED
  BY <1>1, <1>2, <1>3 DEF Tags

(* ... and to the card.                                                    *)
LEMMA TypeInvLines ==
  ASSUME TypeInv, NEW d \in Devices, Reset(d) \/ Test(d)
  PROVE  in_reset' \in [Devices -> BOOLEAN] /\ work' \in [Devices -> Working]
<1>1. in_reset \in [Devices -> BOOLEAN] /\ work \in [Devices -> Working] /\ ctx \in Context
  BY DEF TypeInv, TypeOK
<1>2. <<"idle", 0>> \in Working
  BY NullIsNone DEF Working
<1>3. CASE ProbeReset(d) \/ ProbeUnreset(d)
  <2>1. /\ \E v \in BOOLEAN : in_reset' \in {in_reset, [in_reset EXCEPT ![ctx.port] = v]}
        /\ work' \in {work, [work EXCEPT ![ctx.port] = <<"idle", 0>>]}
    BY <1>3 DEF ProbeReset, ProbeUnreset, OnPort, card
  <2> QED
    BY <1>1, <1>2, <2>1
<1>4. CASE TestBell(d)
  <2>1. CASE ctx.port = NULL
    BY <1>1, <1>4, <2>1 DEF TestBell, OnPort, card
  <2>2. CASE ctx.port # NULL
    <3>1. ctx.port \in Devices
      BY <1>1, <2>2 DEF Context
    <3>2. buf[ctx.port][2] \in Requests
      <4>1. buf[ctx.port] \in Content
        BY <3>1 DEF TypeInv, TypeOK
      <4> QED
        BY <4>1 DEF Content
    <3>3. <<"working", buf[ctx.port][2]>> \in Working
      BY <3>2 DEF Working
    <3>4. /\ in_reset' = in_reset
          /\ work' \in {work, [work EXCEPT ![ctx.port] = <<"working", buf[ctx.port][2]>>]}
      BY <1>4, <2>2 DEF TestBell, OnPort
    <3> QED
      BY <1>1, <3>3, <3>4
  <2> QED
    BY <2>1, <2>2
<1>5. CASE ~ProbeReset(d) /\ ~ProbeUnreset(d) /\ ~TestBell(d)
  BY <1>1, <1>5 DEF Reset, Test, ProbeIo, TestBuffer, TestTag, PollAnswered, PollNotYet, TestCopy,
                    ReadUnmapped, card
<1> QED
  BY <1>3, <1>4, <1>5

LEMMA TypeInvPast ==
  ASSUME TypeInv, NEW d \in Devices, Reset(d) \/ Test(d)
  PROVE  TypeInv'
<1>1. PICK l \in Past \cup {"bound"} : Goto(d, l)
  BY PastSteps
<1>2. pc' \in [Devices -> Places]
  <2>1. l \in Places
    BY DEF Places, AtRest, InProbe
  <2> QED
    BY <1>1, <2>1, Goes DEF TypeInv
<1>3. undefined' \in {undefined, "unmapped memory", "past the memory", "port 0"}
  BY DEF Reset, Test, ProbeReset, ProbeUnreset, ProbeIo, TestBuffer, TestTag, TestBell,
         PollAnswered, PollNotYet, TestCopy, ReadUnmapped, OnMemory, OnPort
<1>4. TypeOK'
  BY <1>2, <1>3, PastSteps, TypeInvTries, TypeInvMemory, TypeInvLines
     DEF TypeInv, TypeOK, Places, InProbe, Past, Tags
<1> QED
  BY <1>4, TypeInvTries DEF TypeInv

LEMMA TypeInvRemove ==
  ASSUME TypeInv, NEW d \in Devices, RemoveUnmap(d) \/ RemoveRelease(d)
  PROVE  TypeInv'
<1>1. PICK l \in {"unbound", "r_release"} : Goto(d, l)
  BY DEF RemoveUnmap, RemoveRelease
<1>2. l \in Places /\ l \notin InProbe
  BY DEF Places, AtRest, InProbe, Past
<1>3. /\ UNCHANGED <<bars, phase, ctx, local, memory, card>> /\ pc[d] # "unbound"
      /\ regions' \subseteq regions /\ mappings' \subseteq mappings
      /\ undefined' \in {undefined, "unmapped twice"}
  BY DEF RemoveUnmap, RemoveRelease
<1>4. slips' \subseteq Causes
  BY DEF RemoveUnmap, RemoveRelease, Slip, Overlapping, TypeInv, TypeOK, Causes
<1>5. pc' \in [Devices -> Places]
  BY <1>1, <1>2, Goes DEF TypeInv
<1>6. TypeOK'
  BY <1>3, <1>4, <1>5
     DEF TypeInv, TypeOK, local, memory, card, Places, InProbe, Past, Causes
<1>7. Tries'
  BY <1>1, <1>2, <1>3, TriesKept DEF local
<1> QED
  BY <1>6, <1>7 DEF TypeInv

LEMMA TypeInvCard ==
  ASSUME TypeInv, NEW d \in Devices, CardAnswers(d) \/ CardTags(d)
  PROVE  TypeInv'
<1>1. UNCHANGED <<bars, phase, driver, pc, local, in_reset, undefined>>
  BY DEF CardAnswers, CardTags
<1>2. work[d][2] \in Requests /\ 0 \in Requests
  <2>1. work[d] \in Working
    BY DEF TypeInv, TypeOK
  <2> QED
    BY <2>1, NullIsNone DEF Working
<1>3. /\ <<"answer", work[d][2]>> \in Content
      /\ <<"answered", work[d][2]>> \in Working /\ <<"idle", 0>> \in Working
  BY <1>2 DEF Content, Working
<1>4. work' \in [Devices -> Working] /\ buf' \in [Devices -> Content]
  <2>1. work \in [Devices -> Working] /\ buf \in [Devices -> Content]
    BY DEF TypeInv, TypeOK
  <2>2. /\ work' \in {[work EXCEPT ![d] = <<"answered", work[d][2]>>],
                      [work EXCEPT ![d] = <<"idle", 0>>]}
        /\ buf' \in {buf, [buf EXCEPT ![d] = <<"answer", work[d][2]>>]}
    BY DEF CardAnswers, CardTags
  <2> QED
    BY <1>3, <2>1, <2>2
<1>5. tag' \in [Devices -> Tags]
  <2>1. tag \in [Devices -> Tags]
    BY DEF TypeInv, TypeOK, Tags
  <2>2. tag' = tag \/ \E t \in AnswerTags : tag' = [tag EXCEPT ![d] = t]
    BY DEF CardAnswers, CardTags
  <2>3. AnswerTags \subseteq Tags
    BY FakeAssumption DEF Tags
  <2> QED
    BY <2>1, <2>2, <2>3
<1>6. TypeOK'
  BY <1>1, <1>4, <1>5 DEF TypeInv, TypeOK, driver, local, Tags
<1>7. Tries'
  BY <1>1 DEF TypeInv, Tries, local
<1> QED
  BY <1>6, <1>7 DEF TypeInv

LEMMA TypeInvStep ==
  ASSUME TypeInv, [Next]_vars
  PROVE  TypeInv'
<1>1. CASE UNCHANGED vars
  BY <1>1 DEF TypeInv, TypeOK, Tries, vars, driver, local, memory, card
<1>2. ASSUME NEW d \in Devices, Callback(d) PROVE TypeInv'
  BY <1>2, TypeInvHold, TypeInvPast, TypeInvRemove DEF Callback
<1> QED
  BY <1>1, <1>2, TypeInvModule, TypeInvStart, TypeInvRemove, TypeInvCard DEF Next, Halted

(* The type invariant, of every behaviour: the tries stay in their number, *)
(* the probes in theirs, and what is read is read from a device.           *)
THEOREM TypeCorrect == Spec => []TypeOK
<1>1. TypeInv /\ [Next]_vars => TypeInv'
  BY TypeInvStep
<1> QED
  BY <1>1, TypeInvInit, PTL DEF Spec, TypeInv

-----------------------------------------------------------------------------
(* Nothing but reset_io goes past the end of a memory, and after that      *)
(* nothing moves, so the memory it went past is the one the workers still  *)
(* point into.                                                             *)
RoomInv == undefined = "past the memory" => TooSmall

LEMMA OnlyResetGoesPast ==
  ASSUME TypeInv, NEW d \in Devices, Callback(d), undefined' = "past the memory"
  PROVE  TooSmall'
<1>1. undefined = "no"
  BY DEF Callback
<1>2. ProbeIo(d)
  <2>1. ~Hold(d)
    BY <1>1 DEF Hold, HoldRefused, HoldLookUp, HoldMap, HoldUnmapped, HoldFailed, HoldBuffers,
                InitWorkers
  <2>2. ~Test(d)
    BY <1>1 DEF Test, TestBuffer, TestTag, TestBell, PollAnswered, PollNotYet, TestCopy,
                ReadUnmapped, OnMemory, OnPort
  <2>3. ~RemoveRelease(d)
    BY <1>1 DEF RemoveRelease
  <2>4. ~ProbeReset(d) /\ ~ProbeUnreset(d)
    BY <1>1 DEF ProbeReset, ProbeUnreset, OnPort
  <2> QED
    BY <2>1, <2>2, <2>3, <2>4 DEF Callback, Reset
<1>3. TooSmall
  BY <1>1, <1>2 DEF ProbeIo, OnMemory
<1>4. UNCHANGED <<bars, ctx, mappings>>
  BY <1>2, PastSteps DEF Reset
<1> QED
  BY <1>3, <1>4 DEF TooSmall, Usable, Card

LEMMA RoomStep ==
  ASSUME TypeInv, RoomInv, [Next]_vars
  PROVE  RoomInv'
<1>1. CASE UNCHANGED vars
  BY <1>1 DEF RoomInv, TooSmall, Usable, Card, vars, driver
<1>2. CASE \E d \in Devices : Callback(d)
  BY <1>2, OnlyResetGoesPast DEF RoomInv
<1>3. CASE /\ undefined = "no"
           /\ \/ ModuleInit \/ ModuleExit
              \/ \E d \in Devices : ProbeStart(d) \/ RemoveUnmap(d) \/ CardAnswers(d) \/ CardTags(d)
  BY <1>3 DEF ModuleInit, ModuleExit, ProbeStart, RemoveUnmap, CardAnswers, CardTags, RoomInv
<1> QED
  BY <1>1, <1>2, <1>3 DEF Next, Halted

(* No chip gets into another's memory, and reset_io writes past the end of *)
(* no memory that has room for window and tags (pci-fake/pcidev.c:108-110, *)
(* 176-182, 317-318), whatever the sizes are and whoever rewrites the      *)
(* context meanwhile.                                                      *)
THEOREM RoomForTheChips == Spec => []ChipsHaveRoom
<1>1. Init => RoomInv
  BY DEF Init, RoomInv
<1>2. TypeInv /\ RoomInv => ChipsHaveRoom
  <2>1. SUFFICES ASSUME TypeInv, RoomInv, undefined = "past the memory"
        PROVE  ~Enough(bars[Card].mem)
    BY ChipsNeverOverlap DEF ChipsHaveRoom
  <2>2. Usable /\ ~Fits(bars[Card].mem)
    BY <2>1 DEF RoomInv, TooSmall
  <2>3. Card \in Devices
    BY <2>1, <2>2, CardIsDevice DEF TypeInv
  <2>4. bars[Card].mem \in Nat
    <3>1. bars \in [Devices -> [io : BOOLEAN, mem : Nat]]
      BY <2>1, FakeAssumption DEF TypeInv, TypeOK
    <3>2. bars[Card] \in [io : BOOLEAN, mem : Nat]
      BY <2>3, <3>1
    <3> QED
      BY <3>2
  <2> QED
    BY <2>2, <2>4, EnoughFits
<1>3. TypeInv /\ [Next]_vars => TypeInv'
  BY TypeInvStep
<1>4. TypeInv /\ RoomInv /\ [Next]_vars => RoomInv'
  BY RoomStep
<1> QED
  BY <1>1, <1>2, <1>3, <1>4, TypeInvInit, PTL DEF Spec

-----------------------------------------------------------------------------
(* What has slipped stays on record.                                       *)
LEMMA SlipsStay ==
  ASSUME [Next]_vars
  PROVE  slips \subseteq slips'
<1>1. CASE UNCHANGED vars
  BY <1>1 DEF vars, driver
<1>2. ASSUME NEW d \in Devices, Hold(d) PROVE slips \subseteq slips'
  BY <1>2 DEF Hold, HoldRefused, HoldLookUp, HoldMap, HoldUnmapped, HoldFailed, HoldBuffers,
              InitWorkers, Slip, driver
<1>3. ASSUME NEW d \in Devices, Reset(d) \/ Test(d) PROVE slips \subseteq slips'
  BY <1>3 DEF Reset, Test, ProbeReset, ProbeUnreset, ProbeIo, TestBuffer, TestTag, TestBell,
              PollAnswered, PollNotYet, TestCopy, ReadUnmapped, driver
<1> QED
  BY <1>1, <1>2, <1>3 DEF Next, Callback, Halted, ModuleInit, ModuleExit, ProbeStart, RemoveUnmap,
                          RemoveRelease, Slip, CardAnswers, CardTags, driver

(* Until callbacks overlap: only one device is in a callback, the context  *)
(* is of the device that is being probed, and if that has both BARs the    *)
(* context's ports and memory are its own.                                 *)
Solo ==
  "overlap" \notin slips =>
    /\ \A d, e \in Devices : pc[d] \notin AtRest /\ pc[e] \notin AtRest => d = e
    /\ \A d \in Devices : pc[d] \in InProbe => got = NULL /\ nth[d] = probes /\ ctx.pci_dev = d
    /\ \A d \in Devices : pc[d] \in InProbe \ {"p_hold"} /\ "missing" \notin slips =>
         ctx.port = d /\ ctx.mem = d

LEMMA SoloInit == Init => Solo
BY DEF Init, Solo, AtRest, InProbe, Past

(* A callback that goes on leaves the others where they are.               *)
LEMMA SoloGoes ==
  ASSUME TypeInv, Solo, NEW d \in Devices, NEW l \in Places, Goto(d, l), slips \subseteq slips',
         pc[d] \notin AtRest, UNCHANGED <<nth, probes>>, ctx'.pci_dev = ctx.pci_dev,
         l \in InProbe => got' = got /\ pc[d] \in InProbe,
         "missing" \notin slips' /\ l \in InProbe \ {"p_hold"} =>
            \/ ctx'.port = d /\ ctx'.mem = d
            \/ pc[d] # "p_hold" /\ ctx'.port = ctx.port /\ ctx'.mem = ctx.mem
  PROVE  Solo'
<1>1. SUFFICES ASSUME "overlap" \notin slips' PROVE
        /\ \A a, e \in Devices : pc'[a] \notin AtRest /\ pc'[e] \notin AtRest => a = e
        /\ \A a \in Devices : pc'[a] \in InProbe => got' = NULL /\ nth'[a] = probes' /\ ctx'.pci_dev = a
        /\ \A a \in Devices : pc'[a] \in InProbe \ {"p_hold"} /\ "missing" \notin slips' =>
             ctx'.port = a /\ ctx'.mem = a
  BY DEF Solo
<1>2. "overlap" \notin slips /\ ("missing" \notin slips' => "missing" \notin slips)
  BY <1>1
<1>3. \A e \in Devices : e # d => pc[e] \in AtRest
  BY <1>2 DEF Solo
<1>4. \A e \in Devices : pc'[e] = IF e = d THEN l ELSE pc[e]
  BY Goes DEF TypeInv
<1>5. \A e \in Devices : e # d => pc'[e] \in AtRest /\ pc'[e] \notin InProbe
  BY <1>3, <1>4 DEF AtRest, InProbe, Past
<1>6. l \in InProbe => got' = NULL /\ nth'[d] = probes' /\ ctx'.pci_dev = d
  BY <1>2 DEF Solo
<1>7. l \in InProbe \ {"p_hold"} /\ "missing" \notin slips' => ctx'.port = d /\ ctx'.mem = d
  BY <1>2 DEF Solo
<1> QED
  BY <1>4, <1>5, <1>6, <1>7

LEMMA SoloStep ==
  ASSUME TypeInv, Solo, [Next]_vars
  PROVE  Solo'
<1>1. slips \subseteq slips' /\ ctx \in Context
  BY SlipsStay DEF TypeInv, TypeOK
<1>2. CASE UNCHANGED vars
  BY <1>2 DEF vars, driver, local, Solo
<1>3. CASE ModuleInit \/ ModuleExit
  <2>1. \A d \in Devices : pc'[d] = "unbound"
    BY <1>3 DEF ModuleInit, ModuleExit, TypeInv, Tries
  <2> QED
    BY <2>1 DEF Solo, AtRest, InProbe, Past
<1>4. ASSUME NEW d \in Devices, CardAnswers(d) \/ CardTags(d) PROVE Solo'
  BY <1>4 DEF CardAnswers, CardTags, driver, local, Solo
<1>5. ASSUME NEW d \in Devices, ProbeStart(d) PROVE Solo'
  <2>1. SUFFICES ASSUME "overlap" \notin slips' PROVE
          /\ \A e \in Devices : e # d => pc'[e] \in AtRest
          /\ pc'[d] = "p_hold" /\ got' = NULL /\ nth'[d] = probes' /\ ctx'.pci_dev = d
    BY DEF Solo, AtRest, InProbe, Past
  <2>2. \A e \in Devices : pc'[e] = IF e = d THEN "p_hold" ELSE pc[e]
    <3>1. "p_hold" \in Places /\ Goto(d, "p_hold")
      BY <1>5 DEF ProbeStart, Places, InProbe
    <3> QED
      BY <3>1, Goes DEF TypeInv
  <2>3. \A e \in Devices : e # d => pc[e] \in AtRest
    BY <1>5, <2>1 DEF ProbeStart, Slip, Overlapping, Others
  <2>4. got' = NULL /\ nth'[d] = probes' /\ ctx'.pci_dev = d
    BY <1>1, <1>5 DEF ProbeStart, TypeInv, TypeOK, Context
  <2> QED
    BY <2>2, <2>3, <2>4
<1>6. ASSUME NEW d \in Devices, RemoveUnmap(d) PROVE Solo'
  <2>1. SUFFICES ASSUME "overlap" \notin slips'
                 PROVE  /\ \A e \in Devices : e # d => pc'[e] \in AtRest
                        /\ pc'[d] = "r_release"
    BY DEF Solo, AtRest, InProbe, Past
  <2>2. \A e \in Devices : pc'[e] = IF e = d THEN "r_release" ELSE pc[e]
    <3>1. "r_release" \in Places /\ Goto(d, "r_release")
      BY <1>6 DEF RemoveUnmap, Places
    <3> QED
      BY <3>1, Goes DEF TypeInv
  <2>3. \A e \in Devices : e # d => pc[e] \in AtRest
    BY <1>6, <2>1 DEF RemoveUnmap, Slip, Overlapping, Others
  <2> QED
    BY <2>2, <2>3
<1>7. ASSUME NEW d \in Devices, RemoveRelease(d) PROVE Solo'
  <2>1. Goto(d, "unbound") /\ "unbound" \in Places /\ "unbound" \notin InProbe /\ pc[d] \notin AtRest
    BY <1>7 DEF RemoveRelease, Places, AtRest, InProbe, Past
  <2> QED
    BY <1>1, <1>7, <2>1, SoloGoes DEF RemoveRelease, local
<1>8. ASSUME NEW d \in Devices, Reset(d) \/ Test(d) PROVE Solo'
  <2>1. PICK l \in Past \cup {"bound"} : Goto(d, l)
    BY <1>8, PastSteps
  <2>2. /\ UNCHANGED <<ctx, slips, nth, probes>> /\ pc[d] \in InProbe /\ pc[d] # "p_hold"
        /\ pc[d] \notin AtRest /\ l \in Places
    BY <1>8, PastSteps DEF InProbe, Past, AtRest, Places
  <2>3. l \in InProbe => got' = got
    <3>1. CASE TestCopy(d)
      <4>1. Goto(d, "bound") /\ "bound" \in Places
        BY <3>1 DEF TestCopy, Places, AtRest
      <4>2. l = "bound"
        BY <2>1, <2>2, <4>1, Goes DEF TypeInv
      <4> QED
        BY <4>2 DEF InProbe, Past
    <3> QED
      BY <1>8, <3>1 DEF Reset, Test, ProbeReset, ProbeUnreset, ProbeIo, TestBuffer, TestTag,
                        TestBell, PollAnswered, PollNotYet, ReadUnmapped, local
  <2> QED
    BY <1>1, <2>1, <2>2, <2>3, SoloGoes
<1>9. ASSUME NEW d \in Devices, Hold(d) PROVE Solo'
  <2>1. /\ pc[d] \in InProbe /\ pc[d] \notin AtRest /\ UNCHANGED <<nth, probes, got>>
        /\ ctx'.pci_dev = ctx.pci_dev
    BY <1>1, <1>9 DEF Hold, HoldRefused, HoldLookUp, HoldMap, HoldUnmapped, HoldFailed, HoldBuffers,
         InitWorkers, InProbe, Past, AtRest, local, driver, Context
  <2>2. PICK l \in {"unbound", "p_map", "p_base", "p_workers", "p_reset"} :
               Goto(d, l) /\ (HoldRefused(d) => l = "unbound")
    BY <1>9 DEF Hold, HoldRefused, HoldLookUp, HoldMap, HoldUnmapped, HoldFailed, HoldBuffers,
         InitWorkers
  <2>3. l \in Places
    BY <2>2 DEF Places, AtRest, InProbe, Past
  <2>4. CASE HoldRefused(d)
    BY <1>1, <2>1, <2>2, <2>3, <2>4, SoloGoes DEF InProbe, Past
  <2>5. CASE HoldLookUp(d)
    <3>1. "missing" \notin slips' => ctx'.port = d /\ ctx'.mem = d
      BY <1>1, <2>5 DEF HoldLookUp, Slip, Context
    <3> QED
      BY <1>1, <2>1, <2>2, <2>3, <3>1, SoloGoes
  <2>6. CASE ~HoldRefused(d) /\ ~HoldLookUp(d)
    <3>1. pc[d] # "p_hold" /\ ctx'.port = ctx.port /\ ctx'.mem = ctx.mem
      BY <1>1, <1>9, <2>6 DEF Hold, HoldMap, HoldUnmapped, HoldFailed, HoldBuffers, InitWorkers,
                              driver, Context
    <3> QED
      BY <1>1, <2>1, <2>2, <2>3, <3>1, SoloGoes
  <2> QED
    BY <2>4, <2>5, <2>6
<1> QED
  BY <1>2, <1>3, <1>4, <1>5, <1>6, <1>7, <1>8, <1>9 DEF Next, Callback, Halted

(* While one device is in a callback, the others are at rest.              *)
LEMMA OthersRest ==
  ASSUME Solo, "overlap" \notin slips, NEW d \in Devices, pc[d] \notin AtRest
  PROVE  \A e \in Devices : e # d => pc[e] \in AtRest
BY DEF Solo

-----------------------------------------------------------------------------
(* Until a device is probed beside a bound one, callbacks overlap, or a    *)
(* BAR is missing, at most one device is in the driver's hands.  From the  *)
(* ioremap on it has its regions and its memory, which the context points  *)
(* into, or, when ioremap failed, nothing is mapped at all; before and     *)
(* after there is nothing.                                                 *)
With(d) == /\ regions = {d} /\ mappings = {ctx.base}
           /\ ctx.base # NULL /\ ctx.base.dev = d
Without == regions = {} /\ mappings = {} /\ ctx.base = NULL /\ "unmapped" \in slips

HasMemory(d) ==
  /\ pc[d] # "unbound" => ctx.pci_dev = d
  /\ pc[d] = "p_hold" => regions = {} /\ mappings = {}
  /\ pc[d] = "p_map" => regions = {d} /\ mappings = {}
  /\ pc[d] = "p_base" => \/ With(d)
                         \/ regions = {d} /\ mappings = {} /\ ctx.base = NULL /\ "unmapped" \in slips
  /\ pc[d] = "p_workers" => (With(d) /\ ctx.buffers = ctx.base) \/ Without
  /\ pc[d] \in Past \cup {"bound"} => (With(d) /\ ctx.workers = ctx.base) \/ Without
  /\ pc[d] = "r_release" => regions \subseteq {d} /\ mappings = {}

OneInHand ==
  /\ \A d, e \in Devices : pc[d] # "unbound" /\ pc[e] # "unbound" => d = e
  /\ \A d \in Devices : HasMemory(d)
  /\ (\A d \in Devices : pc[d] = "unbound") => regions = {} /\ mappings = {}

Undisturbed == {"shared", "overlap", "missing"} \cap slips = {}

Unshared == Undisturbed => OneInHand

LEMMA UnsharedInit == Init => Unshared
BY DEF Init, Unshared, OneInHand, HasMemory, Past

LEMMA HandGoes ==
  ASSUME TypeInv, OneInHand, NEW d \in Devices, NEW l \in Places, Goto(d, l),
         pc[d] # "unbound", l # "unbound", HasMemory(d)'
  PROVE  OneInHand'
<1>1. \A e \in Devices : pc'[e] = IF e = d THEN l ELSE pc[e]
  BY Goes DEF TypeInv
<1>2. \A e \in Devices : e # d => pc'[e] = "unbound"
  BY <1>1 DEF OneInHand
<1>3. \A e \in Devices : HasMemory(e)'
  BY <1>2 DEF HasMemory, Past
<1>4. pc'[d] # "unbound"
  BY <1>1
<1> QED
  BY <1>2, <1>3, <1>4 DEF OneInHand

LEMMA HandEnds ==
  ASSUME TypeInv, OneInHand, NEW d \in Devices, Goto(d, "unbound"), pc[d] # "unbound",
         regions' = {}, mappings' = {}
  PROVE  OneInHand'
<1>1. \A e \in Devices : pc'[e] = IF e = d THEN "unbound" ELSE pc[e]
  BY Goes DEF TypeInv, Places, AtRest
<1>2. \A e \in Devices : pc'[e] = "unbound"
  BY <1>1 DEF OneInHand
<1> QED
  BY <1>2 DEF OneInHand, HasMemory, Past

LEMMA UnsharedHold ==
  ASSUME TypeInv, Solo, OneInHand, NEW d \in Devices, Hold(d), slips \subseteq slips',
         "overlap" \notin slips, "missing" \notin slips
  PROVE  OneInHand'
<1>1. ctx \in Context /\ HasMemory(d)
  BY DEF TypeInv, TypeOK, OneInHand
<1>2. CASE HoldRefused(d)
  <2>1. pc[d] = "p_hold" /\ Goto(d, "unbound") /\ UNCHANGED <<regions, mappings>>
    BY <1>2 DEF HoldRefused, driver
  <2> QED
    BY <1>1, <2>1, HandEnds DEF HasMemory
<1>3. CASE HoldLookUp(d)
  <2>1. /\ pc[d] = "p_hold" /\ Goto(d, "p_map") /\ "p_map" \in Places
        /\ regions' = regions \cup {d} /\ mappings' = mappings
    BY <1>3 DEF HoldLookUp, Places, InProbe
  <2>2. ctx'.pci_dev = ctx.pci_dev
    BY <1>1, <1>3 DEF HoldLookUp, Context
  <2>3. pc'[d] = "p_map"
    BY <2>1, Goes DEF TypeInv
  <2>4. HasMemory(d)'
    BY <1>1, <2>1, <2>2, <2>3 DEF HasMemory, Past
  <2> QED
    BY <2>1, <2>4, HandGoes
<1>4. CASE HoldMap(d)
  <2> DEFINE m == [dev |-> ctx.mem, nth |-> nth[d]]
  <2>1. /\ pc[d] = "p_map" /\ Goto(d, "p_base") /\ "p_base" \in Places
        /\ regions' = regions /\ mappings' = mappings \cup {m} /\ ctx' = [ctx EXCEPT !.base = m]
    BY <1>4 DEF HoldMap, Places, InProbe
  <2>2. ctx.mem = d /\ m.dev = ctx.mem /\ m \in Mapping
    BY <2>1 DEF Solo, InProbe, Mapping, TypeInv, TypeOK
  <2> HIDE DEF m
  <2>3. ctx'.pci_dev = ctx.pci_dev /\ ctx'.base = m
    BY <1>1, <2>1 DEF Context
  <2>4. pc'[d] = "p_base" /\ m # NULL
    BY <2>1, <2>2, Goes, NullIsNone DEF TypeInv
  <2>5. HasMemory(d)'
    BY <1>1, <2>1, <2>2, <2>3, <2>4 DEF HasMemory, With, Past
  <2> QED
    BY <2>1, <2>5, HandGoes
<1>5. CASE HoldUnmapped(d)
  <2>1. /\ pc[d] = "p_map" /\ Goto(d, "p_base") /\ "p_base" \in Places
        /\ regions' = regions /\ mappings' = mappings /\ "unmapped" \in slips'
    BY <1>5 DEF HoldUnmapped, Slip, Places, InProbe
  <2>2. ctx'.pci_dev = ctx.pci_dev /\ ctx'.base = NULL
    BY <1>1, <1>5 DEF HoldUnmapped, Context
  <2>3. pc'[d] = "p_base"
    BY <2>1, Goes DEF TypeInv
  <2>4. HasMemory(d)'
    BY <1>1, <2>1, <2>2, <2>3 DEF HasMemory, Past
  <2> QED
    BY <2>1, <2>4, HandGoes
<1>6. CASE HoldFailed(d)
  <2>1. /\ pc[d] = "p_base" /\ Goto(d, "p_workers") /\ "p_workers" \in Places
        /\ regions' = regions \ {d} /\ UNCHANGED <<ctx, mappings, slips>> /\ ctx.base = NULL
    BY <1>6 DEF HoldFailed, Places, InProbe
  <2>2. pc'[d] = "p_workers"
    BY <2>1, Goes DEF TypeInv
  <2>3. regions = {d} /\ mappings = {} /\ "unmapped" \in slips
    BY <1>1, <2>1 DEF HasMemory, With
  <2>4. HasMemory(d)'
    BY <1>1, <2>1, <2>2, <2>3 DEF HasMemory, Without, Past
  <2> QED
    BY <2>1, <2>4, HandGoes
<1>7. CASE HoldBuffers(d)
  <2>1. /\ pc[d] = "p_base" /\ Goto(d, "p_workers") /\ "p_workers" \in Places
        /\ UNCHANGED <<regions, mappings>> /\ ctx.base # NULL
    BY <1>7 DEF HoldBuffers, Places, InProbe
  <2>2. /\ ctx'.pci_dev = ctx.pci_dev /\ ctx'.base = ctx.base /\ ctx'.buffers = ctx.base
    BY <1>1, <1>7 DEF HoldBuffers, Context
  <2>3. pc'[d] = "p_workers"
    BY <2>1, Goes DEF TypeInv
  <2>4. HasMemory(d)'
    BY <1>1, <2>1, <2>2, <2>3 DEF HasMemory, With, Past
  <2> QED
    BY <2>1, <2>4, HandGoes
<1>8. CASE InitWorkers(d)
  <2>1. /\ pc[d] = "p_workers" /\ Goto(d, "p_reset") /\ "p_reset" \in Places
        /\ UNCHANGED <<regions, mappings, slips>>
    BY <1>8 DEF InitWorkers, Places, InProbe, Past
  <2>2. /\ ctx'.pci_dev = ctx.pci_dev /\ ctx'.base = ctx.base /\ ctx'.workers = ctx.buffers
    BY <1>1, <1>8 DEF InitWorkers, Context
  <2>3. pc'[d] = "p_reset"
    BY <2>1, Goes DEF TypeInv
  <2>4. HasMemory(d)'
    BY <1>1, <2>1, <2>2, <2>3 DEF HasMemory, With, Without, Past
  <2> QED
    BY <2>1, <2>4, HandGoes
<1> QED
  BY <1>2, <1>3, <1>4, <1>5, <1>6, <1>7, <1>8 DEF Hold

LEMMA UnsharedPast ==
  ASSUME TypeInv, OneInHand, NEW d \in Devices, Reset(d) \/ Test(d)
  PROVE  OneInHand'
<1>1. UNCHANGED <<ctx, regions, mappings, slips>> /\ pc[d] \in Past /\ pc[d] # "unbound"
  BY PastSteps DEF Past
<1>2. PICK l \in Past \cup {"bound"} : Goto(d, l)
  BY PastSteps
<1>3. l \in Places /\ l # "unbound"
  BY DEF Places, AtRest, InProbe, Past
<1>4. pc'[d] = l
  BY <1>2, <1>3, Goes DEF TypeInv
<1>5. ctx.pci_dev = d /\ ((With(d) /\ ctx.workers = ctx.base) \/ Without)
  BY <1>1 DEF OneInHand, HasMemory
<1>6. HasMemory(d)'
  BY <1>1, <1>4, <1>5 DEF HasMemory, With, Without, Past
<1> QED
  BY <1>1, <1>2, <1>3, <1>6, HandGoes

LEMMA UnsharedRemove ==
  ASSUME TypeInv, OneInHand, NEW d \in Devices, RemoveUnmap(d) \/ RemoveRelease(d)
  PROVE  OneInHand'
<1>1. CASE RemoveUnmap(d)
  <2>1. /\ pc[d] = "bound" /\ Goto(d, "r_release") /\ "r_release" \in Places
        /\ UNCHANGED <<ctx, regions>> /\ mappings' = mappings \ {ctx.base}
    BY <1>1 DEF RemoveUnmap, Places
  <2>2. pc'[d] = "r_release"
    BY <2>1, Goes DEF TypeInv
  <2>3. HasMemory(d)'
    BY <2>1, <2>2 DEF OneInHand, HasMemory, With, Without, Past
  <2> QED
    BY <2>1, <2>3, HandGoes
<1>2. CASE RemoveRelease(d)
  <2>1. /\ pc[d] = "r_release" /\ Goto(d, "unbound")
        /\ regions' = regions \ {ctx.pci_dev} /\ mappings' = mappings
    BY <1>2 DEF RemoveRelease
  <2>2. ctx.pci_dev = d /\ regions \subseteq {d} /\ mappings = {}
    BY <2>1 DEF OneInHand, HasMemory
  <2> QED
    BY <2>1, <2>2, HandEnds
<1> QED
  BY <1>1, <1>2

LEMMA UnsharedStep ==
  ASSUME TypeInv, Solo, Unshared, [Next]_vars
  PROVE  Unshared'
<1>1. SUFFICES ASSUME Undisturbed' PROVE OneInHand'
  BY DEF Unshared
<1>2. slips \subseteq slips'
  BY SlipsStay
<1>3. OneInHand /\ "overlap" \notin slips /\ "missing" \notin slips
  BY <1>1, <1>2 DEF Unshared, Undisturbed
<1>4. CASE UNCHANGED <<pc, ctx, regions, mappings, slips>>
  BY <1>3, <1>4 DEF OneInHand, HasMemory, With, Without
<1>5. CASE UNCHANGED vars
  BY <1>4, <1>5 DEF vars, driver
<1>6. CASE ModuleInit
  <2>1. \A d \in Devices : pc'[d] = "unbound"
    BY <1>6 DEF ModuleInit, TypeInv, Tries
  <2>2. UNCHANGED <<pc, regions, mappings>>
    BY <1>6 DEF ModuleInit
  <2> QED
    BY <1>3, <2>1, <2>2 DEF OneInHand, HasMemory, Past
<1>7. CASE ModuleExit
  BY <1>4, <1>7 DEF ModuleExit, driver
<1>8. ASSUME NEW d \in Devices, ProbeStart(d) PROVE OneInHand'
  <2>1. \A e \in Devices : pc[e] = "unbound"
    BY <1>1, <1>8 DEF ProbeStart, Slip, Overlapping, Sharing, Others, AtRest, Undisturbed
  <2>2. \A e \in Devices : pc'[e] = IF e = d THEN "p_hold" ELSE "unbound"
    BY <1>8, <2>1 DEF ProbeStart, Goto, TypeInv, TypeOK
  <2>3. regions' = {} /\ mappings' = {}
    BY <1>3, <1>8, <2>1 DEF ProbeStart, OneInHand
  <2>4. ctx'.pci_dev = d
    BY <1>8 DEF ProbeStart, TypeInv, TypeOK, Context
  <2> QED
    BY <2>2, <2>3, <2>4 DEF OneInHand, HasMemory, Past
<1>9. ASSUME NEW d \in Devices, CardAnswers(d) \/ CardTags(d) PROVE OneInHand'
  BY <1>4, <1>9 DEF CardAnswers, CardTags, driver
<1>10. ASSUME NEW d \in Devices, Callback(d) PROVE OneInHand'
  BY <1>2, <1>3, <1>10, UnsharedHold, UnsharedPast, UnsharedRemove DEF Callback
<1> QED
  BY <1>3, <1>5, <1>6, <1>7, <1>8, <1>9, <1>10, UnsharedRemove DEF Next, Halted

(* While nothing has slipped, a device in the driver's hands is mapped.    *)
LEMMA HeldIsMapped ==
  ASSUME Unshared, slips = {}, NEW d \in Devices, pc[d] \in Past \cup {"bound"}
  PROVE  With(d) /\ ctx.workers = ctx.base
BY DEF Unshared, Undisturbed, OneInHand, HasMemory, Without

LEMMA UndefinedStep ==
  ASSUME TypeInv, Solo, Unshared, UndefinedOnlyAfterSlip, [Next]_vars
  PROVE  UndefinedOnlyAfterSlip'
<1>1. SUFFICES ASSUME undefined' \in {"unmapped memory", "unmapped twice", "port 0"}, slips' = {}
               PROVE  FALSE
  BY DEF UndefinedOnlyAfterSlip
<1>2. slips = {}
  BY <1>1, SlipsStay
<1>3. undefined = "no" /\ undefined' # undefined
  BY <1>1, <1>2 DEF UndefinedOnlyAfterSlip, Next, Callback, Halted, vars
<1>4. CASE ModuleInit \/ ModuleExit \/ \E d \in Devices : ProbeStart(d) \/ CardAnswers(d) \/ CardTags(d)
  BY <1>3, <1>4 DEF ModuleInit, ModuleExit, ProbeStart, CardAnswers, CardTags
<1>5. ASSUME NEW d \in Devices, RemoveUnmap(d) \/ RemoveRelease(d) PROVE FALSE
  <2>1. RemoveUnmap(d) /\ pc[d] \in Past \cup {"bound"}
    BY <1>3, <1>5 DEF RemoveUnmap, RemoveRelease
  <2>2. ctx.base \in mappings
    BY <1>2, <2>1, HeldIsMapped DEF With
  <2> QED
    BY <1>3, <2>1, <2>2 DEF RemoveUnmap
<1>6. ASSUME NEW d \in Devices, Hold(d) PROVE FALSE
  <2>1. HoldBuffers(d)
    BY <1>3, <1>6 DEF Hold, HoldRefused, HoldLookUp, HoldMap, HoldUnmapped, HoldFailed, InitWorkers
  <2>2. With(d)
    BY <1>2, <2>1 DEF HoldBuffers, Unshared, Undisturbed, OneInHand, HasMemory
  <2> QED
    BY <1>3, <2>1, <2>2 DEF HoldBuffers, With
<1>7. ASSUME NEW d \in Devices, Reset(d) \/ Test(d) PROVE FALSE
  <2>1. pc[d] \in Past
    BY <1>7, PastSteps
  <2>2. Usable
    BY <1>2, <2>1, HeldIsMapped DEF With, Usable
  <2>3. ctx.port # NULL
    <3>1. ctx.port = d
      BY <1>2, <2>1 DEF Solo, InProbe, Past
    <3> QED
      BY <3>1, NullIsNone
  <2> QED
    BY <1>1, <1>3, <1>7, <2>2, <2>3 DEF Reset, Test, ProbeReset, ProbeUnreset, ProbeIo, TestBuffer, TestTag,
       TestBell, PollAnswered, PollNotYet, TestCopy, ReadUnmapped, OnMemory, OnPort
<1> QED
  BY <1>3, <1>4, <1>5, <1>6, <1>7 DEF Next, Callback, Halted, vars

LEMMA UnsharedAlways == Spec => [](TypeInv /\ Solo /\ Unshared)
<1>1. TypeInv /\ [Next]_vars => TypeInv'
  BY TypeInvStep
<1>2. TypeInv /\ Solo /\ [Next]_vars => Solo'
  BY SoloStep
<1>3. TypeInv /\ Solo /\ Unshared /\ [Next]_vars => Unshared'
  BY UnsharedStep
<1> QED
  BY <1>1, <1>2, <1>3, TypeInvInit, SoloInit, UnsharedInit, PTL DEF Spec

(* While no device is probed beside a bound one, no callbacks overlap, no  *)
(* BAR is missing and ioremap does not fail, a bound device has its        *)
(* regions and the memory the workers point into, and one that is not      *)
(* bound holds nothing (pci-fake/pcidev.c:492, 519).                       *)
THEOREM BoundIsHeld == Spec => []HeldWhileBound
<1>1. TypeInv /\ Unshared => HeldWhileBound
  <2>1. SUFFICES ASSUME TypeInv, Unshared, slips = {}, NEW d \in Devices
                 PROVE  /\ pc[d] = "bound" => d \in regions /\ Usable /\ Card = d
                        /\ pc[d] = "unbound" => d \notin regions /\ \A m \in mappings : m.dev # d
    BY DEF HeldWhileBound
  <2>2. pc[d] = "bound" => d \in regions /\ Usable /\ Card = d
    BY <2>1, HeldIsMapped DEF With, Usable, Card
  <2>3. ASSUME pc[d] = "unbound"
        PROVE  d \notin regions /\ \A m \in mappings : m.dev # d
    <3>1. OneInHand
      BY <2>1 DEF Unshared, Undisturbed
    <3>2. CASE \A e \in Devices : pc[e] = "unbound"
      BY <3>1, <3>2 DEF OneInHand
    <3>3. ASSUME NEW e \in Devices, pc[e] # "unbound"
          PROVE  d \notin regions /\ \A m \in mappings : m.dev # d
      <4>1. e # d /\ HasMemory(e) /\ pc[e] \in Places
        BY <2>1, <2>3, <3>1, <3>3 DEF OneInHand, TypeInv, TypeOK, Places, InProbe, Past
      <4>2. regions \subseteq {e} /\ (mappings = {} \/ With(e))
        BY <3>3, <4>1 DEF HasMemory, With, Without, Places, InProbe, AtRest
      <4> QED
        BY <4>1, <4>2 DEF With
    <3> QED
      BY <3>2, <3>3
  <2> QED
    BY <2>2, <2>3
<1> QED
  BY <1>1, UnsharedAlways, PTL

(* Memory is used unmapped, or unmapped twice, or port 0 is written, only  *)
(* after one of the four, however callbacks, loads and the card follow one *)
(* another.                                                                *)
THEOREM SlipsExplainIt == Spec => []UndefinedOnlyAfterSlip
<1>1. Init => UndefinedOnlyAfterSlip
  BY DEF Init, UndefinedOnlyAfterSlip
<1>2. TypeInv /\ Solo /\ Unshared /\ UndefinedOnlyAfterSlip /\ [Next]_vars => UndefinedOnlyAfterSlip'
  BY UndefinedStep
<1> QED
  BY <1>1, <1>2, UnsharedAlways, PTL DEF Spec

-----------------------------------------------------------------------------
(* Chip 0 is a mailbox                                                     *)

(* As long as ioremap does not fail either, a probe works on the memory of *)
(* its own device, whoever else has the context.                           *)
Mapped(d) ==
  /\ pc[d] = "p_base" => ctx.base \in mappings /\ ctx.base.dev = d
  /\ pc[d] = "p_workers" => ctx.buffers \in mappings /\ ctx.buffers.dev = d
  /\ pc[d] \in Past => Usable /\ Card = d

AllMapped ==
  {"unmapped", "overlap", "missing"} \cap slips = {} => \A d \in Devices : Mapped(d)

(* What passes between the driver and the card of a device in probe: after *)
(* the reset the card is idle, it is rung for the request that probe wrote *)
(* and no other, and while it has not answered that the tag is its         *)
(* request's.                                                              *)
Chat(d) ==
  /\ pc[d] \in {"p_unreset", "p_io", "p_buffer", "p_tag", "p_bell"} => work[d][1] = "idle"
  /\ pc[d] \in {"p_io", "p_buffer", "p_tag", "p_bell"} => ~in_reset[d]
  /\ pc[d] \in {"p_tag", "p_bell"} => buf[d] = <<"request", nth[d]>>
  /\ pc[d] = "p_bell" => tag[d] = "write"
  /\ pc[d] = "p_poll" =>
       /\ work[d][1] # "idle" => work[d][2] = nth[d] /\ tag[d] = "write"
       /\ work[d][1] # "working" => buf[d] = <<"answer", nth[d]>>
  /\ pc[d] = "p_copy" => work[d][1] = "idle" /\ buf[d] = <<"answer", nth[d]>>

Chats == Sound => \A d \in Devices : Chat(d)

LEMMA MappedInit == Init => AllMapped /\ Chats
BY DEF Init, AllMapped, Mapped, Chats, Chat, Past

(* What is not sound any more does not become so.                          *)
LEMMA SoundBefore ==
  ASSUME [Next]_vars, Sound'
  PROVE  Sound
<1>1. slips \subseteq slips' /\ undefined' = "no"
  BY SlipsStay DEF Sound
<1>2. undefined = "no"
  BY <1>1 DEF Next, Callback, Halted, vars
<1> QED
  BY <1>1, <1>2 DEF Sound

LEMMA MappedGoes ==
  ASSUME TypeInv, Solo, "overlap" \notin slips, NEW d \in Devices, pc[d] \notin AtRest,
         NEW l \in Places, Goto(d, l), Mapped(d)', NEW e \in Devices
  PROVE  Mapped(e)'
<1>1. e # d => pc'[e] \in AtRest
  BY OthersRest, Goes DEF TypeInv
<1> QED
  BY <1>1 DEF Mapped, AtRest, Past

LEMMA MappedHold ==
  ASSUME TypeInv, Solo, NEW d \in Devices, Hold(d), Mapped(d), NEW e \in Devices,
         {"unmapped", "overlap", "missing"} \cap slips = {},
         "unmapped" \notin slips'
  PROVE  Mapped(e)'
<1>1. ctx \in Context /\ "overlap" \notin slips /\ pc[d] \in Places
  BY DEF TypeInv, TypeOK, Places, InProbe, Past
<1>2. CASE HoldRefused(d)
  <2>1. Goto(d, "unbound") /\ pc[d] \notin AtRest /\ "unbound" \in Places
    BY <1>2 DEF HoldRefused, AtRest, Places
  <2>2. pc'[d] = "unbound"
    BY <2>1, Goes DEF TypeInv
  <2>3. Mapped(d)'
    BY <2>2 DEF Mapped, Past
  <2> QED
    BY <1>1, <2>1, <2>3, MappedGoes
<1>3. CASE HoldLookUp(d)
  <2>1. Goto(d, "p_map") /\ pc[d] \notin AtRest /\ "p_map" \in Places
    BY <1>3 DEF HoldLookUp, AtRest, Places, InProbe
  <2>2. pc'[d] = "p_map"
    BY <2>1, Goes DEF TypeInv
  <2>3. Mapped(d)'
    BY <2>2 DEF Mapped, Past
  <2> QED
    BY <1>1, <2>1, <2>3, MappedGoes
<1>4. CASE HoldMap(d)
  <2> DEFINE m == [dev |-> ctx.mem, nth |-> nth[d]]
  <2>1. /\ pc[d] = "p_map" /\ Goto(d, "p_base") /\ "p_base" \in Places /\ pc[d] \notin AtRest
        /\ mappings' = mappings \cup {m} /\ ctx' = [ctx EXCEPT !.base = m] /\ m.dev = ctx.mem
    BY <1>4 DEF HoldMap, AtRest, Places, InProbe
  <2>2. ctx.mem = d
    BY <2>1 DEF Solo, InProbe
  <2> HIDE DEF m
  <2>3. ctx'.base = m /\ pc'[d] = "p_base"
    BY <1>1, <2>1, Goes DEF Context, TypeInv
  <2>4. Mapped(d)'
    BY <2>1, <2>2, <2>3 DEF Mapped, Past
  <2> QED
    BY <1>1, <2>1, <2>4, MappedGoes
<1>5. CASE HoldUnmapped(d)
  BY <1>5 DEF HoldUnmapped, Slip
<1>6. CASE HoldFailed(d)
  <2>1. ctx.base \in Mapping
    BY <1>6 DEF HoldFailed, Mapped, TypeInv, TypeOK
  <2> QED
    BY <1>6, <2>1, NullIsNone DEF HoldFailed
<1>7. CASE HoldBuffers(d)
  <2>1. /\ pc[d] = "p_base" /\ Goto(d, "p_workers") /\ "p_workers" \in Places
        /\ pc[d] \notin AtRest /\ mappings' = mappings
    BY <1>7 DEF HoldBuffers, AtRest, Places, InProbe
  <2>2. ctx'.buffers = ctx.base
    BY <1>1, <1>7 DEF HoldBuffers, Context
  <2>3. pc'[d] = "p_workers"
    BY <2>1, Goes DEF TypeInv
  <2>4. Mapped(d)'
    BY <2>1, <2>2, <2>3 DEF Mapped, Past
  <2> QED
    BY <1>1, <2>1, <2>4, MappedGoes
<1>8. CASE InitWorkers(d)
  <2>1. /\ pc[d] = "p_workers" /\ Goto(d, "p_reset") /\ "p_reset" \in Places
        /\ pc[d] \notin AtRest /\ mappings' = mappings
    BY <1>8 DEF InitWorkers, AtRest, Places, InProbe, Past
  <2>2. ctx'.workers = ctx.buffers
    BY <1>1, <1>8 DEF InitWorkers, Context
  <2>3. pc'[d] = "p_reset"
    BY <2>1, Goes DEF TypeInv
  <2>4. Mapped(d)'
    BY <2>1, <2>2, <2>3 DEF Mapped, Past, Usable, Card
  <2> QED
    BY <1>1, <2>1, <2>4, MappedGoes
<1> QED
  BY <1>2, <1>3, <1>4, <1>5, <1>6, <1>7, <1>8 DEF Hold

(* The other device is at rest when one begins a callback that is no       *)
(* overlap.                                                                *)
LEMMA Begins ==
  ASSUME TypeInv, NEW d \in Devices, ProbeStart(d) \/ RemoveUnmap(d), "overlap" \notin slips'
  PROVE  /\ \A e \in Devices : pc[e] \in AtRest
         /\ \A e \in Devices : pc'[e] \in AtRest \cup {"p_hold", "r_release"}
<1>1. \A e \in Devices : pc[e] \in AtRest
  BY DEF ProbeStart, RemoveUnmap, Slip, Overlapping, Others, AtRest
<1>2. PICK l \in {"p_hold", "r_release"} : Goto(d, l)
  BY DEF ProbeStart, RemoveUnmap
<1>3. l \in Places
  BY DEF Places, InProbe
<1>4. \A e \in Devices : pc'[e] = IF e = d THEN l ELSE pc[e]
  BY <1>2, <1>3, Goes DEF TypeInv
<1> QED
  BY <1>1, <1>4

LEMMA MappedStep ==
  ASSUME TypeInv, Solo, AllMapped, [Next]_vars
  PROVE  AllMapped'
<1>1. SUFFICES ASSUME {"unmapped", "overlap", "missing"} \cap slips' = {}, NEW e \in Devices
               PROVE  Mapped(e)'
  BY DEF AllMapped
<1>2. /\ {"unmapped", "overlap", "missing"} \cap slips = {} /\ \A d \in Devices : Mapped(d)
      /\ "unmapped" \notin slips' /\ "overlap" \notin slips'
  BY <1>1, SlipsStay DEF AllMapped
<1>3. CASE UNCHANGED <<pc, ctx, mappings>>
  BY <1>2, <1>3 DEF Mapped, Usable, Card
<1>4. CASE UNCHANGED vars
  BY <1>3, <1>4 DEF vars, driver
<1>5. CASE ModuleInit
  BY <1>5 DEF ModuleInit, TypeInv, Tries, Mapped, Past
<1>6. CASE ModuleExit
  BY <1>3, <1>6 DEF ModuleExit, driver
<1>7. ASSUME NEW d \in Devices, CardAnswers(d) \/ CardTags(d) PROVE Mapped(e)'
  BY <1>3, <1>7 DEF CardAnswers, CardTags, driver
<1>8. ASSUME NEW d \in Devices, ProbeStart(d) \/ RemoveUnmap(d) PROVE Mapped(e)'
  <2>1. pc'[e] \in AtRest \cup {"p_hold", "r_release"}
    BY <1>2, <1>8, Begins
  <2> QED
    BY <2>1 DEF Mapped, AtRest, Past
<1>9. ASSUME NEW d \in Devices, RemoveRelease(d) PROVE Mapped(e)'
  <2>1. Goto(d, "unbound") /\ pc[d] \notin AtRest /\ "unbound" \in Places
    BY <1>9 DEF RemoveRelease, AtRest, Places
  <2>2. pc'[d] = "unbound"
    BY <2>1, Goes DEF TypeInv
  <2>3. Mapped(d)'
    BY <2>2 DEF Mapped, Past
  <2> QED
    BY <1>2, <2>1, <2>3, MappedGoes
<1>10. ASSUME NEW d \in Devices, Reset(d) \/ Test(d) PROVE Mapped(e)'
  <2>1. UNCHANGED <<ctx, mappings>> /\ pc[d] \in Past /\ pc[d] \notin AtRest
    BY <1>10, PastSteps DEF Past, AtRest
  <2>2. PICK l \in Past \cup {"bound"} : Goto(d, l)
    BY <1>10, PastSteps
  <2>3. l \in Places
    BY DEF Places, AtRest, InProbe
  <2>4. pc'[d] = l
    BY <2>2, <2>3, Goes DEF TypeInv
  <2>5. Usable /\ Card = d
    BY <1>2, <2>1 DEF Mapped
  <2>6. Mapped(d)'
    BY <2>1, <2>4, <2>5 DEF Mapped, Usable, Card, Past
  <2> QED
    BY <1>2, <2>1, <2>2, <2>3, <2>6, MappedGoes
<1>11. ASSUME NEW d \in Devices, Callback(d) PROVE Mapped(e)'
  BY <1>2, <1>9, <1>10, <1>11, MappedHold DEF Callback
<1> QED
  BY <1>4, <1>5, <1>6, <1>7, <1>8, <1>11 DEF Next, Halted

(* So the memory is its own as long as at most one of the two has slipped, *)
(* and the ports are.                                                      *)
LEMMA CardIsOwn ==
  ASSUME Solo, Unshared, AllMapped, Sound, NEW d \in Devices, pc[d] \in Past
  PROVE  ctx.port = d /\ (Usable => Card = d)
<1>1. ctx.port = d
  BY DEF Solo, Sound, InProbe, Past
<1>2. CASE "unmapped" \notin slips
  <2>1. Mapped(d)
    BY <1>2 DEF AllMapped, Sound
  <2> QED
    BY <1>1, <2>1 DEF Mapped
<1>3. CASE "shared" \notin slips
  <2>1. HasMemory(d)
    BY <1>3 DEF Unshared, Undisturbed, Sound, OneInHand
  <2> QED
    BY <1>1, <2>1 DEF HasMemory, With, Without, Usable, Card
<1> QED
  BY <1>2, <1>3 DEF Sound

(* A step that leaves alone all that passes between the two.               *)
LEMMA ChatKept ==
  ASSUME NEW d \in Devices, Chat(d), nth'[d] = nth[d], pc'[d] = pc[d], work'[d] = work[d],
         in_reset'[d] = in_reset[d], buf'[d] = buf[d], tag'[d] = tag[d]
  PROVE  Chat(d)'
BY DEF Chat

(* A device at rest, or before its reset, has nothing to say.              *)
Silent == AtRest \cup {"p_hold", "p_map", "p_base", "p_workers", "p_reset", "r_release"}

LEMMA ChatSilent ==
  ASSUME NEW d, pc'[d] \in Silent
  PROVE  Chat(d)'
BY DEF Chat, Silent, AtRest

LEMMA ChatCard ==
  ASSUME TypeInv, \A d \in Devices : Chat(d), NEW e \in Devices, CardAnswers(e) \/ CardTags(e),
         NEW d \in Devices
  PROVE  Chat(d)'
<1>1. UNCHANGED <<pc, nth, in_reset>> /\ Chat(d)
  BY DEF CardAnswers, CardTags, local
<1>2. CASE d # e
  <2>1. work'[d] = work[d] /\ buf'[d] = buf[d] /\ tag'[d] = tag[d]
    BY <1>2 DEF CardAnswers, CardTags, TypeInv, TypeOK
  <2> QED
    BY <1>1, <2>1, ChatKept
<1>3. CASE d = e /\ CardAnswers(e)
  <2>1. /\ work[d][1] = "working" /\ tag' = tag
        /\ work'[d] = <<"answered", work[d][2]>> /\ buf'[d] = <<"answer", work[d][2]>>
    BY <1>3 DEF CardAnswers, TypeInv, TypeOK
  <2> QED
    BY <1>1, <2>1 DEF Chat
<1>4. CASE d = e /\ CardTags(e)
  <2>1. work[d][1] = "answered" /\ buf' = buf /\ work'[d] = <<"idle", 0>>
    BY <1>4 DEF CardTags, TypeInv, TypeOK
  <2> QED
    BY <1>1, <2>1 DEF Chat
<1> QED
  BY <1>2, <1>3, <1>4

(* Each step of a callback past the hold, for its own device.              *)
LEMMA ChatPast ==
  ASSUME TypeInv, Solo, Unshared, AllMapped, Sound, NEW d \in Devices, Chat(d),
         Reset(d) \/ Test(d), undefined' = "no"
  PROVE  Chat(d)'
<1>1. nth' = nth /\ pc[d] \in Past
  BY PastSteps
<1>2. ctx.port = d /\ (Usable => Card = d) /\ ctx.port # NULL
  BY <1>1, CardIsOwn, NullIsNone
<1>3. CASE ProbeReset(d)
  <2>1. pc'[d] = "p_unreset" /\ work'[d] = <<"idle", 0>>
    BY <1>2, <1>3 DEF ProbeReset, OnPort, Goto, TypeInv, TypeOK
  <2> QED
    BY <2>1 DEF Chat
<1>4. CASE ProbeUnreset(d)
  <2>1. pc[d] = "p_unreset" /\ pc'[d] = "p_io" /\ in_reset'[d] = FALSE /\ work' = work
    BY <1>2, <1>4 DEF ProbeUnreset, OnPort, Goto, TypeInv, TypeOK
  <2> QED
    BY <2>1 DEF Chat
<1>5. CASE ProbeIo(d)
  <2>1. pc[d] = "p_io" /\ pc'[d] = "p_buffer" /\ UNCHANGED <<in_reset, work>>
    BY <1>5 DEF ProbeIo, Goto, card, TypeInv, TypeOK
  <2> QED
    BY <2>1 DEF Chat
<1>6. CASE TestBuffer(d)
  <2>1. pc[d] = "p_buffer" /\ pc'[d] = "p_tag" /\ UNCHANGED <<in_reset, work>>
    BY <1>6 DEF TestBuffer, Goto, card, TypeInv, TypeOK
  <2>2. buf' = [buf EXCEPT ![d] = <<"request", nth[d]>>]
    BY <1>2, <1>6 DEF TestBuffer, OnMemory
  <2>3. buf'[d] = <<"request", nth[d]>>
    BY <2>2 DEF TypeInv, TypeOK
  <2> QED
    BY <1>1, <2>1, <2>3 DEF Chat
<1>7. CASE TestTag(d)
  <2>1. pc[d] = "p_tag" /\ pc'[d] = "p_bell" /\ UNCHANGED <<in_reset, work>>
    BY <1>7 DEF TestTag, Goto, card, TypeInv, TypeOK
  <2>2. tag' = [tag EXCEPT ![d] = "write"] /\ buf' = buf
    BY <1>2, <1>7 DEF TestTag, OnMemory
  <2>3. tag'[d] = "write"
    BY <2>2 DEF TypeInv, TypeOK
  <2> QED
    BY <1>1, <2>1, <2>2, <2>3 DEF Chat
<1>8. CASE TestBell(d)
  <2>1. pc[d] = "p_bell" /\ pc'[d] = "p_poll" /\ UNCHANGED <<tag, buf>>
    BY <1>8 DEF TestBell, Goto, memory, TypeInv, TypeOK
  <2>2. ~in_reset[d] /\ tag[d] = "write" /\ buf[d][2] = nth[d]
    BY <2>1 DEF Chat
  <2>3. work'[d] = <<"working", nth[d]>>
    BY <1>2, <1>8, <2>2 DEF TestBell, OnPort, TypeInv, TypeOK
  <2> QED
    BY <1>1, <2>1, <2>2, <2>3 DEF Chat
<1>9. CASE PollAnswered(d)
  <2>1. pc[d] = "p_poll" /\ pc'[d] = "p_copy" /\ UNCHANGED <<tag, buf, in_reset, work>>
    BY <1>9 DEF PollAnswered, Goto, memory, card, TypeInv, TypeOK
  <2>2. tag[d] # "write"
    BY <1>2, <1>9 DEF PollAnswered
  <2> QED
    BY <1>1, <2>1, <2>2 DEF Chat
<1>10. CASE PollNotYet(d)
  <2>1. pc[d] = "p_poll" /\ UNCHANGED <<tag, buf, in_reset, work>>
    BY <1>10 DEF PollNotYet, memory, card
  <2>2. pc'[d] \in {"p_poll", "bound"}
    BY <1>10 DEF PollNotYet, Goto, TypeInv, TypeOK
  <2> QED
    BY <1>1, <2>1, <2>2 DEF Chat
<1>11. CASE TestCopy(d)
  <2>1. pc'[d] = "bound"
    BY <1>11 DEF TestCopy, Goto, TypeInv, TypeOK
  <2> QED
    BY <2>1, ChatSilent DEF Silent, AtRest
<1>12. CASE ReadUnmapped(d)
  BY <1>12 DEF ReadUnmapped
<1> QED
  BY <1>3, <1>4, <1>5, <1>6, <1>7, <1>8, <1>9, <1>10, <1>11, <1>12 DEF Reset, Test

LEMMA HoldGoes ==
  ASSUME TypeInv, NEW d \in Devices, Hold(d) \/ RemoveRelease(d)
  PROVE  /\ pc[d] \in Silent \ AtRest /\ got' = got /\ probes' = probes
         /\ \E l \in Silent : l \in Places /\ Goto(d, l)
BY DEF Hold, HoldRefused, HoldLookUp, HoldMap, HoldUnmapped, HoldFailed, HoldBuffers, InitWorkers,
       RemoveRelease, Silent, AtRest, Places, InProbe, Past, local

LEMMA ChatsStep ==
  ASSUME TypeInv, Solo, Unshared, AllMapped, Chats, [Next]_vars
  PROVE  Chats'
<1>1. SUFFICES ASSUME Sound', NEW d \in Devices PROVE Chat(d)'
  BY DEF Chats
<1>2. /\ Sound /\ \A e \in Devices : Chat(e)
      /\ "overlap" \notin slips /\ "overlap" \notin slips' /\ undefined' = "no"
  BY <1>1, SoundBefore DEF Chats, Sound
<1>3. CASE UNCHANGED <<pc, nth, memory, card>>
  BY <1>2, <1>3, ChatKept DEF memory, card
<1>4. CASE UNCHANGED vars
  BY <1>3, <1>4 DEF vars, local
<1>5. CASE ModuleInit \/ ModuleExit
  BY <1>3, <1>5 DEF ModuleInit, ModuleExit, local
<1>6. ASSUME NEW e \in Devices, CardAnswers(e) \/ CardTags(e) PROVE Chat(d)'
  BY <1>2, <1>6, ChatCard
<1>7. ASSUME NEW e \in Devices, ProbeStart(e) \/ RemoveUnmap(e) PROVE Chat(d)'
  <2>1. pc'[d] \in AtRest \cup {"p_hold", "r_release"}
    BY <1>2, <1>7, Begins
  <2> QED
    BY <2>1, ChatSilent DEF Silent
<1>8. ASSUME NEW e \in Devices, Hold(e) \/ RemoveRelease(e) PROVE Chat(d)'
  <2>1. PICK l \in Silent : l \in Places /\ Goto(e, l)
    BY <1>8, HoldGoes
  <2>2. pc[e] \notin AtRest
    BY <1>8, HoldGoes
  <2>3. pc'[d] \in Silent
    BY <1>2, <2>1, <2>2, OthersRest, Goes DEF TypeInv, Silent
  <2> QED
    BY <2>3, ChatSilent
<1>9. ASSUME NEW e \in Devices, Reset(e) \/ Test(e) PROVE Chat(d)'
  <2>1. CASE e = d
    BY <1>2, <1>9, <2>1, ChatPast
  <2>2. CASE e # d
    <3>1. PICK l \in Past \cup {"bound"} : Goto(e, l)
      BY <1>9, PastSteps
    <3>2. l \in Places /\ pc[e] \notin AtRest
      BY <1>9, PastSteps DEF Past, AtRest, Places, InProbe
    <3>3. pc'[d] \in AtRest
      BY <1>2, <2>2, <3>1, <3>2, OthersRest, Goes DEF TypeInv
    <3> QED
      BY <3>3, ChatSilent DEF Silent
  <2> QED
    BY <2>1, <2>2
<1> QED
  BY <1>4, <1>5, <1>6, <1>7, <1>8, <1>9 DEF Next, Callback, Halted

(* A mailbox of one chip, as its two values change.                        *)
LEMMA OneChip ==
  ASSUME \/ Pending' = Pending /\ Taken' = Taken
         \/ Pending = NULL /\ Pending' \in Requests \cup {NULL} /\ Taken' = NULL
         \/ Pending # NULL /\ Pending' = NULL /\ Taken' \in {Taken, Pending}
  PROVE  [Chip0!Next]_(Chip0!vars)
<1> DEFINE F(x) == [b \in {0} |-> x]
<1>1. \A x, y : F(x)[0] = x /\ [F(x) EXCEPT ![0] = y] = F(y)
  OBVIOUS
<1>2. CASE Pending' = Pending /\ Taken' = Taken
  BY <1>2 DEF Chip0!vars
<1>3. CASE Pending = NULL /\ Pending' \in Requests /\ Taken' = NULL
  <2>1. Chip0!Ask(0)
    BY <1>3 DEF Chip0!Ask
  <2> QED
    BY <2>1 DEF Chip0!Next
<1>4. CASE Pending = NULL /\ Pending' = NULL /\ Taken' = NULL
  <2>1. Chip0!Forget(0)
    BY <1>4 DEF Chip0!Forget
  <2> QED
    BY <2>1 DEF Chip0!Next
<1>5. CASE Pending # NULL /\ Pending' = NULL /\ Taken' = Taken
  <2>1. Chip0!GiveUp(0)
    BY <1>5 DEF Chip0!GiveUp
  <2> QED
    BY <2>1 DEF Chip0!Next
<1>6. CASE Pending # NULL /\ Pending' = NULL /\ Taken' = Pending
  <2>1. Chip0!Reply(0)
    BY <1>6 DEF Chip0!Reply
  <2> QED
    BY <2>1 DEF Chip0!Next
<1> QED
  BY <1>2, <1>3, <1>4, <1>5, <1>6

AskingAt == {"p_tag", "p_bell", "p_poll", "p_copy"}

(* While a callback runs, only it can be asking.                           *)
LEMMA AskerIsRunning ==
  ASSUME TypeInv, Solo, "overlap" \notin slips, NEW d \in Devices, pc[d] \notin AtRest,
         NEW l \in Places, Goto(d, l)
  PROVE  /\ Asking <=> pc[d] \in AskingAt
         /\ Asking' <=> l \in AskingAt
<1>1. \A e \in Devices : e # d => pc[e] \in AtRest
  BY OthersRest
<1>2. \A e \in Devices : pc'[e] = IF e = d THEN l ELSE pc[e]
  BY Goes DEF TypeInv
<1> QED
  BY <1>1, <1>2 DEF Asking, AskingAt, AtRest

LEMMA ChipInit == Init => Chip0!Init
<1>1. SUFFICES ASSUME Init PROVE Chip0!Init
  OBVIOUS
<1>2. ~Asking /\ got = NULL
  BY <1>1 DEF Init, Asking
<1>3. Pending = NULL /\ Taken = NULL
  BY <1>2 DEF Pending, Taken
<1> QED
  BY <1>3 DEF Chip0!Init

(* What a step that leaves the machine sound means to the mailbox.         *)
LEMMA ChipPast ==
  ASSUME TypeInv, Solo, Unshared, AllMapped, Chats, Sound, Sound',
         NEW d \in Devices, Reset(d) \/ Test(d)
  PROVE  [Chip0!Next]_(Chip0!vars)
<1>1. /\ UNCHANGED <<nth, probes>> /\ pc[d] \in Past /\ pc[d] \notin AtRest
      /\ "overlap" \notin slips
  BY PastSteps DEF Past, AtRest, Sound
<1>2. got = NULL /\ nth[d] = probes /\ probes \in Requests
  BY <1>1 DEF Solo, InProbe, TypeInv, TypeOK
<1>3. probes # NULL
  BY <1>2, NullIsNone
<1>4. Taken = NULL /\ Pending = (IF Asking THEN probes ELSE NULL)
        /\ Pending' = (IF Asking' THEN probes ELSE NULL)
  BY <1>1, <1>2 DEF Taken, Pending
<1>5. CASE ProbeReset(d) \/ ProbeUnreset(d) \/ ProbeIo(d) \/ TestTag(d) \/ TestBell(d)
             \/ PollAnswered(d)
  <2>1. got' = got
    BY <1>5 DEF ProbeReset, ProbeUnreset, ProbeIo, TestTag, TestBell, PollAnswered, local
  <2>2. Asking' <=> Asking
    <3>1. PICK l \in Past : Goto(d, l) /\ (l \in AskingAt <=> pc[d] \in AskingAt)
      BY <1>5 DEF ProbeReset, ProbeUnreset, ProbeIo, TestTag, TestBell, PollAnswered, AskingAt,
                  Past
    <3>2. l \in Places
      BY DEF Places, InProbe
    <3> QED
      BY <1>1, <3>1, <3>2, AskerIsRunning
  <2>3. Taken' = NULL
    BY <1>2, <2>1 DEF Taken
  <2> QED
    BY <1>4, <2>2, <2>3, OneChip
<1>6. CASE TestBuffer(d)
  <2>1. got' = got /\ Goto(d, "p_tag") /\ "p_tag" \in Places /\ pc[d] = "p_buffer"
    BY <1>6 DEF TestBuffer, local, Places, InProbe, Past
  <2>2. ~Asking
    BY <1>1, <2>1, AskerIsRunning DEF AskingAt
  <2>3. Taken' = NULL
    BY <1>2, <2>1 DEF Taken
  <2> QED
    BY <1>2, <1>4, <2>2, <2>3, OneChip
<1>7. CASE PollNotYet(d)
  <2>1. got' = got /\ pc[d] = "p_poll"
    BY <1>7 DEF PollNotYet
  <2>2. Asking
    BY <2>1 DEF Asking
  <2>3. Taken' = NULL
    BY <1>2, <2>1 DEF Taken
  <2> QED
    BY <1>3, <1>4, <2>2, <2>3, OneChip
<1>8. CASE TestCopy(d)
  <2>1. Usable /\ pc[d] = "p_copy" /\ Goto(d, "bound") /\ "bound" \in Places /\ got' = buf[Card]
    BY <1>8 DEF TestCopy, Places, AtRest
  <2>2. Asking /\ ~Asking'
    BY <1>1, <2>1, AskerIsRunning DEF AskingAt
  <2>3. got' = <<"answer", probes>>
    BY <1>1, <1>2, <2>1, CardIsOwn DEF Chats, Chat
  <2>4. <<"answer", probes>> \in Content
    BY <1>2 DEF Content
  <2>5. Taken' = probes
    BY <2>3, <2>4, NullIsNone DEF Taken
  <2> QED
    BY <1>3, <1>4, <2>2, <2>5, OneChip
<1>9. CASE ReadUnmapped(d)
  BY <1>9 DEF ReadUnmapped, Sound
<1> QED
  BY <1>5, <1>6, <1>7, <1>8, <1>9 DEF Reset, Test

LEMMA ChipStep ==
  ASSUME TypeInv, Solo, Unshared, AllMapped, Chats, [Next]_vars
  PROVE  [Chip0!Next]_(Chip0!vars)
<1>1. CASE ~Sound'
  <2>1. Pending' = NULL /\ Taken' = NULL
    BY <1>1 DEF Pending, Taken
  <2>2. Pending # NULL => Taken = NULL
    <3>1. Sound /\ Asking => got = NULL
      BY DEF Asking, Solo, Sound, InProbe, Past
    <3> QED
      BY <3>1 DEF Pending, Taken
  <2> QED
    BY <2>1, <2>2, OneChip
<1>2. CASE Sound'
  <2>1. Sound /\ "overlap" \notin slips /\ "overlap" \notin slips'
    BY <1>2, SoundBefore DEF Sound
  <2>2. CASE UNCHANGED <<pc, probes, got>>
    <3>1. Pending' = Pending /\ Taken' = Taken
      BY <1>2, <2>1, <2>2 DEF Pending, Taken, Asking
    <3> QED
      BY <3>1, OneChip
  <2>3. CASE UNCHANGED vars
    BY <2>2, <2>3 DEF vars, local
  <2>4. CASE ModuleInit \/ ModuleExit
    BY <2>2, <2>4 DEF ModuleInit, ModuleExit, local
  <2>5. ASSUME NEW d \in Devices, CardAnswers(d) \/ CardTags(d)
        PROVE  [Chip0!Next]_(Chip0!vars)
    BY <2>2, <2>5 DEF CardAnswers, CardTags, local
  <2>6. ASSUME ~Asking, ~Asking', got' = got \/ got' = NULL
        PROVE  [Chip0!Next]_(Chip0!vars)
    <3>1. Pending = NULL /\ Pending' = NULL
      BY <2>6 DEF Pending
    <3>2. Taken' = Taken \/ Taken' = NULL
      BY <1>2, <2>1, <2>6 DEF Taken
    <3> QED
      BY <3>1, <3>2, OneChip
  <2>7. ASSUME NEW d \in Devices, ProbeStart(d) \/ RemoveUnmap(d)
        PROVE  [Chip0!Next]_(Chip0!vars)
    <3>1. ~Asking /\ ~Asking'
      BY <2>1, <2>7, Begins DEF Asking, AtRest
    <3>2. got' = got \/ got' = NULL
      BY <2>7 DEF ProbeStart, RemoveUnmap, local
    <3> QED
      BY <2>6, <3>1, <3>2
  <2>8. ASSUME NEW d \in Devices, Hold(d) \/ RemoveRelease(d)
        PROVE  [Chip0!Next]_(Chip0!vars)
    <3>1. PICK l \in Silent : l \in Places /\ Goto(d, l)
      BY <2>8, HoldGoes
    <3>2. pc[d] \in Silent /\ pc[d] \notin AtRest /\ got' = got
      BY <2>8, HoldGoes
    <3>3. l \notin AskingAt /\ pc[d] \notin AskingAt
      BY <3>2 DEF Silent, AtRest, AskingAt
    <3>4. ~Asking /\ ~Asking'
      BY <2>1, <3>1, <3>2, <3>3, AskerIsRunning
    <3> QED
      BY <2>6, <3>2, <3>4
  <2>9. ASSUME NEW d \in Devices, Callback(d)
        PROVE  [Chip0!Next]_(Chip0!vars)
    BY <1>2, <2>1, <2>8, <2>9, ChipPast DEF Callback
  <2> QED
    BY <2>3, <2>4, <2>5, <2>7, <2>9 DEF Next, Halted
<1> QED
  BY <1>1, <1>2

(* However probes, removals, loads and a card that answers at any time or  *)
(* never follow one another: until callbacks of two devices overlap or a   *)
(* device lacks a BAR, and as long as ioremap failing and a shared context *)
(* do not come together, what test_io takes for the answer to its request  *)
(* is that answer (pci-fake/pcidev.c:372-409, 444).                        *)
THEOREM Chip0IsMailbox == Spec => ImplementsMailbox
<1>1. Spec => []AllMapped
  <2>1. TypeInv /\ Solo /\ AllMapped /\ [Next]_vars => AllMapped'
    BY MappedStep
  <2> QED
    BY <2>1, MappedInit, UnsharedAlways, PTL DEF Spec
<1>2. Spec => []Chats
  <2>1. TypeInv /\ Solo /\ Unshared /\ AllMapped /\ Chats /\ [Next]_vars => Chats'
    BY ChatsStep
  <2> QED
    BY <1>1, <2>1, MappedInit, UnsharedAlways, PTL DEF Spec
<1>3. TypeInv /\ Solo /\ Unshared /\ AllMapped /\ Chats /\ [Next]_vars
        => [Chip0!Next]_(Chip0!vars)
  BY ChipStep
<1> QED
  BY <1>1, <1>2, <1>3, UnsharedAlways, ChipInit, PTL DEF Spec, ImplementsMailbox, Chip0!Spec

=============================================================================
