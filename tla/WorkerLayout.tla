---------------------------- MODULE WorkerLayout ----------------------------
(***************************************************************************)
(* Where the chips of a card have their buffers and tags: the arithmetic   *)
(* of init_workers (src/src/pci-fake/pcidev.c:102-113) and of the loop in  *)
(* mount_chr_dev (src/src/pcidev-02/pcidev.c:224-230), as offsets from the *)
(* start of the mapped memory.  The buffers are the messages of the chips  *)
(* one after the other, the tags come behind a window of fixed size, and   *)
(* neither is compared with the size of the memory ("FIXME:check size").   *)
(***************************************************************************)
EXTENDS Integers

CONSTANTS
  MAX_CHIP_IN_DEVICE,
  MESSAGE_SIZE,         (* sizeof(struct ssxa_protocol_t), packed: 256      *)
  TAG_SIZE,             (* sizeof(u32)                                      *)
  WINDOW                (* w_buffer.size: 4096                              *)

ASSUME LayoutAssumption ==
  /\ MAX_CHIP_IN_DEVICE \in Nat /\ MESSAGE_SIZE \in Nat /\ TAG_SIZE \in Nat
  /\ WINDOW \in Nat
  /\ MAX_CHIP_IN_DEVICE * MESSAGE_SIZE <= WINDOW

Chips == 0 .. MAX_CHIP_IN_DEVICE - 1

(* Fault for the mutation runs: the chips are one apart, not a message.    *)
buff_ptr_Unscaled(index) == index

buff_ptr(index) == index * MESSAGE_SIZE

tag_ptr(index) == WINDOW + index * TAG_SIZE

(* Two stretches of memory, each given by its start and its size.          *)
Apart(start, size, start2, size2) == start + size <= start2 \/ start2 + size2 <= start

(* What reset_io writes, for every chip, is in a memory of len bytes.      *)
Fits(len) ==
  \A i \in Chips : buff_ptr(i) + MESSAGE_SIZE <= len /\ tag_ptr(i) + TAG_SIZE <= len

(* No chip's buffer or tag shares a byte with that of another chip, or its *)
(* own buffer with its own tag (pcidev-02/pcidev.c:226-227).               *)
ChipsApart ==
  \A i, j \in Chips :
    /\ Apart(buff_ptr(i), MESSAGE_SIZE, tag_ptr(j), TAG_SIZE)
    /\ i # j => /\ Apart(buff_ptr(i), MESSAGE_SIZE, buff_ptr(j), MESSAGE_SIZE)
                /\ Apart(tag_ptr(i), TAG_SIZE, tag_ptr(j), TAG_SIZE)

(* The size the FIXMEs would have to ask for.                              *)
Enough(len) == len >= WINDOW + MAX_CHIP_IN_DEVICE * TAG_SIZE

=============================================================================
