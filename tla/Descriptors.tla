---------------------------- MODULE Descriptors ----------------------------
(***************************************************************************)
(* The segment descriptors of the tasks (kernel/sched.c, kernel/fork.c)    *)
(* and the gates of the IDT (kernel/traps.c), as the eight bytes the CPU   *)
(* reads; d[1] is the lowest byte of low_32.  An address is four bytes,    *)
(* the lowest first.                                                       *)
(***************************************************************************)
EXTENDS Integers, Sequences, Bitwise

Byte == 0 .. 255

FIRST_TSS_DESC_INDEX == 4
FIRST_LDT_DESC_INDEX == FIRST_TSS_DESC_INDEX + 1

(* The selectors of the tables of a task: an index in the GDT, times 8.    *)
TSS(task_nr) == (task_nr * 2 + FIRST_TSS_DESC_INDEX) * 8
LDT(task_nr) == (task_nr * 2 + FIRST_LDT_DESC_INDEX) * 8

(* P, the privilege level and the type.                                    *)
Access(dpl, type) == 128 + dpl * 32 + type

set_tss_desc(addr, dpl) ==
  <<104, 0, addr[1], addr[2], addr[3], Access(dpl, 9), 0, addr[4]>>

set_ldt_desc(addr, dpl) ==
  <<32, 0, addr[1], addr[2], addr[3], Access(dpl, 2), 0, addr[4]>>

set_gate(type, code_seg_sel, addr, dpl) ==
  <<addr[1], addr[2], code_seg_sel, 0, 0, Access(dpl, type), addr[3], addr[4]>>

-----------------------------------------------------------------------------
get_segment_base(seg) == <<seg[3], seg[4], seg[5], seg[8]>>

(* Wrong variant: the old base is not cleared.                             *)
OverOldBase(seg, base) ==
  [seg EXCEPT ![2] = @ | base[1], ![3] = @ | base[2], ![5] = @ | base[3], ![8] = @ | base[4]]

(* The low half of the base is shifted by 8 where its place is 16: it      *)
(* comes to lie over the upper half of the limit.                          *)
set_segment_base(seg, base) ==
  [seg EXCEPT ![2] = @ | base[1], ![3] = base[2], ![4] = 0, ![5] = base[3], ![8] = base[4]]

(* A limit is 20 bits: two bytes and a half.                               *)
set_segment_limit(seg, limit) ==
  [seg EXCEPT ![1] = limit[1], ![2] = limit[2], ![7] = (@ - (@ % 16)) + limit[3]]

(* lsl: the limit in the descriptor, with the granularity in d[7] \div 16. *)
SegmentLimit(seg) == <<seg[1], seg[2], seg[7] % 16>>

LimitAbove(l, m) ==
  \/ l[3] > m[3]
  \/ l[3] = m[3] /\ (l[2] > m[2] \/ (l[2] = m[2] /\ l[1] > m[1]))

(* The code and the data segment of task0.                                 *)
Task0Ldt == [code |-> <<255, 15, 0, 0, 0, 250, 192, 0>>,
             data |-> <<255, 15, 0, 0, 0, 242, 192, 0>>]

(* copy_mem(), as to the segments: the child gets task_nr times 64 MB, and *)
(* task1 a limit of 1 MB.                                                  *)
BaseOf(task_nr) == <<0, 0, 0, (4 * task_nr) % 256>>

CopyMem(ldt, task_nr) ==
  LET moved(seg) == set_segment_base(seg, BaseOf(task_nr))
      small(seg) == IF task_nr = 1 THEN set_segment_limit(seg, <<255, 0, 0>>) ELSE seg
  IN  [code |-> small(moved(ldt.code)), data |-> small(moved(ldt.data))]

CopyMemPanics(ldt) ==
  \/ get_segment_base(ldt.code) # get_segment_base(ldt.data)
  \/ LimitAbove(SegmentLimit(ldt.code), SegmentLimit(ldt.data))

(* The entries of the GDT that copy_process() and sched_init() write, tss  *)
(* and ldt being where these are in the task_struct.                       *)
TaskEntries(gdt, task_nr, tss, ldt) ==
  [gdt EXCEPT ![FIRST_TSS_DESC_INDEX + task_nr * 2] = set_tss_desc(tss, 0),
              ![FIRST_LDT_DESC_INDEX + task_nr * 2] = set_ldt_desc(ldt, 0)]

=============================================================================
