----------------------------- MODULE DflWalker -----------------------------
(***************************************************************************)
(* The walk of a device feature list (intel_fpga_api_cmn_dfl.c) and the    *)
(* table of interfaces it fills (intel_fpga_api_cmn_inf.c,                 *)
(* intel_fpga_platform_api_niosv.c).  Two passes of the same recursion     *)
(* count the interfaces and collect them; a stack that grows by pieces     *)
(* remembers the parents.                                                  *)
(*                                                                         *)
(* In memory an interface is a header with a link to the next one and a    *)
(* list of parameter blocks; a block may branch to another list.  The      *)
(* lists are finite trees, as the walker takes for granted.                *)
(*                                                                         *)
(* The walk and the table are compiled with the BSP, but system.h sets     *)
(* INTEL_FPGA_USE_DFL_WALKER to 0: nothing in this build calls them, and   *)
(* fpga_platform_init and fpga_platform_cleanup are left out.  The model   *)
(* is of the library with that switch on.                                  *)
(***************************************************************************)
EXTENDS Integers, SequencesExt

CONSTANTS Dfh,                        \* headers: 1..n, the first one is 1
          Lists,                      \* contents of the memory
          DFH_PARENT_STACK_INCR_SIZE

\* A list gives, for each header, next (0: end of list), blocks (a sequence of
\* headers branched to, 0 for another parameter), and whether its parameters
\* are ended by a null block.  Link 0 of a header is next, link i is block i.
Link(l, d, i) == IF i = 0 THEN l[d].next ELSE l[d].blocks[i]
LinksOf(l, d) == 0..Len(l[d].blocks)

\* Every header but the first is linked once, and can be reached.
IsTree(l) ==
  /\ \A p \in Dfh : \A i \in LinksOf(l, p) :
       /\ Link(l, p, i) # 1
       /\ \A q \in Dfh : \A j \in LinksOf(l, q) :
            Link(l, p, i) = Link(l, q, j) /\ Link(l, p, i) # 0 => p = q /\ i = j
  /\ \A S \in SUBSET Dfh :
       1 \in S /\ (\A p \in S : \A i \in LinksOf(l, p) : Link(l, p, i) \in S \cup {0})
         => S = Dfh

\* The headers of the list that starts at b, those to which o branches, and those
\* of the lists it branches to.
InList(l, b, d) ==
  \A S \in SUBSET Dfh : b \in S /\ (\A x \in S : l[x].next \in S \cup {0}) => d \in S

Branches(l, o) == ToSet(l[o].blocks) \ {0}

Owns(l, o, d) == \E b \in Branches(l, o) : InList(l, b, d)

\* d is o, or under one of its branches.
Below(l, d, o) ==
  d = o \/ \A S \in SUBSET Dfh :
             Branches(l, o) \subseteq S
               /\ (\A x \in S : Branches(l, x) \cup {l[x].next} \subseteq S \cup {0})
             => d \in S

BranchesOnce(l, o) ==
  \A i, j \in DOMAIN l[o].blocks :
    l[o].blocks[i] # 0 /\ l[o].blocks[j] # 0 => i = j

ASSUME DflAssumption ==
  /\ DFH_PARENT_STACK_INCR_SIZE \in Nat \ {0, 1}
  /\ IsFiniteSet(Dfh) /\ 1 \in Dfh /\ Dfh = 1..Cardinality(Dfh)
  /\ \A l \in Lists :
       /\ l \in [Dfh -> [next : Dfh \cup {0}, blocks : Seq(Dfh \cup {0}), null : BOOLEAN]]
       /\ IsTree(l)

VARIABLES list,                 \* what is in memory
          pass,                 \* "idle", "count", "collect", "overrun"
          calls,                \* the recursion: headers, and block reached
          head, top,            \* dfh_parent_stack; its size is Len(head)
          scanned, index,       \* s_scanned_interface_count, s_interface_index
          vec,                  \* g_common_fpga_interface_info_vec
          heap                  \* allocations that are not freed: of the stack, of
                                \* the table, and of each of its interfaces

stack == <<head, top>>
vars == <<list, pass, calls, stack, scanned, index, vec, heap>>

OneIf(c) == IF c THEN 1 ELSE 0
NoInfo == [dfh |-> 0, parent |-> 0, data |-> 0, parameters |-> 0,
           mmio |-> FALSE, interrupt |-> FALSE]

Frame == calls[Len(calls)]
Blocks == list[Frame.dfh].blocks
Following == list[Frame.dfh].next
Enter(d) == [dfh |-> d, block |-> 0]

-----------------------------------------------------------------------------
(* dfh_parent_stack. *)

\* Mutant: the stack grows a push late.
FullLate == top > Len(head)

Full == top = Len(head)

\* dfh_parent_stack_push, then the call that follows it.  A write outside the
\* array ends what can be said of the program.
PushAndCall(data, from, to, during) ==
  LET grown == IF Full THEN head \o [n \in 1..DFH_PARENT_STACK_INCR_SIZE |-> 0]
               ELSE head
  IN /\ top' = top + 1
     /\ IF top + 1 < Len(grown)
        THEN /\ head' = [grown EXCEPT ![top + 2] = data]
             /\ calls' = Append(from, Enter(to))
             /\ pass' = during
        ELSE UNCHANGED <<head, calls>> /\ pass' = "overrun"

NewStack == OneIf(head = <<>>)

Pop == top' = top - 1

\* Mutant: the entry under the last one.
PeekUnder == head[top]

Peek == head[top + 1]

-----------------------------------------------------------------------------
(* The table. *)

\* Mutant: the data of the parameters is forgotten.
OwnedArrays(v) ==
  [stack |-> 0, table |-> OneIf(v # <<>>),
   at |-> [i \in Dfh |-> IF i \in DOMAIN v THEN OneIf(v[i].parameters > 0) ELSE 0]]

\* The allocations of a table: its array, and for each interface the array of
\* parameters and the data of each.  The code frees the data of all parameters
\* (intel_fpga_api_cmn_inf.c:116-120); that of the null block is NULL, which frees
\* nothing.
Owned(v) ==
  [stack |-> 0, table |-> OneIf(v # <<>>),
   at |-> [i \in Dfh |-> IF i \in DOMAIN v
                         THEN OneIf(v[i].parameters > 0) + v[i].data ELSE 0]]

\* vec_resize(0) frees them.
Freed(h, owned) ==
  [stack |-> h.stack - owned.stack, table |-> h.table - owned.table,
   at |-> [i \in Dfh |-> h.at[i] - owned.at[i]]]

\* The allocations of an interface: the data of each block, and their array.
NewData(d) == Len(list[d].blocks)
NewArray(d) == OneIf(list[d].blocks # <<>>)

\* set_parameter_properties: an array as long as the blocks, the null block that
\* ends them included, and the data of each block but that one.
Parameters(d) ==
  IF list[d].blocks = <<>> THEN 0 ELSE Len(list[d].blocks) + OneIf(list[d].null)

\* set_interface_properties.
Info(d) == [dfh |-> d, parent |-> Peek, data |-> NewData(d),
            parameters |-> Parameters(d), mmio |-> FALSE, interrupt |-> FALSE]

-----------------------------------------------------------------------------
(* fpga_platform_init: count, then collect. *)

Init ==
  /\ list \in Lists /\ pass = "idle" /\ calls = <<>> /\ head = <<>> /\ top = 0
  /\ scanned = 0 /\ index = 0 /\ vec = <<>> /\ heap = Owned(<<>>)

Scan ==
  /\ pass = "idle"
  /\ scanned' = 0
  /\ vec' = <<>>
  /\ heap' = [Freed(heap, Owned(vec)) EXCEPT !.stack = @ + NewStack]
  /\ PushAndCall(-1, <<>>, 1, "count")
  /\ UNCHANGED <<list, index>>

CollectAll ==
  /\ pass = "count" /\ calls = <<>>
  /\ vec' = [n \in 1..scanned |-> NoInfo]
  /\ heap' = [heap EXCEPT !.table = @ + OneIf(vec' # <<>>)]
  /\ index' = -1
  /\ PushAndCall(-1, <<>>, 1, "collect")
  /\ UNCHANGED <<list, scanned>>

Finish ==
  /\ pass = "collect" /\ calls = <<>>
  /\ head' = <<>> /\ heap' = [heap EXCEPT !.stack = @ - 1]
  /\ pass' = "idle"
  /\ UNCHANGED <<list, calls, top, scanned, index, vec>>

-----------------------------------------------------------------------------
(* deal_with_interface_at_current_level, in either pass. *)

Walking == pass \in {"count", "collect"} /\ calls # <<>>
Return(frame) == [calls EXCEPT ![Len(calls)] = frame]
NextBlock == [Frame EXCEPT !.block = @ + 1]

Count ==
  /\ Walking /\ pass = "count" /\ Frame.block = 0
  /\ scanned' = scanned + 1
  /\ calls' = Return(NextBlock)
  /\ UNCHANGED <<list, pass, stack, index, vec, heap>>

CollectOne ==
  /\ Walking /\ pass = "collect" /\ Frame.block = 0
  /\ index' = index + 1
  /\ IF index' < Len(vec)
     THEN /\ vec' = [vec EXCEPT ![index' + 1] = Info(Frame.dfh)]
          /\ heap' = [heap EXCEPT !.at[index' + 1] = @ + NewData(Frame.dfh) + NewArray(Frame.dfh)]
          /\ calls' = Return(NextBlock)
          /\ UNCHANGED pass
     ELSE pass' = "overrun" /\ UNCHANGED <<vec, heap, calls>>
  /\ UNCHANGED <<list, stack, scanned>>

\* A block of parameters that is a branch starts another list.
Branch ==
  /\ Walking /\ Frame.block \in 1..Len(Blocks) /\ Blocks[Frame.block] # 0
  /\ PushAndCall(index, Return(NextBlock), Blocks[Frame.block], pass)
  /\ UNCHANGED <<list, scanned, index, vec, heap>>

OtherBlock ==
  /\ Walking /\ Frame.block \in 1..Len(Blocks) /\ Blocks[Frame.block] = 0
  /\ calls' = Return(NextBlock)
  /\ UNCHANGED <<list, pass, stack, scanned, index, vec, heap>>

BlocksDone == Walking /\ Frame.block > Len(Blocks)

\* The call for the next interface is the last thing this one does.
NextInterface ==
  /\ BlocksDone /\ Following # 0
  /\ calls' = Return(Enter(Following))
  /\ UNCHANGED <<list, pass, stack, scanned, index, vec, heap>>

EndOfList ==
  /\ BlocksDone /\ Following = 0
  /\ Pop
  /\ calls' = Front(calls)
  /\ UNCHANGED <<list, pass, head, scanned, index, vec, heap>>

-----------------------------------------------------------------------------
(* What a program does with the table, between two scans. *)

Idle == pass = "idle" /\ UNCHANGED <<list, pass, calls, stack, scanned, index>>

fpga_open(i) ==
  /\ Idle /\ ~vec[i].mmio
  /\ vec' = [vec EXCEPT ![i].mmio = TRUE] /\ UNCHANGED heap

fpga_close(i) == Idle /\ vec' = [vec EXCEPT ![i].mmio = FALSE] /\ UNCHANGED heap

fpga_interrupt_open(i) ==
  /\ Idle /\ ~vec[i].interrupt
  /\ vec' = [vec EXCEPT ![i].interrupt = TRUE] /\ UNCHANGED heap

fpga_interrupt_close(i) ==
  Idle /\ vec' = [vec EXCEPT ![i].interrupt = FALSE] /\ UNCHANGED heap

fpga_platform_cleanup == Idle /\ vec' = <<>> /\ heap' = Freed(heap, Owned(vec))

Next ==
  \/ Scan \/ CollectAll \/ Finish
  \/ Count \/ CollectOne \/ Branch \/ OtherBlock \/ NextInterface \/ EndOfList
  \/ fpga_platform_cleanup
  \/ \E i \in DOMAIN vec : \/ fpga_open(i) \/ fpga_close(i)
                           \/ fpga_interrupt_open(i) \/ fpga_interrupt_close(i)

Spec == Init /\ [][Next]_vars

-----------------------------------------------------------------------------
(* Properties. *)

\* Entry i of the table.  An interface of the first list has no parent (-1); the
\* parent of another is the owner of its list, or, when the owner branched before,
\* the last entry under it: s_interface_index is read at the branch, after the
\* lists of the earlier branches.
EntryMatches(i) ==
  LET parent == vec[i].parent + 1
  IN /\ vec[i].dfh \in Dfh
     /\ (\A o \in Dfh : ~Owns(list, o, vec[i].dfh)) => parent = 0
     /\ \A o \in Dfh : Owns(list, o, vec[i].dfh) =>
          /\ parent \in 1..(i - 1)
          /\ Below(list, vec[parent].dfh, o)
          /\ BranchesOnce(list, o) => vec[parent].dfh = o

\* The second pass meets the interfaces the first one counted: after a scan every
\* header has one entry, and the entry knows its parent (EntryMatches).
TableMatchesList ==
  pass = "idle" /\ vec # <<>> =>
    /\ Len(vec) = Cardinality(Dfh) /\ {vec[i].dfh : i \in DOMAIN vec} = Dfh
    /\ \A i \in DOMAIN vec : EntryMatches(i)

\* The stack of parents holds any list that branches fewer than INCR - 1 deep: the
\* walk leaves its arrays only on a deeper one, where the test for a full stack
\* comes a push too late.
StackHolds ==
  pass = "overrun" =>
    \E c \in [1..DFH_PARENT_STACK_INCR_SIZE -> Dfh] :
      \A n \in 1..(DFH_PARENT_STACK_INCR_SIZE - 1) : Owns(list, c[n], c[n + 1])

\* Whatever was opened, scanned and scanned again, a cleanup gives back every
\* allocation of the table and of the walk.
NoLeak == pass = "idle" /\ vec = <<>> => heap = Owned(<<>>)
=============================================================================
