---------------------------- MODULE Transaction ----------------------------
(***************************************************************************)
(* The operation list of a transaction (os/transaction.c): an array that   *)
(* grows by CCEPH_OS_TRAN_OP_LIST_SIZE when it is full.  A caller appends  *)
(* operations with the cceph_os_tran_* functions, which all take the next  *)
(* place from cceph_os_tran_new_op and fill it.                            *)
(*                                                                         *)
(* What an operation says is left to Ops.  MaxOps bounds the operations of *)
(* a transaction.  StoreUser puts these steps before the calls of a user   *)
(* of the store, hence the names with tran in them.                        *)
(***************************************************************************)
EXTENDS Integers, Sequences

CONSTANTS Ops,            \* what callers append
          Unset,          \* what malloc leaves in a place
          LIST_SIZE,      \* CCEPH_OS_TRAN_OP_LIST_SIZE
          MaxOps,
          KeepsGoing      \* whether callers append after an append failed

ASSUME ListSizeAssumption == LIST_SIZE \in Nat \ {0}
ASSUME KeepsGoingAssumption == KeepsGoing \in BOOLEAN

VARIABLES allocated,         \* the places op_buffer was allocated with
          op_buffer,
          op_buffer_length,
          op_buffer_index,   \* the operations in use
          accepted,          \* history: the operations whose append returned CCEPH_OK
          append_ret         \* what the last append returned

tran_vars == <<allocated, op_buffer, op_buffer_length, op_buffer_index, accepted, append_ret>>

\* cceph_os_tran_new
TranInit == /\ allocated = LIST_SIZE
            /\ op_buffer = [i \in 1 .. LIST_SIZE |-> Unset]
            /\ op_buffer_length = LIST_SIZE
            /\ op_buffer_index = 0
            /\ accepted = << >>
            /\ append_ret = "OK"

\* cceph_os_tran_free, and cceph_os_tran_new for the next transaction.
RenewTran == /\ allocated' = LIST_SIZE
             /\ op_buffer' = [i \in 1 .. LIST_SIZE |-> Unset]
             /\ op_buffer_length' = LIST_SIZE
             /\ op_buffer_index' = 0
             /\ accepted' = << >>
             /\ append_ret' = "OK"

\* Nothing is said of a program that has written past its memory.
CanAppend == /\ op_buffer_index <= allocated
             /\ append_ret = "OK" \/ KeepsGoing
             /\ op_buffer_index < MaxOps

\* The end of cceph_os_tran_new_op and the fields its caller sets, in an array
\* buffer of n places.  Past its end the write hits other memory.
Place(op, buffer, n) ==
  /\ allocated' = n
  /\ op_buffer' = IF op_buffer_index < n THEN [buffer EXCEPT ![op_buffer_index + 1] = op] ELSE buffer
  /\ op_buffer_index' = op_buffer_index + 1
  /\ accepted' = Append(accepted, op)
  /\ append_ret' = "OK"

AppendInPlace(op) ==
  /\ CanAppend
  /\ op_buffer_index < op_buffer_length
  /\ Place(op, op_buffer, allocated)
  /\ UNCHANGED op_buffer_length

\* mutation: the old operations are not copied.
AppendGrowingEmpty(op) ==
  /\ CanAppend
  /\ op_buffer_index = op_buffer_length
  /\ op_buffer_length' = op_buffer_length + LIST_SIZE
  /\ Place(op, [i \in 1 .. op_buffer_length + LIST_SIZE |-> Unset], op_buffer_length + LIST_SIZE)

\* memcpy copies op_buffer_length operations, whatever the old array holds.
AppendGrowing(op) ==
  /\ CanAppend
  /\ op_buffer_index = op_buffer_length
  /\ op_buffer_length' = op_buffer_length + LIST_SIZE
  /\ Place(op, [i \in 1 .. op_buffer_length + LIST_SIZE |->
                  IF i <= op_buffer_length /\ i <= allocated THEN op_buffer[i] ELSE Unset],
           op_buffer_length + LIST_SIZE)

\* The old array is put back, but not the old length.
AppendFails ==
  /\ CanAppend
  /\ op_buffer_index = op_buffer_length
  /\ op_buffer_length' = op_buffer_length + LIST_SIZE
  /\ append_ret' = "NO_ENOUGH_MEM"
  /\ UNCHANGED <<allocated, op_buffer, op_buffer_index, accepted>>

TranNext == \/ \E op \in Ops : AppendInPlace(op) \/ AppendGrowing(op)
            \/ AppendFails
            \/ RenewTran

TranSpec == TranInit /\ [][TranNext]_tran_vars

----------------------------------------------------------------------------
TranTypeOK == /\ allocated \in Nat
              /\ op_buffer \in [1 .. allocated -> Ops \cup {Unset}]
              /\ op_buffer_length \in Nat
              /\ op_buffer_index \in 0 .. op_buffer_length
              /\ accepted \in Seq(Ops)
              /\ append_ret \in {"OK", "NO_ENOUGH_MEM"}

\* cceph_os_tran_get_op
GetOp(i) == op_buffer[i]

\* As long as callers give a transaction up when an append fails, as those in
\* os/ and osd/ do, the store finds in it what was appended, in that order, in
\* memory that belongs to it.
OpsInOrder == /\ op_buffer_index = Len(accepted)
              /\ op_buffer_index <= allocated
              /\ \A i \in 1 .. op_buffer_index : GetOp(i) = accepted[i]
=============================================================================
