------------------------- MODULE TransactionProofs -------------------------
(***************************************************************************)
(* The operation list keeps its types, and keeps the operations of callers *)
(* that stop when an append fails, whatever the size it grows by and       *)
(* however long the transaction.  So a user that builds its transactions   *)
(* in it is a user of OsdCreate, which takes them as they are.             *)
(***************************************************************************)
EXTENDS StoreUser, TLAPS

\* A new transaction has its types.
LEMMA TranTypeInit == TranInit => TranTypeOK
<1> SUFFICES ASSUME TranInit PROVE TranTypeOK
  OBVIOUS
<1>1. LIST_SIZE \in Nat /\ 0 \in 0 .. LIST_SIZE
  BY ListSizeAssumption
<1>2. op_buffer \in [1 .. allocated -> Ops \cup {Unset}]
  BY DEF TranInit
<1>3. accepted \in Seq(Ops)
  BY DEF TranInit
<1> QED
  BY <1>1, <1>2, <1>3 DEF TranInit, TranTypeOK

\* An append keeps them.
LEMMA TranTypeNext == TranTypeOK /\ [TranNext]_tran_vars => TranTypeOK'
<1> SUFFICES ASSUME TranTypeOK, [TranNext]_tran_vars PROVE TranTypeOK'
  OBVIOUS
<1>1. ASSUME NEW op \in Ops, AppendInPlace(op) PROVE TranTypeOK'
  BY <1>1 DEF TranTypeOK, AppendInPlace, Place
<1>2. ASSUME NEW op \in Ops, AppendGrowing(op) PROVE TranTypeOK'
  BY <1>2, ListSizeAssumption DEF TranTypeOK, AppendGrowing, Place
<1>3. CASE AppendFails
  BY <1>3, ListSizeAssumption DEF TranTypeOK, AppendFails
<1>4. CASE RenewTran
  <2>1. op_buffer' \in [1 .. allocated' -> Ops \cup {Unset}]
    BY <1>4 DEF RenewTran
  <2>2. accepted' \in Seq(Ops)
    BY <1>4 DEF RenewTran
  <2> QED
    BY <1>4, <2>1, <2>2, ListSizeAssumption DEF RenewTran, TranTypeOK
<1>5. CASE UNCHANGED tran_vars
  BY <1>5 DEF TranTypeOK, tran_vars
<1> QED
  BY <1>1, <1>2, <1>3, <1>4, <1>5 DEF TranNext

\* cceph_os_tran_new and cceph_os_tran_new_op keep the types of the list.
THEOREM TypeCorrect == TranSpec => []TranTypeOK
<1>1. TranInit => TranTypeOK
  BY TranTypeInit
<1>2. TranTypeOK /\ [TranNext]_tran_vars => TranTypeOK'
  BY TranTypeNext
<1> QED
  BY <1>1, <1>2, PTL DEF TranSpec

----------------------------------------------------------------------------
\* What makes OpsInOrder inductive: op_buffer_length is the length of the
\* array until an append fails, after which nothing is appended.
LengthIsAllocated == append_ret = "OK" => op_buffer_length = allocated

TranInv == TranTypeOK /\ OpsInOrder /\ LengthIsAllocated

\* A new transaction is in order.
LEMMA TranInvInit == TranInit => TranInv
<1> SUFFICES ASSUME TranInit PROVE TranInv
  OBVIOUS
<1>1. Len(accepted) = 0 /\ 1 .. op_buffer_index = {}
  BY DEF TranInit
<1>2. OpsInOrder
  BY <1>1, ListSizeAssumption DEF TranInit, OpsInOrder
<1> QED
  BY <1>2, TranTypeInit DEF TranInit, TranInv, LengthIsAllocated

\* An operation put after those of a list in order leaves a list in order, if
\* the array has a place for it and starts with the same operations.
LEMMA PlaceKeepsOrder ==
  ASSUME TranTypeOK, OpsInOrder, NEW op \in Ops, NEW n \in Nat, op_buffer_index < n,
         NEW buffer \in [1 .. n -> Ops \cup {Unset}],
         \A i \in 1 .. op_buffer_index : buffer[i] = op_buffer[i],
         Place(op, buffer, n)
  PROVE  OpsInOrder'
<1>1. Len(accepted') = op_buffer_index + 1 /\ op_buffer_index' = op_buffer_index + 1
  BY DEF Place, TranTypeOK, OpsInOrder
<1>2. ASSUME NEW i \in 1 .. op_buffer_index' PROVE op_buffer'[i] = accepted'[i]
  <2>1. op_buffer_index \in Nat /\ i \in Nat /\ i <= op_buffer_index + 1 /\ i >= 1
    BY <1>1 DEF TranTypeOK
  <2>2. op_buffer' = [buffer EXCEPT ![op_buffer_index + 1] = op]
    BY DEF Place
  <2>3. CASE i = op_buffer_index + 1
    BY <2>1, <2>2, <2>3 DEF Place, TranTypeOK, OpsInOrder
  <2>4. CASE i <= op_buffer_index
    <3>1. op_buffer'[i] = op_buffer[i]
      BY <2>1, <2>2, <2>4
    <3>2. accepted'[i] = accepted[i]
      BY <2>1, <2>4 DEF Place, TranTypeOK, OpsInOrder
    <3> QED
      BY <3>1, <3>2, <2>1, <2>4 DEF OpsInOrder, GetOp
  <2> QED
    BY <2>1, <2>3, <2>4
<1>3. op_buffer_index' <= allocated'
  BY DEF Place, TranTypeOK
<1> QED
  BY <1>1, <1>2, <1>3 DEF OpsInOrder, GetOp

\* A step of a caller that gives up after a failure keeps the order: no write
\* goes past the array, and growing it copies all of the operations.
LEMMA TranInvNext == ~KeepsGoing /\ TranInv /\ [TranNext]_tran_vars => TranInv'
<1> SUFFICES ASSUME ~KeepsGoing, TranInv, [TranNext]_tran_vars PROVE TranInv'
  OBVIOUS
<1>0. TranTypeOK'
  BY TranTypeNext DEF TranInv
<1>1. ASSUME NEW op \in Ops, AppendInPlace(op) PROVE OpsInOrder' /\ LengthIsAllocated'
  <2>1. op_buffer_length = allocated /\ op_buffer_index < allocated
    BY <1>1 DEF TranInv, LengthIsAllocated, AppendInPlace, CanAppend
  <2>2. OpsInOrder'
    BY <1>1, <2>1, PlaceKeepsOrder DEF TranInv, TranTypeOK, AppendInPlace
  <2> QED
    BY <1>1, <2>1, <2>2 DEF LengthIsAllocated, AppendInPlace, Place
<1>2. ASSUME NEW op \in Ops, AppendGrowing(op) PROVE OpsInOrder' /\ LengthIsAllocated'
  <2> DEFINE n == op_buffer_length + LIST_SIZE
             grown == [i \in 1 .. n |-> IF i <= op_buffer_length /\ i <= allocated
                                           THEN op_buffer[i] ELSE Unset]
  <2>1. op_buffer_length = allocated /\ op_buffer_index = allocated
    BY <1>2 DEF TranInv, LengthIsAllocated, AppendGrowing, CanAppend
  <2>2. n \in Nat /\ op_buffer_index < n
    BY <2>1, ListSizeAssumption DEF TranInv, TranTypeOK
  <2>3. grown \in [1 .. n -> Ops \cup {Unset}]
    BY <2>1 DEF TranInv, TranTypeOK
  <2>4. \A i \in 1 .. op_buffer_index : grown[i] = op_buffer[i]
    BY <2>1, <2>2 DEF TranInv, TranTypeOK
  <2>5. Place(op, grown, n) /\ op_buffer_length' = n
    BY <1>2 DEF AppendGrowing
  <2>6. OpsInOrder'
    BY <2>2, <2>3, <2>4, <2>5, PlaceKeepsOrder DEF TranInv
  <2> QED
    BY <2>5, <2>6 DEF LengthIsAllocated, Place
<1>3. CASE AppendFails
  BY <1>0, <1>3 DEF TranInv, OpsInOrder, GetOp, LengthIsAllocated, AppendFails
<1>4. CASE RenewTran
  <2>1. Len(accepted') = 0 /\ 1 .. op_buffer_index' = {}
    BY <1>4 DEF RenewTran
  <2> QED
    BY <1>0, <1>4, <2>1, ListSizeAssumption DEF RenewTran, TranInv, OpsInOrder, LengthIsAllocated
<1>5. CASE UNCHANGED tran_vars
  BY <1>0, <1>5 DEF TranInv, OpsInOrder, GetOp, LengthIsAllocated, tran_vars
<1> QED
  BY <1>0, <1>1, <1>2, <1>3, <1>4, <1>5 DEF TranInv, TranNext

\* A caller that stops after a failure finds its operations in order: no write
\* goes past the array, and growing it copies all of them.
THEOREM OrderKept == (~KeepsGoing /\ TranSpec) => []OpsInOrder
<1>1. TranInv => OpsInOrder
  BY DEF TranInv
<1>2. CASE KeepsGoing
  BY <1>2
<1>3. CASE ~KeepsGoing
  <2>1. TranInv /\ [TranNext]_tran_vars => TranInv'
    BY <1>3, TranInvNext
  <2> QED
    BY <2>1, <1>1, TranInvInit, PTL DEF TranSpec
<1> QED
  BY <1>2, <1>3

----------------------------------------------------------------------------
\* What a user of the store does with its list is a step of the list.
LEMMA UserTranStep == TranTypeOK /\ [UserNext]_user_vars => [TranNext]_tran_vars
<1> SUFFICES ASSUME TranTypeOK, [UserNext]_user_vars PROVE [TranNext]_tran_vars
  OBVIOUS
<1>1. CASE AppendNext
  <2>1. ASSUME NEW new \in Transactions, Len(accepted) < Len(new)
        PROVE  new[Len(accepted) + 1] \in Ops
    BY <2>1, OpsAssumption DEF TranTypeOK
  <2> QED
    BY <1>1, <2>1 DEF AppendNext, TranNext
<1>2. CASE SubmitBuilt \/ GiveUp
  BY <1>2 DEF SubmitBuilt, GiveUp, TranNext
<1>3. CASE UserReads \/ \E t \in Threads : Creating(t)
  BY <1>3 DEF UserReads, Creating
<1>4. CASE UNCHANGED user_vars
  BY <1>4 DEF user_vars
<1> QED
  BY <1>1, <1>2, <1>3, <1>4 DEF UserNext

\* What the store finds in a list in order is what was appended to it.
LEMMA BuiltIsAccepted == TranInv => Built = accepted
BY DEF TranInv, TranTypeOK, OpsInOrder, Built

\* And its calls are calls of OsdCreate, or nothing that concerns the store.
LEMMA UserCreateStep ==
  TranInv /\ [UserNext]_user_vars => [CreateNext]_<<vars, create_vars>>
<1> SUFFICES ASSUME TranInv, [UserNext]_user_vars PROVE [CreateNext]_<<vars, create_vars>>
  OBVIOUS
<1>1. CASE AppendNext
  BY <1>1 DEF AppendNext
<1>2. ASSUME ~aborted, SubmitBuilt \/ GiveUp \/ UserReads PROVE CreateNext
  <2>1. SubmitBuilt => \E new \in Transactions : Submit(User, new)
    BY BuiltIsAccepted DEF SubmitBuilt
  <2>2. UseStore(User)
    BY <1>2, <2>1, UserAssumption DEF UseStore, UserRuns, SubmitBuilt, GiveUp, UserReads
  <2> QED
    BY <1>2, <2>2, UserAssumption DEF CreateNext
<1>3. ASSUME ~aborted, NEW t \in Threads, Creating(t) PROVE CreateNext
  BY <1>3 DEF Creating, CreateNext
<1>4. CASE UNCHANGED user_vars
  BY <1>4 DEF user_vars
<1> QED
  BY <1>1, <1>2, <1>3, <1>4 DEF UserNext

\* A user that builds its transactions operation by operation and gives up when
\* an append fails has them in order in its list.
THEOREM UserOrderKept == (~KeepsGoing /\ UserSpec) => []OpsInOrder
<1>1. TranInv => OpsInOrder /\ TranTypeOK
  BY DEF TranInv
<1>2. UserInit => TranInv
  BY TranInvInit DEF UserInit
<1>3. CASE KeepsGoing
  BY <1>3
<1>4. CASE ~KeepsGoing
  <2>1. TranInv /\ [UserNext]_user_vars => TranInv'
    BY <1>1, <1>4, UserTranStep, TranInvNext
  <2> QED
    BY <2>1, <1>1, <1>2, PTL DEF UserSpec
<1> QED
  BY <1>3, <1>4

\* And is a user of OsdCreate, where a transaction is submitted as a whole: what
\* is proved of that holds of this one too.
THEOREM UserImplements == (~KeepsGoing /\ UserSpec) => CreateSpec
<1>1. TranInv => OpsInOrder /\ TranTypeOK
  BY DEF TranInv
<1>2. UserInit => TranInv /\ CreateInit
  BY TranInvInit DEF UserInit
<1>3. TranInv /\ [UserNext]_user_vars => [CreateNext]_<<vars, create_vars>>
  BY UserCreateStep
<1>4. CASE KeepsGoing
  BY <1>4
<1>5. CASE ~KeepsGoing
  <2>1. TranInv /\ [UserNext]_user_vars => TranInv'
    BY <1>1, <1>5, UserTranStep, TranInvNext
  <2> QED
    BY <2>1, <1>2, <1>3, PTL DEF UserSpec, CreateSpec
<1> QED
  BY <1>4, <1>5
=============================================================================
