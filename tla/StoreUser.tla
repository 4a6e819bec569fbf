------------------------------ MODULE StoreUser ------------------------------
(***************************************************************************)
(* The store of OsdCreate with a user that builds its transactions as      *)
(* those in os/object_store.c do: cceph_os_tran_new, an append for each    *)
(* operation, and the transaction given up when one of them fails.  What   *)
(* reaches the store is what op_buffer holds.                              *)
(***************************************************************************)
EXTENDS OsdCreate, Transaction

CONSTANT User    \* the one thread that uses the store otherwise

ASSUME UserAssumption == User \in Threads /\ Users = {User}
ASSUME OpsAssumption  == Transactions \subseteq Seq(Ops)

UserInit == CreateInit /\ TranInit

\* User runs, outside of cceph_osd_create.
UserRuns == pc[User] = "idle" /\ step[User] = 0

\* The next operation of a transaction that starts with those accepted so far.
AppendNext ==
  /\ UserRuns
  /\ \/ \E new \in Transactions :
          /\ Len(accepted) < Len(new) /\ IsPrefix(accepted, new)
          /\ LET op == new[Len(accepted) + 1] IN AppendInPlace(op) \/ AppendGrowing(op)
     \/ MallocMayFail /\ AppendFails
  /\ UNCHANGED <<vars, create_vars>>

\* What the store finds with cceph_os_tran_get_op_count and cceph_os_tran_get_op.
Built == [i \in 1 .. op_buffer_index |-> GetOp(i)]

\* The list is the user's own and unchanged until the call returns, when it is
\* freed; here the store keeps in tran what it holds, and the next one begins.
SubmitBuilt ==
  /\ UserRuns
  /\ append_ret = "OK" /\ accepted \in Transactions
  /\ Submit(User, Built)
  /\ RenewTran
  /\ UNCHANGED create_vars

\* cceph_os_tran_new or an append has failed, and the list is freed.
GiveUp ==
  /\ UserRuns
  /\ accepted = << >> \/ append_ret # "OK"
  /\ BuildFails(User)
  /\ RenewTran
  /\ UNCHANGED create_vars

\* Functions that build a transaction do nothing else before they submit it.
NoTran == accepted = << >> /\ append_ret = "OK"

UserReads ==
  /\ UserRuns /\ NoTran
  /\ \E q \in Queries : Read(User, q)
  /\ UNCHANGED <<create_vars, tran_vars>>

Creating(t) ==
  /\ t = User => NoTran \/ pc[t] # "idle"
  /\ BeginCreate(t) \/ NextCall(t) \/ CreateReturns(t) \/ StoreGoesOn(t)
  /\ UNCHANGED tran_vars

UserNext ==
  /\ ~aborted
  /\ \/ AppendNext \/ SubmitBuilt \/ GiveUp \/ UserReads
     \/ \E t \in Threads : Creating(t)

user_vars == <<vars, create_vars, tran_vars>>

UserSpec == UserInit /\ [][UserNext]_user_vars

\* As FairCreateSpec: a thread that holds the lock goes on.
FairUserSpec ==
  /\ UserSpec
  /\ \A t \in Threads : WF_user_vars((DoOp(t) \/ Unlock(t)) /\ UNCHANGED <<create_vars, tran_vars>>)
=============================================================================
