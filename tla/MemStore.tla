------------------------------ MODULE MemStore ------------------------------
(***************************************************************************)
(* The in-memory object store (os/mem_store.c) with its maps (os/types.c)  *)
(* and the threads that submit transactions to it and read it.             *)
(*                                                                         *)
(* The lock is held for a whole transaction, whose operations run one by   *)
(* one, each a step of its own; a read is one step, made while the lock is *)
(* free.  A failed assertion ends the process.  A red-black tree is the    *)
(* finite function it holds; what malloc refuses is chosen.                *)
(***************************************************************************)
EXTENDS StoreSemantics

CONSTANTS Threads,
          Transactions,   \* the op_buffers threads submit, none empty
          Queries,        \* the reads they make
          MallocMayFail,
          IntLimit,       \* an int is from -IntLimit to IntLimit - 1
          NoThread

ASSUME NoThreadAssumption == NoThread \notin Threads
ASSUME MallocAssumption == MallocMayFail \in BOOLEAN
ASSUME IntAssumption == IntLimit \in Nat \ {0}
ASSUME TransactionsAssumption == \A new \in Transactions : IsTran(new)

VARIABLES colls,    \* mem_store->colls: the collections, by cid
          lock,     \* mem_store->lock: its holder or NoThread
          pc,       \* pc[t]: "idle", "lock" or "exec" in submit_tran
          tran,     \* tran[t]: the transaction t is submitting, or << >>
          next_op,  \* next_op[t]: i + 1
          ret,      \* ret[t]: ret of submit_tran
          answer,   \* answer[t]: what the last call of t returned
          aborted   \* an assertion failed

vars == <<colls, lock, pc, tran, next_op, ret, answer, aborted>>

NoAnswer == [ret |-> "none", value |-> << >>]

Init == /\ colls = << >>
        /\ lock = NoThread
        /\ pc = [t \in Threads |-> "idle"]
        /\ tran = [t \in Threads |-> << >>]
        /\ next_op = [t \in Threads |-> 1]
        /\ ret = [t \in Threads |-> "OK"]
        /\ answer = [t \in Threads |-> NoAnswer]
        /\ aborted = FALSE

----------------------------------------------------------------------------
\* cceph_os_map_update: the keys of input in order, up to the first one whose
\* new node malloc refuses; refused is {} if it refuses none.  That key has
\* already been removed.
MapUpdate(map, input, refused) ==
  LET done == {k \in DOMAIN input : \A r \in refused : k < r}
      kept == DOMAIN map \ (done \cup refused)
      set  == {k \in done : input[k] # Empty}
  IN  [k \in kept \cup set |-> IF k \in set THEN input[k] ELSE map[k]]

Refusable(input) ==
  {{}} \cup {{k} : k \in {k \in DOMAIN input : MallocMayFail /\ input[k] # Empty}}

\* mutation: the old bytes are not copied when the data is extended.
WriteDataAfresh(data, offset, new) ==
  LET end == offset + Len(new)
      old == IF Len(data) < end THEN [i \in 1 .. end |-> 0] ELSE data
  IN  [i \in DOMAIN old |-> IF i \in offset + 1 .. end THEN new[i - offset] ELSE old[i]]

\* The part of cceph_mem_store_do_op_obj_write that copies bytes: the data is
\* extended with zeros to the end of the write if it is too short.
WriteData(data, offset, new) ==
  LET end      == offset + Len(new)
      extended == IF Len(data) < end THEN data \o [i \in 1 .. end - Len(data) |-> 0] ELSE data
  IN  [i \in DOMAIN extended |->
         IF i \in offset + 1 .. end THEN new[i - offset] ELSE extended[i]]

----------------------------------------------------------------------------
\* cceph_mem_store_submit_tran

Submit(t, new) ==
  /\ pc[t] = "idle"
  /\ pc' = [pc EXCEPT ![t] = "lock"]
  /\ tran' = [tran EXCEPT ![t] = new]
  /\ answer' = [answer EXCEPT ![t] = NoAnswer]
  /\ UNCHANGED <<colls, lock, next_op, ret, aborted>>

\* object_store.c: a transaction or its map is not built for lack of memory.
BuildFails(t) ==
  /\ pc[t] = "idle"
  /\ MallocMayFail
  /\ answer' = [answer EXCEPT ![t] = [ret |-> "NO_ENOUGH_MEM", value |-> << >>]]
  /\ UNCHANGED <<colls, lock, pc, tran, next_op, ret, aborted>>

Lock(t) ==
  /\ pc[t] = "lock"
  /\ lock = NoThread
  /\ lock' = t
  /\ pc' = [pc EXCEPT ![t] = "exec"]
  /\ ret' = [ret EXCEPT ![t] = "OK"]
  /\ next_op' = [next_op EXCEPT ![t] = 1]
  /\ UNCHANGED <<colls, tran, answer, aborted>>

\* mutation: an operation that fails does not break the loop.
LoopEndsAfterAll(t) == next_op[t] > Len(tran[t])

LoopEnds(t) == ret[t] # "OK" \/ next_op[t] > Len(tran[t])

\* mutation: an error returns from inside of the loop.
UnlockUnlessError(t) ==
  /\ pc[t] = "exec"
  /\ LoopEnds(t)
  /\ lock' = IF ret[t] = "OK" THEN NoThread ELSE lock
  /\ pc' = [pc EXCEPT ![t] = "idle"]
  /\ answer' = [answer EXCEPT ![t] = [ret |-> ret[t], value |-> << >>]]
  /\ tran' = [tran EXCEPT ![t] = << >>]
  /\ next_op' = [next_op EXCEPT ![t] = 1]
  /\ ret' = [ret EXCEPT ![t] = "OK"]
  /\ UNCHANGED <<colls, aborted>>

\* The wrappers of object_store.c free the transaction when it returns.
Unlock(t) ==
  /\ pc[t] = "exec"
  /\ LoopEnds(t)
  /\ lock' = NoThread
  /\ pc' = [pc EXCEPT ![t] = "idle"]
  /\ answer' = [answer EXCEPT ![t] = [ret |-> ret[t], value |-> << >>]]
  /\ tran' = [tran EXCEPT ![t] = << >>]
  /\ next_op' = [next_op EXCEPT ![t] = 1]
  /\ ret' = [ret EXCEPT ![t] = "OK"]
  /\ UNCHANGED <<colls, aborted>>

----------------------------------------------------------------------------
\* cceph_mem_store_do_op and the operations it calls

Op(t) == tran[t][next_op[t]]

Doing(t, kinds) == /\ pc[t] = "exec"
                   /\ ~LoopEnds(t)
                   /\ Op(t).op \in kinds

\* An operation returns code and leaves the store s.
Returns(t, code, s) ==
  /\ colls' = s
  /\ ret' = [ret EXCEPT ![t] = code]
  /\ next_op' = [next_op EXCEPT ![t] = @ + 1]
  /\ UNCHANGED <<lock, pc, tran, answer, aborted>>

HasColl(q) == q.cid \in DOMAIN colls
HasObj(q)  == HasColl(q) /\ q.oid \in DOMAIN colls[q.cid].objects
Obj(q)     == colls[q.cid].objects[q.oid]

DoCollCreate(t) ==
  /\ Doing(t, {"COLL_CREATE"})
  /\ \/ HasColl(Op(t)) /\ Returns(t, "COLL_ALREADY_EXIST", colls)
     \/ ~HasColl(Op(t)) /\ MallocMayFail /\ Returns(t, "NO_ENOUGH_MEM", colls)
     \/ ~HasColl(Op(t)) /\ Returns(t, "OK", With(colls, Op(t).cid, EmptyColl))

DoCollRemove(t) ==
  /\ Doing(t, {"COLL_REMOVE"})
  /\ \/ ~HasColl(Op(t)) /\ Returns(t, "COLL_NOT_EXIST", colls)
     \/ HasColl(Op(t)) /\ Returns(t, "OK", Without(colls, Op(t).cid))

DoCollMap(t) ==
  /\ Doing(t, {"COLL_MAP"})
  /\ \/ ~HasColl(Op(t)) /\ Returns(t, "MAP_NODE_NOT_EXIST", colls)
     \/ /\ HasColl(Op(t))
        /\ \E refused \in Refusable(Op(t).map) :
             Returns(t, "OK", [colls EXCEPT ![Op(t).cid].map = MapUpdate(@, Op(t).map, refused)])

\* A touch is a write of length 0.
Length(op) == IF op.op = "OBJ_TOUCH" THEN 0 ELSE Len(op.data)

WithObject(op, object) == [colls EXCEPT ![op.cid].objects = With(@, op.oid, object)]

DoObjWriteFails(t) ==
  /\ Doing(t, {"OBJ_TOUCH", "OBJ_WRITE"})
  /\ Op(t).offset >= 0
  /\ \/ ~HasColl(Op(t)) /\ Returns(t, "COLL_NOT_EXIST", colls)
     \/ HasColl(Op(t)) /\ ~HasObj(Op(t)) /\ MallocMayFail /\ Returns(t, "NO_ENOUGH_MEM", colls)

\* mutation: the old data is freed before the new is there.
DoObjWriteFreeingFirst(t) ==
  LET op   == Op(t)
      old  == IF HasObj(op) THEN Obj(op) ELSE EmptyObject
  IN /\ Doing(t, {"OBJ_TOUCH", "OBJ_WRITE"})
     /\ op.offset >= 0
     /\ HasColl(op)
     /\ \/ Length(op) = 0 /\ Returns(t, "OK", WithObject(op, old))
        \/ /\ Length(op) > 0
           /\ MallocMayFail /\ Len(old.data) < op.offset + Length(op)
           /\ Returns(t, "NO_ENOUGH_MEM", WithObject(op, [old EXCEPT !.data = << >>]))
        \/ /\ Length(op) > 0
           /\ Returns(t, "OK", WithObject(op, [old EXCEPT !.data = WriteData(@, op.offset, op.data)]))

\* A new object is in its collection before its data is allocated.
DoObjWrite(t) ==
  LET op   == Op(t)
      old  == IF HasObj(op) THEN Obj(op) ELSE EmptyObject
  IN /\ Doing(t, {"OBJ_TOUCH", "OBJ_WRITE"})
     /\ op.offset >= 0
     /\ HasColl(op)
     /\ \/ Length(op) = 0 /\ Returns(t, "OK", WithObject(op, old))
        \/ /\ Length(op) > 0
           /\ MallocMayFail /\ Len(old.data) < op.offset + Length(op)
           /\ Returns(t, "NO_ENOUGH_MEM", WithObject(op, old))
        \/ /\ Length(op) > 0
           /\ Returns(t, "OK", WithObject(op, [old EXCEPT !.data = WriteData(@, op.offset, op.data)]))

\* assert(log_id, op->offset >= 0)
DoObjWriteAborts(t) ==
  /\ Doing(t, {"OBJ_TOUCH", "OBJ_WRITE"})
  /\ Op(t).offset < 0
  /\ aborted' = TRUE
  /\ UNCHANGED <<colls, lock, pc, tran, next_op, ret, answer>>

DoObjRemove(t) ==
  /\ Doing(t, {"OBJ_REMOVE"})
  /\ \/ ~HasColl(Op(t)) /\ Returns(t, "COLL_NOT_EXIST", colls)
     \/ HasColl(Op(t)) /\ ~HasObj(Op(t)) /\ Returns(t, "OBJECT_NOT_EXIST", colls)
     \/ /\ HasObj(Op(t))
        /\ Returns(t, "OK", [colls EXCEPT ![Op(t).cid].objects = Without(@, Op(t).oid)])

DoObjMap(t) ==
  /\ Doing(t, {"OBJ_MAP"})
  /\ \/ ~HasObj(Op(t)) /\ Returns(t, "MAP_NODE_NOT_EXIST", colls)
     \/ /\ HasObj(Op(t))
        /\ \E refused \in Refusable(Op(t).map) :
             Returns(t, "OK", WithObject(Op(t), [Obj(Op(t)) EXCEPT !.map = MapUpdate(@, Op(t).map, refused)]))

DoOp(t) == \/ DoCollCreate(t) \/ DoCollRemove(t) \/ DoCollMap(t)
           \/ DoObjWriteFails(t) \/ DoObjWrite(t) \/ DoObjWriteAborts(t)
           \/ DoObjRemove(t) \/ DoObjMap(t)

----------------------------------------------------------------------------
\* The reads.  Each takes the lock, and gives it back, in the same step.

Asks(t, q, kinds) == /\ pc[t] = "idle"
                     /\ lock = NoThread
                     /\ q.read \in kinds

Answers(t, code, value) ==
  /\ answer' = [answer EXCEPT ![t] = [ret |-> code, value |-> value]]
  /\ UNCHANGED <<colls, lock, pc, tran, next_op, ret, aborted>>

NoMem(t) == MallocMayFail /\ Answers(t, "NO_ENOUGH_MEM", << >>)

\* What an int makes of n.
AsInt(n) == ((n + IntLimit) % (2 * IntLimit)) - IntLimit

\* int read_length
ReadLength(q, length) ==
  LET asked == AsInt(q.length)
      wanted == IF asked <= 0 THEN AsInt(length) ELSE asked
  IN  IF wanted > length - q.offset THEN AsInt(length - q.offset) ELSE wanted

DoReadObj(t, q) ==
  LET data == Obj(q).data
  IN /\ Asks(t, q, {"READ_OBJ"})
     /\ \/ ~HasColl(q) /\ Answers(t, "COLL_NOT_EXIST", << >>)
        \/ HasColl(q) /\ ~HasObj(q) /\ Answers(t, "OBJECT_NOT_EXIST", << >>)
        \/ HasObj(q) /\ Len(data) <= q.offset /\ Answers(t, "OK", << >>)
        \/ /\ HasObj(q) /\ Len(data) > q.offset
           /\ \/ NoMem(t)
              \/ Answers(t, "OK", SubSeq(data, q.offset + 1, q.offset + ReadLength(q, Len(data))))

DoListColl(t, q) ==
  /\ Asks(t, q, {"LIST_COLL"})
  /\ NoMem(t) \/ Answers(t, "OK", ListOf(colls))

DoExistColl(t, q) ==
  /\ Asks(t, q, {"EXIST_COLL"})
  /\ Answers(t, "OK", <<IF HasColl(q) THEN 1 ELSE 0>>)

\* The map is copied into the caller's, which is empty here.
DoReadMap(t, q) ==
  \/ /\ Asks(t, q, {"READ_COLL_MAP"})
     /\ \/ ~HasColl(q) /\ Answers(t, "COLL_NOT_EXIST", << >>)
        \/ /\ HasColl(q)
           /\ \E refused \in Refusable(colls[q.cid].map) :
                Answers(t, "OK", MapUpdate(<< >>, colls[q.cid].map, refused))
  \/ /\ Asks(t, q, {"READ_OBJ_MAP"})
     /\ \/ ~HasObj(q) /\ Answers(t, "MAP_NODE_NOT_EXIST", << >>)
        \/ /\ HasObj(q)
           /\ \E refused \in Refusable(Obj(q).map) :
                Answers(t, "OK", MapUpdate(<< >>, Obj(q).map, refused))

DoReadMapKey(t, q) ==
  LET Value(map) ==
        \/ q.key \notin DOMAIN map /\ Answers(t, "MAP_NODE_NOT_EXIST", << >>)
        \/ q.key \in DOMAIN map /\ (NoMem(t) \/ Answers(t, "OK", <<map[q.key]>>))
  IN /\ Asks(t, q, {"READ_COLL_MAP_KEY", "READ_OBJ_MAP_KEY"})
     /\ \/ ~HasColl(q) /\ Answers(t, "COLL_NOT_EXIST", << >>)
        \/ q.read = "READ_COLL_MAP_KEY" /\ HasColl(q) /\ Value(colls[q.cid].map)
        \/ /\ q.read = "READ_OBJ_MAP_KEY" /\ HasColl(q)
           /\ \/ ~HasObj(q) /\ Answers(t, "MAP_NODE_NOT_EXIST", << >>)
              \/ HasObj(q) /\ Value(Obj(q).map)

Read(t, q) == DoReadObj(t, q) \/ DoListColl(t, q) \/ DoExistColl(t, q)
              \/ DoReadMap(t, q) \/ DoReadMapKey(t, q)

----------------------------------------------------------------------------

Next == /\ ~aborted
        /\ \E t \in Threads :
             \/ \E new \in Transactions : Submit(t, new)
             \/ BuildFails(t) \/ Lock(t) \/ DoOp(t) \/ Unlock(t)
             \/ \E q \in Queries : Read(t, q)

Spec == Init /\ [][Next]_vars

\* A thread that holds the lock goes on; nothing is assumed of the mutex.
FairSpec == Spec /\ \A t \in Threads : WF_vars(DoOp(t) \/ Unlock(t))

----------------------------------------------------------------------------
\* The store is an ObjectStore when malloc always succeeds and no assertion
\* fails: the transaction that holds the lock has taken effect, as a whole,
\* when it got the lock.
Outcome(t) ==
  IF ret[t] # "OK" THEN [ret |-> ret[t], colls |-> colls]
  ELSE ApplyFrom(colls, tran[t], next_op[t])

OS == INSTANCE ObjectStore WITH
        store   <- IF lock = NoThread THEN colls ELSE Outcome(lock).colls,
        pending <- [t \in Threads |-> IF pc[t] = "lock" THEN tran[t] ELSE << >>],
        answer  <- [t \in Threads |->
                      IF pc[t] = "exec" THEN [ret |-> Outcome(t).ret, value |-> << >>] ELSE answer[t]]

RefinesObjectStore == OS!Spec

\* This needs writes that end where an int can count, and reads of at most
\* 2 * IntLimit bytes: the int of a length above IntLimit is not above 0, so the
\* whole object is read, as for any length beyond its end; the int of a length
\* above 2 * IntLimit may ask for any part of the object.
ReadFits(q) == q.read = "READ_OBJ" => q.offset \in Nat /\ q.length \in -IntLimit .. 2 * IntLimit
ReadsFit == \A q \in Queries : ReadFits(q)

WritesFit == \A new \in Transactions : \A i \in 1 .. Len(new) :
               new[i].op = "OBJ_WRITE" => new[i].offset + Len(new[i].data) < IntLimit

\* Whatever malloc refuses, an operation changes nothing but what it names:
\* no other collection, in its collection no other object, in its map no key
\* it does not give, and of its object no byte outside of the range it writes.
SameBut(f, g, x) == \A y \in DOMAIN f \cup DOMAIN g :
                      y # x => y \in DOMAIN f \cap DOMAIN g /\ f[y] = g[y]

SameKeysBut(f, g, input) == \A k \in (DOMAIN f \cup DOMAIN g) \ DOMAIN input :
                              k \in DOMAIN f \cap DOMAIN g /\ f[k] = g[k]

OnlyTheNamedChanges ==
  [][\A t \in Threads :
       pc[t] = "exec" /\ ~LoopEnds(t) /\ colls' # colls =>
         LET op     == Op(t)
             before == colls[op.cid]
             after  == colls'[op.cid]
             b      == before.objects[op.oid]
             a      == after.objects[op.oid]
         IN /\ SameBut(colls, colls', op.cid)
            /\ op.op = "COLL_MAP" => after.objects = before.objects
                                     /\ SameKeysBut(before.map, after.map, op.map)
            /\ op.op \in {"OBJ_TOUCH", "OBJ_WRITE", "OBJ_REMOVE", "OBJ_MAP"} =>
                 after.map = before.map /\ SameBut(before.objects, after.objects, op.oid)
            /\ op.op = "OBJ_MAP" => a.data = b.data /\ SameKeysBut(b.map, a.map, op.map)
            /\ op.op = "OBJ_WRITE" /\ op.oid \in DOMAIN before.objects =>
                 /\ a.map = b.map
                 /\ Len(a.data) >= Len(b.data)
                 /\ \A i \in DOMAIN b.data :
                      i \notin op.offset + 1 .. op.offset + Len(op.data) => a.data[i] = b.data[i]
    ]_vars

\* An operation that fails has changed nothing, except that a write may leave
\* the object it created, without data.
FailedOpsLoseNothing ==
  [][\A t \in Threads :
       pc[t] = "exec" /\ ~LoopEnds(t) /\ ret'[t] # "OK" =>
         \/ colls' = colls
         \/ /\ Op(t).op = "OBJ_WRITE" /\ ~HasObj(Op(t))
            /\ colls' = WithObject(Op(t), EmptyObject)
    ]_vars

\* The lock is given back by every call that took it, failed or not, unless
\* the process has ended.
LockIsReleased == \A t \in Threads : (lock = t) ~> (lock # t \/ aborted)

\* types.h:68: "if the key is in the result_tree and its input_value is not
\* NULL: update the result_tree to new value", when the update returns OK.
UpdateKeepsItsKeys ==
  [][\A t \in Threads :
       pc[t] = "exec" /\ ~LoopEnds(t) /\ Op(t).op = "COLL_MAP" /\ ret'[t] = "OK" =>
         \A k \in DOMAIN colls[Op(t).cid].map \cap DOMAIN Op(t).map :
            Op(t).map[k] # Empty => k \in DOMAIN colls'[Op(t).cid].map
    ]_vars
=============================================================================
