---------------------------- MODULE StoreProofs ----------------------------
(***************************************************************************)
(* The store changes by the operations of the thread that has the lock     *)
(* only: an operation that fails loses nothing, and none changes what it   *)
(* does not name, whatever threads submit and read and whatever malloc     *)
(* refuses.  Where malloc refuses nothing the store is an ObjectStore.     *)
(*                                                                         *)
(* Of any number of threads that create an OSD in one store at most one    *)
(* gets past its first call, the attributes are those of its OSD, and a    *)
(* store that was left half made stays so: whatever other threads do to    *)
(* their collections and whatever malloc refuses.                          *)
(***************************************************************************)
EXTENDS OsdCreate, FiniteSetTheorems, SequenceTheorems, WellFoundedInduction, TLAPS

----------------------------------------------------------------------------
(***************************************************************************)
(* The store: MemStore.                                                    *)
(***************************************************************************)

\* The calls of threads, whatever their transactions and reads.
StoreStep ==
  \E t \in Threads :
     \/ \E new : IsTran(new) /\ Submit(t, new)
     \/ BuildFails(t) \/ Lock(t) \/ DoOp(t) \/ Unlock(t)
     \/ \E q : Read(t, q)

StoreSpec == Init /\ [][StoreStep]_vars

\* The transactions and reads of MemStore are some.
LEMMA SpecIsStoreSpec == Spec => StoreSpec
<1>1. [Next]_vars => [StoreStep]_vars
  BY TransactionsAssumption DEF Next, StoreStep
<1> QED BY <1>1, PTL DEF Spec, StoreSpec

IsMap(f) == f = [x \in DOMAIN f |-> f[x]]

\* A map of a collection or an object, which never holds an empty value.
IsAttrs(map) == IsMap(map) /\ \A k \in DOMAIN map : map[k] # Empty

IsObject(object) == /\ object = [data |-> object.data, map |-> object.map]
                    /\ object.data \in Seq(Int)
                    /\ IsAttrs(object.map)

AreObjects(objects) == IsMap(objects) /\ \A o \in DOMAIN objects : IsObject(objects[o])

IsColl(coll) == /\ coll = [objects |-> coll.objects, map |-> coll.map]
                /\ AreObjects(coll.objects)
                /\ IsAttrs(coll.map)

\* mem_store->colls is a map of collections.
StoreOK == IsMap(colls) /\ \A c \in DOMAIN colls : IsColl(colls[c])

\* What a thread has submitted, and where it is in it.
TransKnown ==
  \A t \in Threads : /\ pc[t] # "idle" => IsTran(tran[t])
                     /\ pc[t] = "exec" => next_op[t] \in 1 .. Len(tran[t]) + 1

TypeOK ==
  /\ lock \in Threads \cup {NoThread}
  /\ pc \in [Threads -> {"idle", "lock", "exec"}]
  /\ tran = [t \in Threads |-> tran[t]]
  /\ next_op = [t \in Threads |-> next_op[t]]
  /\ ret = [t \in Threads |-> ret[t]]
  /\ answer = [t \in Threads |-> answer[t]]
  /\ aborted \in BOOLEAN
  /\ StoreOK

\* Only the thread that has the lock is at an operation.
LockHeld == \A t \in Threads : pc[t] = "exec" <=> lock = t

SInv == TypeOK /\ LockHeld /\ TransKnown

LEMMA SInvInit == Init => SInv
<1> SUFFICES ASSUME Init PROVE SInv
  OBVIOUS
<1>1. StoreOK
  BY DEF Init, StoreOK, IsMap
<1>2. TypeOK
  BY <1>1 DEF Init, TypeOK
<1>3. LockHeld
  BY NoThreadAssumption DEF Init, LockHeld
<1>4. TransKnown
  BY DEF Init, TransKnown
<1> QED BY <1>2, <1>3, <1>4 DEF SInv

\* An update takes no key from the map that it does not give and that malloc
\* does not refuse, and leaves no empty value.
LEMMA MapUpdated ==
  ASSUME NEW map, NEW input, NEW refused \in Refusable(input)
  PROVE  /\ SameKeysBut(map, MapUpdate(map, input, refused), input)
         /\ IsAttrs(map) => IsAttrs(MapUpdate(map, input, refused))
<1> DEFINE done == {k \in DOMAIN input : \A r \in refused : k < r}
           kept == DOMAIN map \ (done \cup refused)
           set  == {k \in done : input[k] # Empty}
           new  == [k \in kept \cup set |-> IF k \in set THEN input[k] ELSE map[k]]
<1>1. MapUpdate(map, input, refused) = new
  BY DEF MapUpdate
<1>2. done \subseteq DOMAIN input /\ refused \subseteq DOMAIN input /\ set \subseteq done
  BY DEF Refusable
<1>3. \A k \in set : input[k] # Empty
  OBVIOUS
<1>4. \A k \in DOMAIN map : k \notin DOMAIN input => k \in kept
  BY <1>2
<1>5. kept \subseteq DOMAIN map
  OBVIOUS
<1> HIDE DEF done, kept, set
<1>6. SameKeysBut(map, new, input)
  BY <1>2, <1>4, <1>5 DEF SameKeysBut
<1>7. IsAttrs(map) => IsAttrs(new)
  BY <1>3, <1>5 DEF IsAttrs, IsMap
<1> QED BY <1>1, <1>6, <1>7

\* The bytes an object has after a write that fits it or extends it.
LEMMA DataWritten ==
  ASSUME NEW data \in Seq(Int), NEW offset \in Nat, NEW new \in Seq(Int)
  PROVE  LET end    == offset + Len(new)
             result == WriteData(data, offset, new)
         IN  /\ result \in Seq(Int)
             /\ Len(result) = IF Len(data) < end THEN end ELSE Len(data)
             /\ \A i \in 1 .. Len(result) :
                  result[i] = IF i > offset /\ i <= end THEN new[i - offset]
                              ELSE IF i <= Len(data) THEN data[i] ELSE 0
<1> DEFINE end      == offset + Len(new)
           zeros    == [i \in 1 .. end - Len(data) |-> 0]
           extended == IF Len(data) < end THEN data \o zeros ELSE data
           length   == IF Len(data) < end THEN end ELSE Len(data)
           result   == [i \in DOMAIN extended |->
                          IF i \in offset + 1 .. end THEN new[i - offset] ELSE extended[i]]
<1>1. Len(data) \in Nat /\ Len(new) \in Nat /\ end \in Nat /\ length \in Nat
  OBVIOUS
<1>2. WriteData(data, offset, new) = result
  BY DEF WriteData
<1>3. /\ extended \in Seq(Int) /\ Len(extended) = length
      /\ \A i \in 1 .. length : extended[i] = IF i <= Len(data) THEN data[i] ELSE 0
  <2>1. CASE Len(data) < end
    <3>1. end - Len(data) \in Nat
      BY <1>1, <2>1
    <3>2. zeros \in Seq(Int) /\ Len(zeros) = end - Len(data)
      BY <3>1
    <3>3. \A i \in 1 .. end - Len(data) : zeros[i] = 0
      OBVIOUS
    <3> HIDE DEF zeros
    <3>4. data \o zeros \in Seq(Int) /\ Len(data \o zeros) = end
      BY <1>1, <3>2
    <3>5. \A i \in 1 .. end : (data \o zeros)[i] = IF i <= Len(data) THEN data[i] ELSE zeros[i - Len(data)]
      BY <1>1, <3>2
    <3>6. \A i \in 1 .. end : i > Len(data) => zeros[i - Len(data)] = 0
      <4> SUFFICES ASSUME NEW i \in 1 .. end, i > Len(data) PROVE zeros[i - Len(data)] = 0
        OBVIOUS
      <4>1. i - Len(data) \in 1 .. end - Len(data)
        BY <1>1
      <4> QED BY <3>3, <4>1
    <3> QED BY <1>1, <2>1, <3>4, <3>5, <3>6
  <2>2. CASE ~(Len(data) < end)
    BY <1>1, <2>2
  <2> QED BY <2>1, <2>2
<1> HIDE DEF extended
<1>4. DOMAIN extended = 1 .. length
  BY <1>3
<1>5. \A i \in 1 .. length : result[i] = IF i > offset /\ i <= end THEN new[i - offset]
                                         ELSE IF i <= Len(data) THEN data[i] ELSE 0
  <2> SUFFICES ASSUME NEW i \in 1 .. length
               PROVE  result[i] = IF i > offset /\ i <= end THEN new[i - offset]
                                  ELSE IF i <= Len(data) THEN data[i] ELSE 0
    OBVIOUS
  <2>1. result[i] = IF i \in offset + 1 .. end THEN new[i - offset] ELSE extended[i]
    BY <1>4
  <2>2. i \in offset + 1 .. end <=> i > offset /\ i <= end
    BY <1>1
  <2> QED BY <1>3, <2>1, <2>2
<1>6. \A i \in 1 .. length : result[i] \in Int
  <2> SUFFICES ASSUME NEW i \in 1 .. length PROVE result[i] \in Int
    OBVIOUS
  <2>1. i > offset /\ i <= end => i - offset \in 1 .. Len(new)
    BY <1>1
  <2>2. i <= Len(data) => i \in 1 .. Len(data)
    BY <1>1
  <2>3. i > offset /\ i <= end => new[i - offset] \in Int
    BY <2>1
  <2>4. i <= Len(data) => data[i] \in Int
    BY <2>2
  <2>5. result[i] = IF i > offset /\ i <= end THEN new[i - offset]
                    ELSE IF i <= Len(data) THEN data[i] ELSE 0
    BY <1>5
  <2> HIDE DEF result
  <2> QED BY <2>3, <2>4, <2>5
<1>7. result = [i \in 1 .. length |-> result[i]]
  BY <1>4
<1>8. result \in Seq(Int) /\ Len(result) = length
  <2> HIDE DEF result, length
  <2>1. result \in [1 .. length -> Int]
    BY <1>6, <1>7
  <2> QED BY <1>1, <2>1
<1> HIDE DEF result, length
<1>9. length = IF Len(data) < end THEN end ELSE Len(data)
  BY DEF length
<1> QED BY <1>2, <1>5, <1>8, <1>9

\* Collections stay collections when one of them changes, and the others stay
\* as they are.
LEMMA ObjectsReplaced ==
  ASSUME StoreOK, NEW c \in DOMAIN colls, NEW objects, AreObjects(objects),
         colls' = [colls EXCEPT ![c].objects = objects]
  PROVE  /\ StoreOK' /\ DOMAIN colls' = DOMAIN colls
         /\ colls'[c] = [objects |-> objects, map |-> colls[c].map]
<1>1. IsMap(colls') /\ DOMAIN colls' = DOMAIN colls
  BY DEF StoreOK, IsMap
<1>2. \A d \in DOMAIN colls : d # c => colls'[d] = colls[d]
  BY DEF StoreOK
<1>3. colls'[c] = [colls[c] EXCEPT !.objects = objects]
  BY DEF StoreOK
<1>4. colls'[c] = [objects |-> objects, map |-> colls[c].map]
  BY <1>3 DEF StoreOK, IsColl
<1>5. IsColl(colls'[c])
  BY <1>4 DEF StoreOK, IsColl
<1> QED BY <1>1, <1>2, <1>4, <1>5 DEF StoreOK

LEMMA MapReplaced ==
  ASSUME StoreOK, NEW c \in DOMAIN colls, NEW map, IsAttrs(map),
         colls' = [colls EXCEPT ![c].map = map]
  PROVE  /\ StoreOK' /\ DOMAIN colls' = DOMAIN colls
         /\ colls'[c] = [objects |-> colls[c].objects, map |-> map]
<1>1. IsMap(colls') /\ DOMAIN colls' = DOMAIN colls
  BY DEF StoreOK, IsMap
<1>2. \A d \in DOMAIN colls : d # c => colls'[d] = colls[d]
  BY DEF StoreOK
<1>3. colls'[c] = [colls[c] EXCEPT !.map = map]
  BY DEF StoreOK
<1>4. colls'[c] = [objects |-> colls[c].objects, map |-> map]
  BY <1>3 DEF StoreOK, IsColl
<1>5. IsColl(colls'[c])
  BY <1>4 DEF StoreOK, IsColl
<1> QED BY <1>1, <1>2, <1>4, <1>5 DEF StoreOK

\* An object put into its collection.
LEMMA ObjectPut ==
  ASSUME StoreOK, NEW op, HasColl(op), NEW object, IsObject(object), colls' = WithObject(op, object)
  PROVE  /\ StoreOK' /\ DOMAIN colls' = DOMAIN colls
         /\ colls'[op.cid].map = colls[op.cid].map
         /\ colls'[op.cid].objects[op.oid] = object
         /\ SameBut(colls[op.cid].objects, colls'[op.cid].objects, op.oid)
<1> DEFINE objects == With(colls[op.cid].objects, op.oid, object)
<1>1. colls' = [colls EXCEPT ![op.cid].objects = objects] /\ op.cid \in DOMAIN colls
  BY DEF WithObject, HasColl
<1>2. /\ IsMap(objects) /\ DOMAIN objects = DOMAIN colls[op.cid].objects \cup {op.oid}
      /\ \A y \in DOMAIN objects :
           objects[y] = IF y = op.oid THEN object ELSE colls[op.cid].objects[y]
  <2> DEFINE old == colls[op.cid].objects
  <2> HIDE DEF old
  <2>1. /\ IsMap(With(old, op.oid, object)) /\ DOMAIN With(old, op.oid, object) = DOMAIN old \cup {op.oid}
        /\ \A y \in DOMAIN old \cup {op.oid} :
             With(old, op.oid, object)[y] = IF y = op.oid THEN object ELSE old[y]
    BY DEF IsMap, With
  <2> QED BY <2>1 DEF old
<1> HIDE DEF objects
<1>3. AreObjects(objects)
  BY <1>1, <1>2 DEF AreObjects, StoreOK, IsColl
<1>4. SameBut(colls[op.cid].objects, objects, op.oid) /\ objects[op.oid] = object
  BY <1>2 DEF SameBut
<1> QED BY <1>1, <1>3, <1>4, ObjectsReplaced

\* An object taken out of its collection.
LEMMA ObjectTaken ==
  ASSUME StoreOK, NEW op, HasColl(op),
         colls' = [colls EXCEPT ![op.cid].objects = Without(@, op.oid)]
  PROVE  /\ StoreOK' /\ DOMAIN colls' = DOMAIN colls
         /\ colls'[op.cid].map = colls[op.cid].map
         /\ SameBut(colls[op.cid].objects, colls'[op.cid].objects, op.oid)
<1> DEFINE objects == Without(colls[op.cid].objects, op.oid)
<1>1. colls' = [colls EXCEPT ![op.cid].objects = objects] /\ op.cid \in DOMAIN colls
  BY DEF HasColl
<1>2. /\ IsMap(objects) /\ DOMAIN objects = DOMAIN colls[op.cid].objects \ {op.oid}
      /\ \A y \in DOMAIN objects : objects[y] = colls[op.cid].objects[y]
  <2> DEFINE old == colls[op.cid].objects
  <2> HIDE DEF old
  <2>1. /\ IsMap(Without(old, op.oid)) /\ DOMAIN Without(old, op.oid) = DOMAIN old \ {op.oid}
        /\ \A y \in DOMAIN old \ {op.oid} : Without(old, op.oid)[y] = old[y]
    BY DEF IsMap, Without, Restrict
  <2> QED BY <2>1 DEF old
<1> HIDE DEF objects
<1>3. AreObjects(objects)
  BY <1>1, <1>2 DEF AreObjects, StoreOK, IsColl
<1>4. SameBut(colls[op.cid].objects, objects, op.oid)
  BY <1>2 DEF SameBut
<1>5. /\ StoreOK' /\ DOMAIN colls' = DOMAIN colls
      /\ colls'[op.cid] = [objects |-> objects, map |-> colls[op.cid].map]
  BY ONLY StoreOK, <1>1, <1>3, ObjectsReplaced
<1> QED BY <1>4, <1>5

\* The operation at hand is one of a transaction.
LEMMA OpKnown ==
  ASSUME SInv, NEW t \in Threads, pc[t] = "exec", ~LoopEnds(t)
  PROVE  IsOp(Op(t)) /\ IsTran(tran[t]) /\ next_op[t] \in 1 .. Len(tran[t]) /\ ret[t] = "OK"
<1>1. IsTran(tran[t]) /\ next_op[t] \in 1 .. Len(tran[t]) + 1
  BY DEF SInv, TransKnown
<1>2. next_op[t] \in 1 .. Len(tran[t]) /\ ret[t] = "OK"
  BY <1>1 DEF LoopEnds, IsTran
<1> QED BY <1>1, <1>2 DEF IsTran, Op

\* What a write finds and leaves.
LEMMA ObjectsFound ==
  ASSUME StoreOK, NEW op
  PROVE  IsObject(EmptyObject) /\ (HasObj(op) => IsObject(Obj(op)))
<1>1. IsObject(EmptyObject)
  <2>1. IsAttrs(EmptyObject.map)
    BY DEF EmptyObject, IsAttrs, IsMap
  <2> QED BY <2>1 DEF EmptyObject, IsObject
<1> QED BY <1>1 DEF StoreOK, IsColl, AreObjects, HasObj, HasColl, Obj

\* What a write that returns leaves: an object whose data is the old or the
\* written.
LEMMA WriteLeaves ==
  ASSUME StoreOK, NEW t \in Threads, IsOp(Op(t)), DoObjWrite(t)
  PROVE  LET op  == Op(t)
             old == IF HasObj(op) THEN Obj(op) ELSE EmptyObject
         IN  /\ op.op \in {"OBJ_TOUCH", "OBJ_WRITE"} /\ HasColl(op)
             /\ op.offset \in Nat /\ op.data \in Seq(Int) /\ IsObject(old)
             /\ \E data : /\ data \in {old.data, WriteData(old.data, op.offset, op.data)}
                          /\ data \in Seq(Int)
                          /\ IsObject([data |-> data, map |-> old.map])
                          /\ colls' = WithObject(op, [data |-> data, map |-> old.map])
<1> DEFINE op  == Op(t)
           old == IF HasObj(op) THEN Obj(op) ELSE EmptyObject
           written == WriteData(old.data, op.offset, op.data)
<1>1. op.op \in {"OBJ_TOUCH", "OBJ_WRITE"} /\ HasColl(op) /\ op.offset \in Nat /\ op.data \in Seq(Int)
  BY DEF DoObjWrite, Doing, IsOp
<1>2. IsObject(old)
  BY ObjectsFound
<1>3. colls' = WithObject(op, old) \/ colls' = WithObject(op, [old EXCEPT !.data = written])
  BY DEF DoObjWrite, Returns
<1>4. written \in Seq(Int)
  BY <1>1, <1>2, DataWritten DEF IsObject
<1> HIDE DEF written
<1>5. old = [data |-> old.data, map |-> old.map] /\ old.data \in Seq(Int)
  BY <1>2 DEF IsObject
<1>6. [old EXCEPT !.data = written] = [data |-> written, map |-> old.map]
  BY <1>5
<1>7. IsObject([data |-> written, map |-> old.map])
  BY <1>2, <1>4 DEF IsObject
<1>8. CASE colls' = WithObject(op, old)
  BY <1>1, <1>2, <1>5, <1>8
<1>9. CASE colls' = WithObject(op, [old EXCEPT !.data = written])
  BY <1>1, <1>2, <1>4, <1>6, <1>7, <1>9 DEF written
<1> QED BY <1>3, <1>8, <1>9

\* What an update of the map of an object leaves.
LEMMA ObjMapLeaves ==
  ASSUME StoreOK, NEW t \in Threads, DoObjMap(t), ~UNCHANGED colls
  PROVE  LET op == Op(t)
         IN  /\ op.op = "OBJ_MAP" /\ HasObj(op) /\ IsObject(Obj(op))
             /\ \E refused \in Refusable(op.map) :
                  LET object == [data |-> Obj(op).data, map |-> MapUpdate(Obj(op).map, op.map, refused)]
                  IN  IsObject(object) /\ colls' = WithObject(op, object)
<1> DEFINE op == Op(t)
<1>1. op.op = "OBJ_MAP" /\ HasObj(op)
  BY DEF DoObjMap, Returns, Doing
<1>2. PICK refused \in Refusable(op.map) :
        colls' = WithObject(op, [Obj(op) EXCEPT !.map = MapUpdate(@, op.map, refused)])
  BY DEF DoObjMap, Returns
<1> DEFINE map    == MapUpdate(Obj(op).map, op.map, refused)
           object == [data |-> Obj(op).data, map |-> map]
<1>3. IsObject(Obj(op))
  BY <1>1, ObjectsFound
<1>4. IsAttrs(map)
  BY <1>3, MapUpdated DEF IsObject
<1>5. colls' = WithObject(op, [Obj(op) EXCEPT !.map = map])
  BY <1>2
<1> HIDE DEF map
<1>6. [Obj(op) EXCEPT !.map = map] = object
  BY <1>3 DEF IsObject
<1>7. IsObject(object)
  BY <1>3, <1>4 DEF IsObject
<1> QED BY <1>1, <1>3, <1>5, <1>6, <1>7 DEF map

\* The operations leave collections, and only the first two change which.
LEMMA OpsKeepStore ==
  ASSUME StoreOK, NEW t \in Threads, IsOp(Op(t)), DoOp(t)
  PROVE  /\ StoreOK'
         /\ Op(t).op \notin {"COLL_CREATE", "COLL_REMOVE"} => DOMAIN colls' = DOMAIN colls
         /\ Op(t).op = "COLL_CREATE" => DOMAIN colls' \in {DOMAIN colls, DOMAIN colls \cup {Op(t).cid}}
         /\ Op(t).op = "COLL_REMOVE" => DOMAIN colls' \in {DOMAIN colls, DOMAIN colls \ {Op(t).cid}}
<1>1. CASE UNCHANGED colls
  BY <1>1 DEF StoreOK
<1>2. CASE DoCollCreate(t) /\ ~UNCHANGED colls
  <2>1. colls' = With(colls, Op(t).cid, EmptyColl) /\ Op(t).op = "COLL_CREATE"
    BY <1>2 DEF DoCollCreate, Returns, Doing
  <2> DEFINE c == Op(t).cid
  <2>2. /\ IsMap(colls') /\ DOMAIN colls' = DOMAIN colls \cup {c}
        /\ \A y \in DOMAIN colls \cup {c} : colls'[y] = IF y = c THEN EmptyColl ELSE colls[y]
    <3>1. /\ IsMap(With(colls, c, EmptyColl)) /\ DOMAIN With(colls, c, EmptyColl) = DOMAIN colls \cup {c}
          /\ \A y \in DOMAIN colls \cup {c} : With(colls, c, EmptyColl)[y] = IF y = c THEN EmptyColl ELSE colls[y]
      BY DEF IsMap, With
    <3> QED BY <2>1, <3>1
  <2>3. IsColl(EmptyColl)
    <3>1. AreObjects(EmptyColl.objects) /\ IsAttrs(EmptyColl.map)
      BY DEF EmptyColl, AreObjects, IsAttrs, IsMap
    <3> QED BY <3>1 DEF EmptyColl, IsColl
  <2> QED BY <2>1, <2>2, <2>3 DEF StoreOK
<1>3. CASE DoCollRemove(t) /\ ~UNCHANGED colls
  <2>1. colls' = Without(colls, Op(t).cid) /\ Op(t).op = "COLL_REMOVE"
    BY <1>3 DEF DoCollRemove, Returns, Doing
  <2> DEFINE c == Op(t).cid
  <2>2. /\ IsMap(colls') /\ DOMAIN colls' = DOMAIN colls \ {c}
        /\ \A y \in DOMAIN colls \ {c} : colls'[y] = colls[y]
    <3>1. /\ IsMap(Without(colls, c)) /\ DOMAIN Without(colls, c) = DOMAIN colls \ {c}
          /\ \A y \in DOMAIN colls \ {c} : Without(colls, c)[y] = colls[y]
      BY DEF IsMap, Without, Restrict
    <3> QED BY <2>1, <3>1
  <2> QED BY <2>1, <2>2 DEF StoreOK
<1>4. CASE DoCollMap(t) /\ ~UNCHANGED colls
  <2>1. Op(t).op = "COLL_MAP" /\ Op(t).cid \in DOMAIN colls
    BY <1>4 DEF DoCollMap, Returns, Doing, HasColl
  <2>2. PICK refused \in Refusable(Op(t).map) :
          colls' = [colls EXCEPT ![Op(t).cid].map = MapUpdate(@, Op(t).map, refused)]
    BY <1>4 DEF DoCollMap, Returns
  <2>3. IsAttrs(MapUpdate(colls[Op(t).cid].map, Op(t).map, refused))
    BY <2>1, MapUpdated DEF StoreOK, IsColl
  <2> QED BY <2>1, <2>2, <2>3, MapReplaced
<1>5. CASE (DoObjWriteFails(t) \/ DoObjWrite(t) \/ DoObjWriteAborts(t)) /\ ~UNCHANGED colls
  <2>1. DoObjWrite(t)
    BY <1>5 DEF DoObjWriteFails, DoObjWriteAborts, Returns
  <2>2. Op(t).op \in {"OBJ_TOUCH", "OBJ_WRITE"} /\ HasColl(Op(t))
    BY <2>1, WriteLeaves
  <2>3. PICK object : IsObject(object) /\ colls' = WithObject(Op(t), object)
    BY <2>1, WriteLeaves
  <2> QED BY <2>2, <2>3, ObjectPut
<1>6. CASE DoObjRemove(t) /\ ~UNCHANGED colls
  <2>1. /\ Op(t).op = "OBJ_REMOVE" /\ HasColl(Op(t))
        /\ colls' = [colls EXCEPT ![Op(t).cid].objects = Without(@, Op(t).oid)]
    BY <1>6 DEF DoObjRemove, Returns, Doing, HasObj
  <2> QED BY <2>1, ObjectTaken
<1>7. CASE DoObjMap(t) /\ ~UNCHANGED colls
  <2>1. Op(t).op = "OBJ_MAP" /\ HasColl(Op(t))
    BY <1>7, ObjMapLeaves DEF HasObj
  <2>2. PICK object : IsObject(object) /\ colls' = WithObject(Op(t), object)
    BY <1>7, ObjMapLeaves
  <2> QED BY <2>1, <2>2, ObjectPut
<1> QED BY <1>1, <1>2, <1>3, <1>4, <1>5, <1>6, <1>7 DEF DoOp

\* What an operation leaves besides the collections: its code, unless an
\* assertion failed.
LEMMA OpsReturn ==
  ASSUME NEW t \in Threads, DoOp(t)
  PROVE  /\ pc[t] = "exec" /\ ~LoopEnds(t)
         /\ UNCHANGED <<lock, pc, tran, answer>>
         /\ \/ aborted' = TRUE /\ UNCHANGED <<colls, next_op, ret>>
            \/ /\ UNCHANGED aborted
               /\ \E code : ret' = [ret EXCEPT ![t] = code]
               /\ next_op' = [next_op EXCEPT ![t] = @ + 1]
<1>1. pc[t] = "exec" /\ ~LoopEnds(t)
  BY DEF DoOp, DoCollCreate, DoCollRemove, DoCollMap, DoObjWriteFails, DoObjWrite,
         DoObjWriteAborts, DoObjRemove, DoObjMap, Doing
<1>2. DoObjWriteAborts(t) \/ \E code, s : Returns(t, code, s)
  BY DEF DoOp, DoCollCreate, DoCollRemove, DoCollMap, DoObjWriteFails, DoObjWrite,
         DoObjRemove, DoObjMap
<1> QED BY <1>1, <1>2 DEF DoObjWriteAborts, Returns

\* A step of one thread leaves the transactions of the others known.
LEMMA TransStay ==
  ASSUME SInv, NEW t \in Threads,
         \A u \in Threads \ {t} : UNCHANGED <<pc[u], tran[u], next_op[u]>>,
         pc'[t] # "idle" => IsTran(tran'[t]),
         pc'[t] = "exec" => next_op'[t] \in 1 .. Len(tran'[t]) + 1
  PROVE  TransKnown'
<1> SUFFICES ASSUME NEW u \in Threads
             PROVE  /\ pc'[u] # "idle" => IsTran(tran'[u])
                    /\ pc'[u] = "exec" => next_op'[u] \in 1 .. Len(tran'[u]) + 1
  BY DEF TransKnown
<1>1. CASE u = t
  BY <1>1
<1>2. CASE u # t
  <2>1. pc'[u] = pc[u] /\ tran'[u] = tran[u] /\ next_op'[u] = next_op[u]
    BY <1>2
  <2> QED BY <2>1 DEF SInv, TransKnown
<1> QED BY <1>1, <1>2

\* The lock is taken and given back around the operations.
LEMMA SInvNext == SInv /\ [StoreStep]_vars => SInv'
<1> SUFFICES ASSUME SInv, [StoreStep]_vars PROVE SInv'
  OBVIOUS
<1>1. CASE UNCHANGED vars
  <2>1. StoreOK'
    BY <1>1 DEF SInv, TypeOK, StoreOK, vars
  <2> QED BY <1>1, <2>1 DEF SInv, TypeOK, LockHeld, TransKnown, vars
<1>2. ASSUME NEW t \in Threads, DoOp(t) PROVE SInv'
  <2>1. StoreOK'
    BY <1>2, OpsKeepStore, OpsReturn, OpKnown DEF SInv, TypeOK
  <2>2. /\ UNCHANGED <<lock, pc, tran, answer>>
        /\ \/ aborted' = TRUE /\ UNCHANGED <<next_op, ret>>
           \/ /\ UNCHANGED aborted
              /\ \E code : ret' = [ret EXCEPT ![t] = code]
              /\ next_op' = [next_op EXCEPT ![t] = @ + 1]
    BY <1>2, OpsReturn
  <2>3. IsTran(tran[t]) /\ next_op[t] \in 1 .. Len(tran[t])
    BY <1>2, OpsReturn, OpKnown
  <2>4. next_op'[t] \in 1 .. Len(tran[t]) + 1
    BY <2>2, <2>3 DEF IsTran, SInv, TypeOK
  <2>5. \A u \in Threads \ {t} : next_op'[u] = next_op[u]
    BY <2>2 DEF SInv, TypeOK
  <2>6. TransKnown'
    BY <2>2, <2>3, <2>4, <2>5, TransStay
  <2> QED BY <2>1, <2>2, <2>6 DEF SInv, TypeOK, LockHeld
<1>3. ASSUME NEW t \in Threads,
             \/ \E new : IsTran(new) /\ Submit(t, new)
             \/ BuildFails(t) \/ Lock(t) \/ Unlock(t)
             \/ \E q : Read(t, q)
      PROVE  SInv'
  <2>1. UNCHANGED <<colls, aborted>>
    BY <1>3 DEF Submit, BuildFails, Lock, Unlock, Read, DoReadObj, DoListColl, DoExistColl,
                DoReadMap, DoReadMapKey, NoMem, Answers
  <2>2. StoreOK'
    BY <2>1 DEF SInv, TypeOK, StoreOK
  <2>3. CASE \E new : IsTran(new) /\ Submit(t, new)
    <3>1. PICK new : IsTran(new) /\ Submit(t, new)
      BY <2>3
    <3>2. /\ pc[t] = "idle" /\ pc' = [pc EXCEPT ![t] = "lock"] /\ tran' = [tran EXCEPT ![t] = new]
          /\ UNCHANGED <<lock, next_op, ret>>
      BY <3>1 DEF Submit
    <3>3. TypeOK'
      BY <2>1, <2>2, <3>1 DEF Submit, SInv, TypeOK
    <3>4. LockHeld'
      BY <3>2 DEF SInv, TypeOK, LockHeld
    <3>5. /\ pc'[t] = "lock" /\ tran'[t] = new
          /\ \A u \in Threads \ {t} : UNCHANGED <<pc[u], tran[u], next_op[u]>>
      BY <3>2 DEF SInv, TypeOK
    <3>6. TransKnown'
      BY <3>1, <3>5, TransStay
    <3> QED BY <3>3, <3>4, <3>6 DEF SInv
  <2>4. CASE Lock(t)
    <3>1. /\ pc[t] = "lock" /\ pc' = [pc EXCEPT ![t] = "exec"] /\ UNCHANGED tran
          /\ next_op' = [next_op EXCEPT ![t] = 1]
      BY <2>4 DEF Lock
    <3>2. /\ pc'[t] = "exec" /\ next_op'[t] = 1
          /\ \A u \in Threads \ {t} : UNCHANGED <<pc[u], tran[u], next_op[u]>>
      BY <3>1 DEF SInv, TypeOK
    <3>3. IsTran(tran[t])
      BY <3>1 DEF SInv, TransKnown
    <3>4. 1 \in 1 .. Len(tran[t]) + 1
      BY <3>3 DEF IsTran
    <3>5. TransKnown'
      BY <3>1, <3>2, <3>3, <3>4, TransStay
    <3> QED BY <2>1, <2>2, <2>4, <3>5, NoThreadAssumption DEF Lock, SInv, TypeOK, LockHeld
  <2>5. CASE Unlock(t)
    <3>1. /\ pc' = [pc EXCEPT ![t] = "idle"] /\ tran' = [tran EXCEPT ![t] = << >>]
          /\ next_op' = [next_op EXCEPT ![t] = 1]
      BY <2>5 DEF Unlock
    <3>2. /\ pc'[t] = "idle"
          /\ \A u \in Threads \ {t} : UNCHANGED <<pc[u], tran[u], next_op[u]>>
      BY <3>1 DEF SInv, TypeOK
    <3>3. TransKnown'
      BY <3>2, TransStay
    <3> QED BY <2>1, <2>2, <2>5, <3>3, NoThreadAssumption DEF Unlock, SInv, TypeOK, LockHeld
  <2>6. CASE BuildFails(t) \/ \E q : Read(t, q)
    <3>1. UNCHANGED <<lock, pc, tran, next_op, ret>> /\ \E a : answer' = [answer EXCEPT ![t] = a]
      BY <2>6 DEF BuildFails, Read, DoReadObj, DoListColl, DoExistColl, DoReadMap, DoReadMapKey,
                  NoMem, Answers
    <3> QED BY <2>1, <2>2, <3>1 DEF SInv, TypeOK, LockHeld, TransKnown
  <2> QED BY <1>3, <2>3, <2>4, <2>5, <2>6
<1> QED BY <1>1, <1>2, <1>3 DEF StoreStep

LEMMA SInvariance == StoreSpec => []SInv
BY SInvInit, SInvNext, PTL DEF StoreSpec

----------------------------------------------------------------------------
\* An operation leaves every collection but the one it names.
LEMMA OthersStay ==
  ASSUME StoreOK, NEW t \in Threads, DoOp(t), NEW d, d # Op(t).cid
  PROVE  /\ d \in DOMAIN colls' <=> d \in DOMAIN colls
         /\ d \in DOMAIN colls => colls'[d] = colls[d]
<1> DEFINE c == Op(t).cid
<1>1. CASE UNCHANGED colls
  BY <1>1
<1>2. CASE colls' = With(colls, c, EmptyColl)
  BY <1>2 DEF With
<1>3. CASE colls' = Without(colls, c)
  BY <1>3 DEF Without, Restrict
<1>4. CASE \E objects : colls' = [colls EXCEPT ![c].objects = objects]
  BY <1>4 DEF StoreOK, IsMap
<1>5. CASE \E map : colls' = [colls EXCEPT ![c].map = map]
  BY <1>5 DEF StoreOK, IsMap
<1>6. \/ UNCHANGED colls
      \/ colls' = With(colls, c, EmptyColl) \/ colls' = Without(colls, c)
      \/ \E objects : colls' = [colls EXCEPT ![c].objects = objects]
      \/ \E map : colls' = [colls EXCEPT ![c].map = map]
  BY DEF DoOp, DoCollCreate, DoCollRemove, DoCollMap, DoObjWriteFails, DoObjWrite,
         DoObjWriteAborts, DoObjRemove, DoObjMap, Returns, WithObject
<1> QED BY <1>1, <1>2, <1>3, <1>4, <1>5, <1>6

----------------------------------------------------------------------------
\* An object that is put where it was changes nothing.
LEMMA SameObject ==
  ASSUME StoreOK, NEW op, HasObj(op)
  PROVE  WithObject(op, Obj(op)) = colls
<1> DEFINE c == op.cid
           objects == colls[c].objects
<1>1. c \in DOMAIN colls /\ op.oid \in DOMAIN objects
  BY DEF HasObj, HasColl
<1>2. With(objects, op.oid, objects[op.oid]) = objects
  <2>1. IsMap(objects)
    BY <1>1 DEF StoreOK, IsColl, AreObjects
  <2> HIDE DEF objects
  <2> QED BY <1>1, <2>1 DEF With, IsMap
<1>3. [colls EXCEPT ![c].objects = objects] = colls
  <2>1. [colls[c] EXCEPT !.objects = objects] = colls[c]
    BY <1>1 DEF StoreOK, IsColl
  <2> QED BY <1>1, <2>1 DEF StoreOK, IsMap
<1> QED BY <1>2, <1>3 DEF WithObject, Obj

\* Of the operations of a thread only a write that made an object may fail and
\* leave something.
LEMMA FailedOp ==
  ASSUME SInv, NEW t \in Threads, DoOp(t), ret'[t] # "OK"
  PROVE  \/ colls' = colls
         \/ /\ Op(t).op = "OBJ_WRITE" /\ ~HasObj(Op(t))
            /\ colls' = WithObject(Op(t), EmptyObject)
<1>1. \A code : ret' = [ret EXCEPT ![t] = code] => code # "OK"
  BY DEF SInv, TypeOK
<1>2. CASE DoObjWrite(t)
  <2> DEFINE old == IF HasObj(Op(t)) THEN Obj(Op(t)) ELSE EmptyObject
  <2>1. colls' = WithObject(Op(t), old) /\ Length(Op(t)) > 0 /\ Op(t).op \in {"OBJ_TOUCH", "OBJ_WRITE"}
    BY <1>1, <1>2 DEF DoObjWrite, Returns, Doing
  <2>2. Op(t).op = "OBJ_WRITE"
    BY <2>1 DEF Length
  <2> QED BY <2>1, <2>2, SameObject DEF SInv, TypeOK
<1>3. CASE ~DoObjWrite(t)
  BY <1>1, <1>3 DEF DoOp, DoCollCreate, DoCollRemove, DoCollMap, DoObjWriteFails,
                    DoObjWriteAborts, DoObjRemove, DoObjMap, Returns
<1> QED BY <1>2, <1>3

\* The operation at hand and the thread that takes the step.
LEMMA WhoSteps ==
  ASSUME SInv, StoreStep, NEW t \in Threads, pc[t] = "exec", ~LoopEnds(t)
  PROVE  \/ DoOp(t)
         \/ UNCHANGED <<colls, ret>>
         \/ UNCHANGED colls /\ ret'[t] = "OK"
<1>1. ret[t] = "OK"
  BY DEF LoopEnds
<1>2. PICK u \in Threads : \/ \E new : Submit(u, new)
                           \/ BuildFails(u) \/ Lock(u) \/ DoOp(u) \/ Unlock(u)
                           \/ \E q : Read(u, q)
  BY DEF StoreStep
<1>3. CASE DoOp(u)
  <2>1. u = t
    BY <1>3, OpsReturn DEF SInv, LockHeld
  <2> QED BY <1>3, <2>1
<1>4. CASE Lock(u) \/ Unlock(u)
  BY <1>1, <1>4 DEF Lock, Unlock, SInv, TypeOK
<1>5. CASE (\E new : Submit(u, new)) \/ BuildFails(u) \/ \E q : Read(u, q)
  BY <1>5 DEF Submit, BuildFails, Read, DoReadObj, DoListColl, DoExistColl, DoReadMap,
              DoReadMapKey, NoMem, Answers
<1> QED BY <1>2, <1>3, <1>4, <1>5

\* An operation that fails has changed nothing, except that a write may leave
\* the object it created, without data.
THEOREM NothingLost == StoreSpec => FailedOpsLoseNothing
<1>1. SInv /\ [StoreStep]_vars
        => [\A t \in Threads :
              pc[t] = "exec" /\ ~LoopEnds(t) /\ ret'[t] # "OK" =>
                \/ colls' = colls
                \/ /\ Op(t).op = "OBJ_WRITE" /\ ~HasObj(Op(t))
                   /\ colls' = WithObject(Op(t), EmptyObject)]_vars
  <2> SUFFICES ASSUME SInv, StoreStep, NEW t \in Threads,
                      pc[t] = "exec", ~LoopEnds(t), ret'[t] # "OK"
               PROVE  \/ colls' = colls
                      \/ /\ Op(t).op = "OBJ_WRITE" /\ ~HasObj(Op(t))
                         /\ colls' = WithObject(Op(t), EmptyObject)
    OBVIOUS
  <2> QED BY WhoSteps, FailedOp DEF LoopEnds
<1> QED BY <1>1, SInvariance, PTL DEF StoreSpec, FailedOpsLoseNothing

----------------------------------------------------------------------------
\* What one operation may change.
NamedChange(t) ==
  LET op     == Op(t)
      before == colls[op.cid]
      after  == colls'[op.cid]
      b      == before.objects[op.oid]
      a      == after.objects[op.oid]
  IN /\ SameBut(colls, colls', op.cid)
     /\ op.op = "COLL_MAP" => after.objects = before.objects
                              /\ SameKeysBut(before.map, after.map, op.map)
     /\ op.op \in {"OBJ_TOUCH", "OBJ_WRITE", "OBJ_REMOVE", "OBJ_MAP"} =>
          after.map = before.map /\ SameBut(before.objects, after.objects, op.oid)
     /\ op.op = "OBJ_MAP" => a.data = b.data /\ SameKeysBut(b.map, a.map, op.map)
     /\ op.op = "OBJ_WRITE" /\ op.oid \in DOMAIN before.objects =>
          /\ a.map = b.map
          /\ Len(a.data) >= Len(b.data)
          /\ \A i \in DOMAIN b.data :
               i \notin op.offset + 1 .. op.offset + Len(op.data) => a.data[i] = b.data[i]

\* A write keeps the map of its object and the bytes outside of its range.
LEMMA WriteKeeps ==
  ASSUME StoreOK, NEW t \in Threads, IsOp(Op(t)), DoObjWrite(t), HasObj(Op(t))
  PROVE  LET op == Op(t)
             b  == Obj(op)
             a  == colls'[op.cid].objects[op.oid]
         IN  /\ a.map = b.map
             /\ Len(a.data) >= Len(b.data)
             /\ \A i \in DOMAIN b.data :
                  i \notin op.offset + 1 .. op.offset + Len(op.data) => a.data[i] = b.data[i]
<1> DEFINE op == Op(t)
           b  == Obj(op)
<1>1. /\ HasColl(op) /\ op.offset \in Nat /\ op.data \in Seq(Int) /\ IsObject(b)
      /\ \E data : /\ data \in {b.data, WriteData(b.data, op.offset, op.data)}
                   /\ IsObject([data |-> data, map |-> b.map])
                   /\ colls' = WithObject(op, [data |-> data, map |-> b.map])
  BY WriteLeaves
<1>2. PICK data : /\ data \in {b.data, WriteData(b.data, op.offset, op.data)}
                  /\ IsObject([data |-> data, map |-> b.map])
                  /\ colls' = WithObject(op, [data |-> data, map |-> b.map])
  BY <1>1
<1>3. colls'[op.cid].objects[op.oid] = [data |-> data, map |-> b.map]
  BY <1>1, <1>2, ObjectPut
<1>4. b.data \in Seq(Int)
  BY <1>1 DEF IsObject
<1>5. CASE data = b.data
  BY <1>3, <1>4, <1>5
<1>6. CASE data = WriteData(b.data, op.offset, op.data)
  <2> DEFINE old == b.data
             end == op.offset + Len(op.data)
  <2>1. /\ Len(data) = IF Len(old) < end THEN end ELSE Len(old)
        /\ \A i \in 1 .. Len(data) :
             data[i] = IF i > op.offset /\ i <= end THEN op.data[i - op.offset]
                       ELSE IF i <= Len(old) THEN old[i] ELSE 0
    BY <1>1, <1>4, <1>6, DataWritten
  <2>2. Len(old) \in Nat /\ Len(op.data) \in Nat /\ end \in Nat /\ DOMAIN old = 1 .. Len(old)
    BY <1>1, <1>4
  <2> HIDE DEF old
  <2>3. Len(data) >= Len(old)
    BY <2>1, <2>2
  <2>4. ASSUME NEW i \in 1 .. Len(old), i \notin op.offset + 1 .. end
        PROVE  data[i] = old[i]
    <3>1. i \in 1 .. Len(data) /\ ~(i > op.offset /\ i <= end) /\ i <= Len(old)
      BY <1>1, <2>1, <2>2, <2>4
    <3> QED BY <2>1, <3>1
  <2> QED BY <1>3, <2>2, <2>3, <2>4 DEF old
<1> QED BY <1>2, <1>5, <1>6

LEMMA OpChanges ==
  ASSUME SInv, NEW t \in Threads, DoOp(t), colls' # colls
  PROVE  NamedChange(t)
<1> DEFINE op == Op(t)
<1>1. StoreOK /\ IsOp(op)
  BY OpsReturn, OpKnown DEF SInv, TypeOK
<1>2. SameBut(colls, colls', op.cid)
  BY <1>1, OthersStay DEF SameBut
<1>3. CASE DoCollCreate(t) \/ DoCollRemove(t)
  <2>1. op.op \in {"COLL_CREATE", "COLL_REMOVE"}
    BY <1>3 DEF DoCollCreate, DoCollRemove, Doing
  <2> QED BY <1>2, <2>1 DEF NamedChange
<1>4. CASE DoCollMap(t)
  <2>1. op.op = "COLL_MAP" /\ op.cid \in DOMAIN colls
    BY <1>4 DEF DoCollMap, Returns, Doing, HasColl
  <2>2. PICK refused \in Refusable(op.map) :
          colls' = [colls EXCEPT ![op.cid].map = MapUpdate(@, op.map, refused)]
    BY <1>4 DEF DoCollMap, Returns
  <2> DEFINE map == MapUpdate(colls[op.cid].map, op.map, refused)
  <2>3. IsAttrs(map) /\ SameKeysBut(colls[op.cid].map, map, op.map)
    BY <1>1, <2>1, MapUpdated DEF StoreOK, IsColl
  <2>4. colls' = [colls EXCEPT ![op.cid].map = map]
    BY <2>2
  <2> HIDE DEF map
  <2>5. colls'[op.cid] = [objects |-> colls[op.cid].objects, map |-> map]
    BY <1>1, <2>1, <2>3, <2>4, MapReplaced
  <2> QED BY <1>2, <2>1, <2>3, <2>5 DEF NamedChange
<1>5. CASE DoObjWriteFails(t) \/ DoObjWriteAborts(t)
  BY <1>5 DEF DoObjWriteFails, DoObjWriteAborts, Returns
<1>6. CASE DoObjWrite(t)
  <2>1. op.op \in {"OBJ_TOUCH", "OBJ_WRITE"} /\ HasColl(op)
    BY <1>1, <1>6, WriteLeaves
  <2>2. PICK object : IsObject(object) /\ colls' = WithObject(op, object)
    BY <1>1, <1>6, WriteLeaves
  <2>3. /\ colls'[op.cid].map = colls[op.cid].map
        /\ SameBut(colls[op.cid].objects, colls'[op.cid].objects, op.oid)
    BY <1>1, <2>1, <2>2, ObjectPut
  <2>4. op.oid \in DOMAIN colls[op.cid].objects => HasObj(op)
    BY <2>1 DEF HasObj
  <2> QED BY <1>1, <1>2, <1>6, <2>1, <2>3, <2>4, WriteKeeps DEF NamedChange, Obj
<1>7. CASE DoObjRemove(t)
  <2>1. /\ op.op = "OBJ_REMOVE" /\ HasColl(op)
        /\ colls' = [colls EXCEPT ![op.cid].objects = Without(@, op.oid)]
    BY <1>7 DEF DoObjRemove, Returns, Doing, HasObj
  <2>2. /\ colls'[op.cid].map = colls[op.cid].map
        /\ SameBut(colls[op.cid].objects, colls'[op.cid].objects, op.oid)
    BY <1>1, <2>1, ObjectTaken
  <2> QED BY <1>2, <2>1, <2>2 DEF NamedChange
<1>8. CASE DoObjMap(t)
  <2>1. /\ op.op = "OBJ_MAP" /\ HasObj(op) /\ IsObject(Obj(op))
        /\ \E refused \in Refusable(op.map) :
             LET object == [data |-> Obj(op).data, map |-> MapUpdate(Obj(op).map, op.map, refused)]
             IN  IsObject(object) /\ colls' = WithObject(op, object)
    BY <1>1, <1>8, ObjMapLeaves
  <2>2. PICK refused \in Refusable(op.map) :
          LET object == [data |-> Obj(op).data, map |-> MapUpdate(Obj(op).map, op.map, refused)]
          IN  IsObject(object) /\ colls' = WithObject(op, object)
    BY <2>1
  <2> DEFINE map    == MapUpdate(Obj(op).map, op.map, refused)
             object == [data |-> Obj(op).data, map |-> map]
  <2>3. SameKeysBut(Obj(op).map, map, op.map)
    BY MapUpdated
  <2>4. HasColl(op)
    BY <2>1 DEF HasObj
  <2>5. IsObject(object) /\ colls' = WithObject(op, object)
    BY <2>2
  <2> HIDE DEF map
  <2>6. /\ colls'[op.cid].map = colls[op.cid].map
        /\ colls'[op.cid].objects[op.oid] = object
        /\ SameBut(colls[op.cid].objects, colls'[op.cid].objects, op.oid)
    BY <1>1, <2>4, <2>5, ObjectPut
  <2>7. Obj(op) = colls[op.cid].objects[op.oid]
    BY DEF Obj
  <2>8. colls'[op.cid].objects[op.oid].data = Obj(op).data /\ colls'[op.cid].objects[op.oid].map = map
    BY <2>6
  <2> HIDE DEF object
  <2> QED BY <1>2, <2>1, <2>3, <2>6, <2>7, <2>8 DEF NamedChange
<1> QED BY <1>3, <1>4, <1>5, <1>6, <1>7, <1>8 DEF DoOp

\* Whatever malloc refuses, an operation changes nothing but what it names: no
\* other collection, object, key or byte.
THEOREM NamedOnly == StoreSpec => OnlyTheNamedChanges
<1>1. SInv /\ [StoreStep]_vars
        => [\A t \in Threads : pc[t] = "exec" /\ ~LoopEnds(t) /\ colls' # colls => NamedChange(t)]_vars
  <2> SUFFICES ASSUME SInv, StoreStep, NEW t \in Threads,
                      pc[t] = "exec", ~LoopEnds(t), colls' # colls
               PROVE  NamedChange(t)
    OBVIOUS
  <2> QED BY WhoSteps, OpChanges
<1> QED BY <1>1, SInvariance, PTL DEF StoreSpec, OnlyTheNamedChanges, NamedChange

----------------------------------------------------------------------------
\* What a transaction does, unfolded from its first operation.  The numbers for
\* which something fails have a least one: this is the induction used here.
Below == {p \in Nat \X Nat : p[1] < p[2]}

LEMMA Least ==
  ASSUME NEW S \in SUBSET Nat, S # {}
  PROVE  \E n \in S : \A m \in S : n <= m
<1>1. IsWellFoundedOn(Below, Nat)
  BY ONLY NatLessThanWellFounded DEF OpToRel, Below
<1>2. PICK n \in S : \A m \in S : ~(<<m, n>> \in Below)
  BY <1>1, WFMin
<1>3. \A m \in S : ~(m < n)
  BY <1>2 DEF Below
<1> QED BY <1>3

\* run[i]: what the operations from first to i make of store s.
IsRun(run, s, trn, first, last) ==
  run = [i \in first - 1 .. last |->
           IF i = first - 1 THEN [ret |-> "OK", colls |-> s]
           ELSE IF run[i - 1].ret = "OK" THEN ApplyOp(run[i - 1].colls, trn[i])
           ELSE run[i - 1]]

LEMMA RunExists ==
  ASSUME NEW s, NEW trn, NEW first \in Nat \ {0}, NEW last \in Nat, last >= first - 1
  PROVE  \E run : IsRun(run, s, trn, first, last)
<1> DEFINE Fails == {n \in Nat : n >= first - 1 /\ ~ \E run : IsRun(run, s, trn, first, n)}
<1> SUFFICES ASSUME Fails # {} PROVE FALSE
  OBVIOUS
<1>1. PICK n \in Fails : \A m \in Fails : n <= m
  <2>1. Fails \in SUBSET Nat
    OBVIOUS
  <2> HIDE DEF Fails
  <2> QED BY <2>1, Least
<1>2. n \in Nat /\ n >= first - 1 /\ ~ \E run : IsRun(run, s, trn, first, n)
  OBVIOUS
<1>3. CASE n = first - 1
  <2> DEFINE run == [i \in first - 1 .. n |-> [ret |-> "OK", colls |-> s]]
  <2>1. IsRun(run, s, trn, first, n)
    BY <1>3 DEF IsRun
  <2> QED BY <1>2, <2>1
<1>4. CASE n > first - 1
  <2>1. n - 1 \in Nat /\ n - 1 >= first - 1 /\ n - 1 \notin Fails
    BY <1>1, <1>2, <1>4
  <2>2. PICK old : IsRun(old, s, trn, first, n - 1)
    BY <2>1
  <2> DEFINE new == IF old[n - 1].ret = "OK" THEN ApplyOp(old[n - 1].colls, trn[n]) ELSE old[n - 1]
             run == [i \in first - 1 .. n |-> IF i = n THEN new ELSE old[i]]
  <2>3. \A i \in first - 1 .. n - 1 :
          old[i] = IF i = first - 1 THEN [ret |-> "OK", colls |-> s]
                   ELSE IF old[i - 1].ret = "OK" THEN ApplyOp(old[i - 1].colls, trn[i])
                   ELSE old[i - 1]
    BY <2>2 DEF IsRun
  <2>4. \A i \in first - 1 .. n : i # n => i \in first - 1 .. n - 1
    BY <1>2
  <2>5. \A i \in first - 1 .. n : i # first - 1 => i - 1 \in first - 1 .. n /\ i - 1 # n
    BY <1>2
  <2>6. \A i \in first - 1 .. n : i # first - 1 => run[i - 1] = old[i - 1]
    BY <2>5
  <2>7. \A i \in first - 1 .. n :
          run[i] = IF i = first - 1 THEN [ret |-> "OK", colls |-> s]
                   ELSE IF run[i - 1].ret = "OK" THEN ApplyOp(run[i - 1].colls, trn[i])
                   ELSE run[i - 1]
    <3> SUFFICES ASSUME NEW i \in first - 1 .. n
                 PROVE  run[i] = IF i = first - 1 THEN [ret |-> "OK", colls |-> s]
                                 ELSE IF run[i - 1].ret = "OK" THEN ApplyOp(run[i - 1].colls, trn[i])
                                 ELSE run[i - 1]
      OBVIOUS
    <3>1. CASE i = n
      <4>1. run[i] = new /\ i # first - 1 /\ run[i - 1] = old[n - 1]
        BY <1>4, <2>6, <3>1
      <4> HIDE DEF run
      <4> QED BY <3>1, <4>1
    <3>2. CASE i # n
      <4>1. run[i] = old[i] /\ i \in first - 1 .. n - 1
        BY <2>4, <3>2
      <4>2. i # first - 1 => run[i - 1] = old[i - 1]
        BY <2>6
      <4> HIDE DEF run
      <4> QED BY <2>3, <4>1, <4>2
    <3> QED BY <3>1, <3>2
  <2>8. run = [i \in first - 1 .. n |-> run[i]]
    OBVIOUS
  <2> HIDE DEF run
  <2>9. IsRun(run, s, trn, first, n)
    BY <2>7, <2>8 DEF IsRun
  <2> QED BY <1>2, <2>9
<1> QED BY <1>2, <1>3, <1>4

LEMMA RunIs ==
  ASSUME NEW s, NEW trn, NEW first \in Nat \ {0}, Len(trn) \in Nat, Len(trn) >= first - 1
  PROVE  \E run : /\ ApplyFrom(s, trn, first) = run[Len(trn)]
                  /\ run[first - 1] = [ret |-> "OK", colls |-> s]
                  /\ \A i \in first .. Len(trn) :
                       run[i] = IF run[i - 1].ret = "OK" THEN ApplyOp(run[i - 1].colls, trn[i])
                                ELSE run[i - 1]
<1> DEFINE run == CHOOSE run : IsRun(run, s, trn, first, Len(trn))
<1>1. IsRun(run, s, trn, first, Len(trn))
  BY RunExists
<1>2. ApplyFrom(s, trn, first) = run[Len(trn)]
  BY DEF ApplyFrom, IsRun
<1> HIDE DEF run
<1>3. run[first - 1] = [ret |-> "OK", colls |-> s]
  BY <1>1 DEF IsRun
<1>4. ASSUME NEW i \in first .. Len(trn)
      PROVE  run[i] = IF run[i - 1].ret = "OK" THEN ApplyOp(run[i - 1].colls, trn[i])
                      ELSE run[i - 1]
  <2>1. i \in first - 1 .. Len(trn) /\ i # first - 1
    OBVIOUS
  <2> QED BY <1>1, <2>1 DEF IsRun
<1> QED BY <1>2, <1>3, <1>4

\* Nothing is left to do.
LEMMA RunEnds ==
  ASSUME NEW s, NEW trn, Len(trn) \in Nat, NEW first \in Nat, first = Len(trn) + 1
  PROVE  ApplyFrom(s, trn, first) = [ret |-> "OK", colls |-> s]
<1>1. Len(trn) = first - 1 /\ first \in Nat \ {0}
  OBVIOUS
<1> QED BY <1>1, RunIs

\* The first operation, and then the others.
LEMMA RunStarts ==
  ASSUME NEW s, NEW trn, Len(trn) \in Nat, NEW first \in 1 .. Len(trn),
         NEW code, NEW t, ApplyOp(s, trn[first]) = [ret |-> code, colls |-> t]
  PROVE  ApplyFrom(s, trn, first) = IF code = "OK" THEN ApplyFrom(t, trn, first + 1)
                                    ELSE [ret |-> code, colls |-> t]
<1> DEFINE L == Len(trn)
           r == [ret |-> code, colls |-> t]
<1>1. PICK run : /\ ApplyFrom(s, trn, first) = run[L]
                 /\ run[first - 1] = [ret |-> "OK", colls |-> s]
                 /\ \A i \in first .. L :
                      run[i] = IF run[i - 1].ret = "OK" THEN ApplyOp(run[i - 1].colls, trn[i])
                               ELSE run[i - 1]
  BY RunIs
<1>2. PICK rest : /\ ApplyFrom(t, trn, first + 1) = rest[L]
                  /\ rest[first] = [ret |-> "OK", colls |-> t]
                  /\ \A i \in first + 1 .. L :
                       rest[i] = IF rest[i - 1].ret = "OK" THEN ApplyOp(rest[i - 1].colls, trn[i])
                                 ELSE rest[i - 1]
  <2>1. first + 1 \in Nat \ {0} /\ L >= (first + 1) - 1 /\ (first + 1) - 1 = first
    OBVIOUS
  <2> QED BY <2>1, RunIs
<1>3. run[first] = r
  BY <1>1
<1> DEFINE Differ == {n \in first .. L : run[n] # IF code = "OK" THEN rest[n] ELSE r}
<1>4. Differ = {}
  <2> SUFFICES ASSUME Differ # {} PROVE FALSE
    OBVIOUS
  <2>1. PICK n \in Differ : \A m \in Differ : n <= m
    <3>1. Differ \in SUBSET Nat
      OBVIOUS
    <3> HIDE DEF Differ
    <3> QED BY <3>1, Least
  <2>2. n \in first .. L /\ run[n] # IF code = "OK" THEN rest[n] ELSE r
    OBVIOUS
  <2>3. n # first
    BY <1>2, <1>3, <2>2
  <2>4. n - 1 \in first .. L /\ n \in first + 1 .. L /\ n - 1 \notin Differ
    BY <2>1, <2>2, <2>3
  <2>5. run[n - 1] = IF code = "OK" THEN rest[n - 1] ELSE r
    BY <2>4
  <2> HIDE DEF Differ
  <2>6. run[n] = IF run[n - 1].ret = "OK" THEN ApplyOp(run[n - 1].colls, trn[n]) ELSE run[n - 1]
    BY <1>1, <2>2
  <2>7. rest[n] = IF rest[n - 1].ret = "OK" THEN ApplyOp(rest[n - 1].colls, trn[n]) ELSE rest[n - 1]
    BY <1>2, <2>4
  <2>8. CASE code = "OK"
    BY <2>2, <2>5, <2>6, <2>7, <2>8
  <2>9. CASE code # "OK"
    BY <2>2, <2>5, <2>6, <2>9
  <2> QED BY <2>8, <2>9
<1>5. L \in first .. L
  OBVIOUS
<1>6. run[L] = IF code = "OK" THEN rest[L] ELSE r
  BY <1>4, <1>5
<1> QED BY <1>1, <1>2, <1>6

\* Where malloc refuses nothing, an update is what types.h promises.
LEMMA UpdateIs ==
  ASSUME NEW map, NEW input
  PROVE  MapUpdate(map, input, {}) = Updated(map, input)
<1> DEFINE done == {k \in DOMAIN input : \A r \in {} : k < r}
           kept == DOMAIN map \ (done \cup {})
           set  == {k \in done : input[k] # Empty}
           keys == {k \in DOMAIN map \cup DOMAIN input : k \in DOMAIN input => input[k] # Empty}
<1>1. done = DOMAIN input
  OBVIOUS
<1>2. kept \cup set = keys
  BY <1>1
<1>3. \A k \in keys : k \in set <=> k \in DOMAIN input
  BY <1>1
<1>4. MapUpdate(map, input, {}) = [k \in kept \cup set |-> IF k \in set THEN input[k] ELSE map[k]]
  BY DEF MapUpdate
<1>5. Updated(map, input) = [k \in keys |-> IF k \in DOMAIN input THEN input[k] ELSE map[k]]
  BY DEF Updated
<1> HIDE DEF done, kept, set, keys
<1> QED BY <1>2, <1>3, <1>4, <1>5

\* A copy of a map is the map.
LEMMA CopyIs ==
  ASSUME NEW map, IsAttrs(map)
  PROVE  MapUpdate(<< >>, map, {}) = map
<1>1. Updated(<< >>, map) = map
  <2> DEFINE keys == {k \in DOMAIN << >> \cup DOMAIN map : k \in DOMAIN map => map[k] # Empty}
  <2>1. keys = DOMAIN map
    BY DEF IsAttrs
  <2>2. Updated(<< >>, map) = [k \in keys |-> IF k \in DOMAIN map THEN map[k] ELSE << >>[k]]
    BY DEF Updated
  <2> HIDE DEF keys
  <2> QED BY <2>1, <2>2 DEF IsAttrs, IsMap
<1> QED BY <1>1, UpdateIs

LEMMA OverwriteIs ==
  ASSUME NEW data \in Seq(Int), NEW offset \in Nat, NEW new \in Seq(Int), new # << >>
  PROVE  WriteData(data, offset, new) = Overwritten(data, offset, new)
<1> DEFINE end    == offset + Len(new)
           length == IF Len(data) < end THEN end ELSE Len(data)
           result == WriteData(data, offset, new)
           Byte(k) == IF k > offset /\ k <= end THEN new[k - offset]
                      ELSE IF k <= Len(data) THEN data[k] ELSE 0
<1>1. /\ result \in Seq(Int) /\ Len(result) = length
      /\ \A i \in 1 .. Len(result) : result[i] = Byte(i)
  BY DataWritten
<1>2. Overwritten(data, offset, new) = [k \in 1 .. length |-> Byte(k)]
  BY DEF Overwritten
<1> HIDE DEF result, length
<1>3. result = [k \in 1 .. length |-> result[k]]
  BY <1>1
<1>4. \A k \in 1 .. length : result[k] = Byte(k)
  BY <1>1
<1> HIDE DEF Byte
<1>5. result = [k \in 1 .. length |-> Byte(k)]
  BY <1>3, <1>4
<1> QED BY <1>2, <1>5 DEF result

\* What fits an int is what it was.
LEMMA FitsInt ==
  ASSUME NEW n \in -IntLimit .. IntLimit - 1
  PROVE  AsInt(n) = n
<1>1. IntLimit \in Nat \ {0}
  BY IntAssumption
<1> DEFINE a == n + IntLimit
           b == 2 * IntLimit
<1>2. a \in Nat /\ b \in Nat \ {0} /\ a < b
  BY <1>1
<1>3. a % b = a
  <2> HIDE DEF a, b
  <2> QED BY <1>2
<1> QED BY <1>1, <1>3 DEF AsInt

\* The remainder of what is not twice as much.
LEMMA ModOnce ==
  ASSUME NEW a \in Nat, NEW b \in Nat \ {0}, b <= a, a - b < b
  PROVE  a % b = a - b
<1> DEFINE d == a \div b
           r == a % b
<1>1. d \in Int /\ r \in 0 .. b - 1 /\ a = b * d + r
  OBVIOUS
<1> HIDE DEF d, r
<1>2. d >= 2 => b * d >= 2 * b
  BY <1>1
<1>3. d <= 0 => b * d <= 0
  BY <1>1
<1>4. d = 1
  BY <1>1, <1>2, <1>3
<1>5. b * d = b
  BY <1>4
<1> QED BY <1>1, <1>5 DEF r

\* What does not fit, but is at most twice as much, is not above 0.
LEMMA LongWraps ==
  ASSUME NEW n \in IntLimit .. 2 * IntLimit
  PROVE  AsInt(n) \in -IntLimit .. 0
<1>1. IntLimit \in Nat \ {0}
  BY IntAssumption
<1> DEFINE a == n + IntLimit
           b == 2 * IntLimit
<1>2. a \in Nat /\ b \in Nat \ {0} /\ b <= a /\ a - b < b
  BY <1>1
<1>3. a % b = a - b
  <2> HIDE DEF a, b
  <2> QED BY <1>2, ModOnce
<1> QED BY <1>1, <1>3 DEF AsInt

LEMMA ReadIs ==
  ASSUME NEW q, NEW data \in Seq(Int), Len(data) < IntLimit,
         q.offset \in Nat, q.length \in -IntLimit .. 2 * IntLimit
  PROVE  /\ Len(data) <= q.offset => Slice(data, q.offset, q.length) = << >>
         /\ Len(data) > q.offset =>
              SubSeq(data, q.offset + 1, q.offset + ReadLength(q, Len(data)))
                = Slice(data, q.offset, q.length)
<1> DEFINE length == Len(data)
           to == IF q.length <= 0 \/ q.offset + q.length > length THEN length ELSE q.offset + q.length
<1>1. length \in Nat /\ IntLimit \in Nat
  BY IntAssumption
<1>2. Slice(data, q.offset, q.length) = SubSeq(data, q.offset + 1, to)
  BY DEF Slice
<1>3. CASE length <= q.offset
  <2>1. to \in Int /\ q.offset + 1 \in Int /\ to < q.offset + 1
    BY <1>1, <1>3
  <2> HIDE DEF to
  <2>2. SubSeq(data, q.offset + 1, to) = << >>
    BY <2>1, SubSeqEmpty
  <2> QED BY <1>1, <1>2, <1>3, <2>2
<1>4. CASE length > q.offset
  <2>1. \/ AsInt(q.length) = q.length
        \/ AsInt(q.length) \in -IntLimit .. 0 /\ q.length > length
    <3>1. CASE q.length < IntLimit
      BY <1>1, <3>1, FitsInt
    <3>2. CASE q.length >= IntLimit
      <4>1. q.length \in IntLimit .. 2 * IntLimit /\ q.length > length
        BY <1>1, <3>2
      <4> QED BY <4>1, LongWraps
    <3> QED BY <1>1, <3>1, <3>2
  <2>2. AsInt(length) = length
    <3>1. length \in -IntLimit .. IntLimit - 1
      BY <1>1
    <3> QED BY <3>1, FitsInt
  <2>3. AsInt(length - q.offset) = length - q.offset
    <3>1. length - q.offset \in -IntLimit .. IntLimit - 1
      BY <1>1, <1>4
    <3> QED BY <3>1, FitsInt
  <2>4. q.offset + ReadLength(q, length) = to
    <3> DEFINE l == ReadLength(q, length)
               asked == AsInt(q.length)
    <3>1. l = LET wanted == IF asked <= 0 THEN length ELSE asked
              IN  IF wanted > length - q.offset THEN length - q.offset ELSE wanted
      BY <2>2, <2>3 DEF ReadLength
    <3>2. asked = q.length \/ (asked \in -IntLimit .. 0 /\ q.length > length)
      BY <2>1
    <3>3. CASE asked = q.length
      <4>1. l = LET wanted == IF q.length <= 0 THEN length ELSE q.length
                IN  IF wanted > length - q.offset THEN length - q.offset ELSE wanted
        BY <3>1, <3>3
      <4> HIDE DEF l, asked
      <4> QED BY <1>1, <1>4, <4>1 DEF l
    <3>4. CASE asked \in -IntLimit .. 0 /\ q.length > length
      <4>1. l = length - q.offset /\ to = length
        <5> HIDE DEF l, asked
        <5> QED BY <1>1, <1>4, <3>1, <3>4
      <4> HIDE DEF l, asked, to
      <4> QED BY <1>1, <4>1 DEF l
    <3> QED BY <3>2, <3>3, <3>4
  <2> HIDE DEF to
  <2>5. SubSeq(data, q.offset + 1, q.offset + ReadLength(q, length)) = Slice(data, q.offset, q.length)
    BY <1>2, <2>4
  <2>6. ~(length <= q.offset)
    BY <1>1, <1>4
  <2> QED BY <1>4, <2>5, <2>6
<1> QED BY <1>1, <1>3, <1>4

----------------------------------------------------------------------------
\* What each operation means.
LEMMA ApplyColl ==
  ASSUME NEW op
  PROVE  /\ op.op = "COLL_CREATE" /\ HasColl(op) =>
              ApplyOp(colls, op) = [ret |-> "COLL_ALREADY_EXIST", colls |-> colls]
         /\ op.op = "COLL_CREATE" /\ ~HasColl(op) =>
              ApplyOp(colls, op) = [ret |-> "OK", colls |-> With(colls, op.cid, EmptyColl)]
         /\ op.op = "COLL_REMOVE" /\ ~HasColl(op) =>
              ApplyOp(colls, op) = [ret |-> "COLL_NOT_EXIST", colls |-> colls]
         /\ op.op = "COLL_REMOVE" /\ HasColl(op) =>
              ApplyOp(colls, op) = [ret |-> "OK", colls |-> Without(colls, op.cid)]
         /\ op.op = "COLL_MAP" /\ ~HasColl(op) =>
              ApplyOp(colls, op) = [ret |-> "MAP_NODE_NOT_EXIST", colls |-> colls]
         /\ op.op = "COLL_MAP" /\ HasColl(op) =>
              ApplyOp(colls, op) =
                [ret |-> "OK", colls |-> [colls EXCEPT ![op.cid].map = Updated(@, op.map)]]
BY DEF ApplyOp, HasColl

LEMMA ApplyObj ==
  ASSUME NEW op
  PROVE  LET old == IF HasObj(op) THEN Obj(op) ELSE EmptyObject
         IN /\ op.op \in {"OBJ_TOUCH", "OBJ_WRITE", "OBJ_REMOVE"} /\ ~HasColl(op) =>
                 ApplyOp(colls, op) = [ret |-> "COLL_NOT_EXIST", colls |-> colls]
            /\ op.op \in {"OBJ_TOUCH", "OBJ_WRITE"} /\ HasColl(op) =>
                 ApplyOp(colls, op) =
                   [ret |-> "OK",
                    colls |-> WithObject(op, [old EXCEPT !.data = Overwritten(@, op.offset, op.data)])]
            /\ op.op = "OBJ_REMOVE" /\ HasColl(op) /\ ~HasObj(op) =>
                 ApplyOp(colls, op) = [ret |-> "OBJECT_NOT_EXIST", colls |-> colls]
            /\ op.op = "OBJ_REMOVE" /\ HasObj(op) =>
                 ApplyOp(colls, op) =
                   [ret |-> "OK", colls |-> [colls EXCEPT ![op.cid].objects = Without(@, op.oid)]]
            /\ op.op = "OBJ_MAP" /\ ~HasObj(op) =>
                 ApplyOp(colls, op) = [ret |-> "MAP_NODE_NOT_EXIST", colls |-> colls]
            /\ op.op = "OBJ_MAP" /\ HasObj(op) =>
                 ApplyOp(colls, op) =
                   [ret |-> "OK",
                    colls |-> WithObject(op, [Obj(op) EXCEPT !.map = Updated(@, op.map)])]
BY DEF ApplyOp, HasColl, HasObj, Obj, WithObject

\* Where malloc refuses nothing and no assertion fails, an operation does what
\* it means.
LEMMA OpApplies ==
  ASSUME StoreOK, MallocMayFail = FALSE, NEW t \in Threads, IsOp(Op(t)), DoOp(t), ~DoObjWriteAborts(t)
  PROVE  \E code, s : Returns(t, code, s) /\ ApplyOp(colls, Op(t)) = [ret |-> code, colls |-> s]
<1> DEFINE op == Op(t)
           old == IF HasObj(op) THEN Obj(op) ELSE EmptyObject
<1>1. CASE DoCollCreate(t)
  <2>1. op.op = "COLL_CREATE"
    BY <1>1 DEF DoCollCreate, Doing
  <2> DEFINE with == With(colls, op.cid, EmptyColl)
  <2>2. \/ HasColl(op) /\ Returns(t, "COLL_ALREADY_EXIST", colls)
        \/ ~HasColl(op) /\ Returns(t, "OK", with)
    BY <1>1 DEF DoCollCreate
  <2>3. /\ HasColl(op) => ApplyOp(colls, op) = [ret |-> "COLL_ALREADY_EXIST", colls |-> colls]
        /\ ~HasColl(op) => ApplyOp(colls, op) = [ret |-> "OK", colls |-> with]
    BY <2>1, ApplyColl
  <2> HIDE DEF with
  <2> QED BY <2>2, <2>3
<1>2. CASE DoCollRemove(t)
  <2>1. op.op = "COLL_REMOVE"
    BY <1>2 DEF DoCollRemove, Doing
  <2> DEFINE without == Without(colls, op.cid)
  <2>2. \/ ~HasColl(op) /\ Returns(t, "COLL_NOT_EXIST", colls)
        \/ HasColl(op) /\ Returns(t, "OK", without)
    BY <1>2 DEF DoCollRemove
  <2>3. /\ ~HasColl(op) => ApplyOp(colls, op) = [ret |-> "COLL_NOT_EXIST", colls |-> colls]
        /\ HasColl(op) => ApplyOp(colls, op) = [ret |-> "OK", colls |-> without]
    BY <2>1, ApplyColl
  <2> HIDE DEF without
  <2> QED BY <2>2, <2>3
<1>3. CASE DoCollMap(t)
  <2>1. op.op = "COLL_MAP"
    BY <1>3 DEF DoCollMap, Doing
  <2> DEFINE set == [colls EXCEPT ![op.cid].map = Updated(@, op.map)]
  <2>2. MapUpdate(colls[op.cid].map, op.map, {}) = Updated(colls[op.cid].map, op.map)
    BY UpdateIs
  <2>3. \/ ~HasColl(op) /\ Returns(t, "MAP_NODE_NOT_EXIST", colls)
        \/ HasColl(op) /\ Returns(t, "OK", [colls EXCEPT ![op.cid].map = MapUpdate(@, op.map, {})])
    BY <1>3 DEF DoCollMap, Refusable
  <2>4. \/ ~HasColl(op) /\ Returns(t, "MAP_NODE_NOT_EXIST", colls)
        \/ HasColl(op) /\ Returns(t, "OK", set)
    BY <2>2, <2>3
  <2>5. /\ ~HasColl(op) => ApplyOp(colls, op) = [ret |-> "MAP_NODE_NOT_EXIST", colls |-> colls]
        /\ HasColl(op) => ApplyOp(colls, op) = [ret |-> "OK", colls |-> set]
    BY <2>1, ApplyColl
  <2> HIDE DEF set
  <2> QED BY <2>4, <2>5
<1>4. CASE DoObjWriteFails(t)
  <2>1. op.op \in {"OBJ_TOUCH", "OBJ_WRITE"} /\ ~HasColl(op) /\ Returns(t, "COLL_NOT_EXIST", colls)
    BY <1>4 DEF DoObjWriteFails, Doing
  <2> QED BY <2>1, ApplyObj
<1>5. CASE DoObjWrite(t)
  <2>1. /\ op.op \in {"OBJ_TOUCH", "OBJ_WRITE"} /\ HasColl(op)
        /\ op.offset \in Nat /\ op.data \in Seq(Int) /\ IsObject(old)
    BY <1>5, WriteLeaves
  <2>2. old.data \in Seq(Int) /\ old = [data |-> old.data, map |-> old.map]
    BY <2>1 DEF IsObject
  <2>3. \/ Length(op) = 0 /\ Returns(t, "OK", WithObject(op, old))
        \/ /\ Length(op) > 0
           /\ Returns(t, "OK", WithObject(op, [old EXCEPT !.data = WriteData(@, op.offset, op.data)]))
    BY <1>5 DEF DoObjWrite
  <2> DEFINE new == [old EXCEPT !.data = Overwritten(@, op.offset, op.data)]
  <2>4. ApplyOp(colls, op) = [ret |-> "OK", colls |-> WithObject(op, new)]
    BY <2>1, ApplyObj
  <2>5. CASE op.data = << >>
    <3>1. Length(op) = 0
      BY <2>5 DEF Length
    <3>2. Overwritten(old.data, op.offset, op.data) = old.data
      BY <2>5 DEF Overwritten
    <3>3. new = old
      <4> HIDE DEF old
      <4> QED BY <2>2, <3>2
    <3> HIDE DEF old, new
    <3> QED BY <2>3, <2>4, <3>1, <3>3
  <2>6. CASE op.data # << >>
    <3>1. op.op = "OBJ_WRITE"
      BY <2>1, <2>6 DEF IsOp
    <3>2. Length(op) > 0
      BY <2>1, <2>6, <3>1 DEF Length
    <3>3. WriteData(old.data, op.offset, op.data) = Overwritten(old.data, op.offset, op.data)
      BY <2>1, <2>2, <2>6, OverwriteIs
    <3>4. Returns(t, "OK", WithObject(op, new))
      <4> HIDE DEF old
      <4> QED BY <2>3, <3>2, <3>3
    <3> HIDE DEF old, new
    <3> QED BY <2>4, <3>4
  <2> QED BY <2>5, <2>6
<1>6. CASE DoObjRemove(t)
  <2>1. op.op = "OBJ_REMOVE"
    BY <1>6 DEF DoObjRemove, Doing
  <2>2. HasObj(op) => HasColl(op)
    BY DEF HasObj
  <2> DEFINE without == [colls EXCEPT ![op.cid].objects = Without(@, op.oid)]
  <2>3. \/ ~HasColl(op) /\ Returns(t, "COLL_NOT_EXIST", colls)
        \/ HasColl(op) /\ ~HasObj(op) /\ Returns(t, "OBJECT_NOT_EXIST", colls)
        \/ HasObj(op) /\ Returns(t, "OK", without)
    BY <1>6 DEF DoObjRemove
  <2>4. /\ ~HasColl(op) => ApplyOp(colls, op) = [ret |-> "COLL_NOT_EXIST", colls |-> colls]
        /\ HasColl(op) /\ ~HasObj(op) => ApplyOp(colls, op) = [ret |-> "OBJECT_NOT_EXIST", colls |-> colls]
        /\ HasObj(op) => ApplyOp(colls, op) = [ret |-> "OK", colls |-> without]
    BY <2>1, ApplyObj
  <2> HIDE DEF without
  <2> QED BY <2>3, <2>4
<1>7. CASE DoObjMap(t)
  <2>1. op.op = "OBJ_MAP"
    BY <1>7 DEF DoObjMap, Doing
  <2> DEFINE set == WithObject(op, [Obj(op) EXCEPT !.map = Updated(@, op.map)])
  <2>2. MapUpdate(Obj(op).map, op.map, {}) = Updated(Obj(op).map, op.map)
    BY UpdateIs
  <2>3. \/ ~HasObj(op) /\ Returns(t, "MAP_NODE_NOT_EXIST", colls)
        \/ HasObj(op) /\ Returns(t, "OK", WithObject(op, [Obj(op) EXCEPT !.map = MapUpdate(@, op.map, {})]))
    BY <1>7 DEF DoObjMap, Refusable
  <2>4. /\ ~HasObj(op) => ApplyOp(colls, op) = [ret |-> "MAP_NODE_NOT_EXIST", colls |-> colls]
        /\ HasObj(op) => ApplyOp(colls, op) = [ret |-> "OK", colls |-> set]
    BY <2>1, ApplyObj
  <2>5. \/ ~HasObj(op) /\ Returns(t, "MAP_NODE_NOT_EXIST", colls)
        \/ HasObj(op) /\ Returns(t, "OK", set)
    BY <2>2, <2>3
  <2> HIDE DEF set
  <2> QED BY <2>4, <2>5
<1> QED BY <1>1, <1>2, <1>3, <1>4, <1>5, <1>6, <1>7 DEF DoOp

----------------------------------------------------------------------------
\* What each read means.
LEMMA AnswerIs ==
  ASSUME NEW q
  PROVE  /\ q.read = "LIST_COLL" => Answer(colls, q) = [ret |-> "OK", value |-> ListOf(colls)]
         /\ q.read = "EXIST_COLL" =>
              Answer(colls, q) = [ret |-> "OK", value |-> <<IF HasColl(q) THEN 1 ELSE 0>>]
         /\ q.read \in {"READ_OBJ", "READ_COLL_MAP", "READ_COLL_MAP_KEY", "READ_OBJ_MAP_KEY"} /\ ~HasColl(q) =>
              Answer(colls, q) = [ret |-> "COLL_NOT_EXIST", value |-> << >>]
         /\ q.read = "READ_OBJ" /\ HasColl(q) /\ ~HasObj(q) =>
              Answer(colls, q) = [ret |-> "OBJECT_NOT_EXIST", value |-> << >>]
         /\ q.read = "READ_OBJ" /\ HasObj(q) =>
              Answer(colls, q) = [ret |-> "OK", value |-> Slice(Obj(q).data, q.offset, q.length)]
         /\ q.read = "READ_COLL_MAP" /\ HasColl(q) =>
              Answer(colls, q) = [ret |-> "OK", value |-> colls[q.cid].map]
         /\ q.read = "READ_OBJ_MAP" /\ ~HasObj(q) =>
              Answer(colls, q) = [ret |-> "MAP_NODE_NOT_EXIST", value |-> << >>]
         /\ q.read = "READ_OBJ_MAP" /\ HasObj(q) =>
              Answer(colls, q) = [ret |-> "OK", value |-> Obj(q).map]
         /\ q.read = "READ_OBJ_MAP_KEY" /\ HasColl(q) /\ ~HasObj(q) =>
              Answer(colls, q) = [ret |-> "MAP_NODE_NOT_EXIST", value |-> << >>]
BY DEF Answer, HasColl, HasObj, Obj

\* The value of one key, or that there is none.
ValueOf(map, key) == IF key \in DOMAIN map THEN [ret |-> "OK", value |-> <<map[key]>>]
                     ELSE [ret |-> "MAP_NODE_NOT_EXIST", value |-> << >>]

LEMMA KeyAnswerIs ==
  ASSUME NEW q
  PROVE  /\ q.read = "READ_COLL_MAP_KEY" /\ HasColl(q) =>
              Answer(colls, q) = ValueOf(colls[q.cid].map, q.key)
         /\ q.read = "READ_OBJ_MAP_KEY" /\ HasObj(q) =>
              Answer(colls, q) = ValueOf(Obj(q).map, q.key)
BY DEF Answer, HasColl, HasObj, Obj, ValueOf

\* The data of every object has a length that fits an int.
DataFits ==
  \A c \in DOMAIN colls : \A o \in DOMAIN colls[c].objects : Len(colls[c].objects[o].data) < IntLimit

\* Where malloc refuses nothing, a read of what fits an int returns what it
\* means.
LEMMA ReadAnswers ==
  ASSUME StoreOK, DataFits, MallocMayFail = FALSE, NEW t \in Threads, NEW q, ReadFits(q), Read(t, q)
  PROVE  /\ pc[t] = "idle" /\ lock = NoThread
         /\ answer' = [answer EXCEPT ![t] = Answer(colls, q)]
         /\ UNCHANGED <<colls, lock, pc, tran, next_op, ret, aborted>>
<1>1. pc[t] = "idle" /\ lock = NoThread
  BY DEF Read, DoReadObj, DoListColl, DoExistColl, DoReadMap, DoReadMapKey, Asks
<1> SUFFICES \E code, value : Answers(t, code, value) /\ Answer(colls, q) = [ret |-> code, value |-> value]
  BY <1>1 DEF Answers
<1>2. CASE DoReadObj(t, q)
  <2> DEFINE part == SubSeq(Obj(q).data, q.offset + 1, q.offset + ReadLength(q, Len(Obj(q).data)))
             slice == Slice(Obj(q).data, q.offset, q.length)
  <2>1. /\ q.read = "READ_OBJ"
        /\ \/ ~HasColl(q) /\ Answers(t, "COLL_NOT_EXIST", << >>)
           \/ HasColl(q) /\ ~HasObj(q) /\ Answers(t, "OBJECT_NOT_EXIST", << >>)
           \/ HasObj(q) /\ Len(Obj(q).data) <= q.offset /\ Answers(t, "OK", << >>)
           \/ HasObj(q) /\ Len(Obj(q).data) > q.offset /\ Answers(t, "OK", part)
    BY <1>2 DEF DoReadObj, Asks, NoMem
  <2>2. ASSUME HasObj(q)
        PROVE  /\ Len(Obj(q).data) <= q.offset => slice = << >>
               /\ Len(Obj(q).data) > q.offset => part = slice
    <3>1. Obj(q).data \in Seq(Int)
      BY <2>2, ObjectsFound DEF IsObject
    <3>2. Len(Obj(q).data) < IntLimit
      BY <2>2 DEF DataFits, HasObj, HasColl, Obj
    <3> QED BY <2>1, <3>1, <3>2, ReadIs DEF ReadFits
  <2> HIDE DEF part, slice
  <2>3. /\ ~HasColl(q) => Answer(colls, q) = [ret |-> "COLL_NOT_EXIST", value |-> << >>]
        /\ HasColl(q) /\ ~HasObj(q) => Answer(colls, q) = [ret |-> "OBJECT_NOT_EXIST", value |-> << >>]
        /\ HasObj(q) => Answer(colls, q) = [ret |-> "OK", value |-> slice]
    BY <2>1, AnswerIs DEF slice
  <2> QED BY <2>1, <2>2, <2>3
<1>3. CASE DoListColl(t, q) \/ DoExistColl(t, q)
  <2> DEFINE exists == <<IF HasColl(q) THEN 1 ELSE 0>>
  <2>1. \/ q.read = "LIST_COLL" /\ Answers(t, "OK", ListOf(colls))
        \/ q.read = "EXIST_COLL" /\ Answers(t, "OK", exists)
    BY <1>3 DEF DoListColl, DoExistColl, Asks, NoMem
  <2>2. /\ q.read = "LIST_COLL" => Answer(colls, q) = [ret |-> "OK", value |-> ListOf(colls)]
        /\ q.read = "EXIST_COLL" => Answer(colls, q) = [ret |-> "OK", value |-> exists]
    BY AnswerIs
  <2> HIDE DEF exists
  <2> QED BY <2>1, <2>2
<1>4. CASE DoReadMap(t, q)
  <2>1. CASE q.read = "READ_COLL_MAP"
    <3> DEFINE map == colls[q.cid].map
    <3>1. \/ ~HasColl(q) /\ Answers(t, "COLL_NOT_EXIST", << >>)
          \/ HasColl(q) /\ Answers(t, "OK", MapUpdate(<< >>, map, {}))
      BY <1>4, <2>1 DEF DoReadMap, Asks, Refusable
    <3>2. HasColl(q) => MapUpdate(<< >>, map, {}) = map
      BY CopyIs DEF StoreOK, IsColl, HasColl
    <3>3. /\ ~HasColl(q) => Answer(colls, q) = [ret |-> "COLL_NOT_EXIST", value |-> << >>]
          /\ HasColl(q) => Answer(colls, q) = [ret |-> "OK", value |-> map]
      BY <2>1, AnswerIs
    <3> HIDE DEF map
    <3> QED BY <3>1, <3>2, <3>3
  <2>2. CASE q.read = "READ_OBJ_MAP"
    <3> DEFINE map == Obj(q).map
    <3>1. \/ ~HasObj(q) /\ Answers(t, "MAP_NODE_NOT_EXIST", << >>)
          \/ HasObj(q) /\ Answers(t, "OK", MapUpdate(<< >>, map, {}))
      BY <1>4, <2>2 DEF DoReadMap, Asks, Refusable
    <3>2. HasObj(q) => MapUpdate(<< >>, map, {}) = map
      BY CopyIs, ObjectsFound DEF IsObject
    <3>3. /\ ~HasObj(q) => Answer(colls, q) = [ret |-> "MAP_NODE_NOT_EXIST", value |-> << >>]
          /\ HasObj(q) => Answer(colls, q) = [ret |-> "OK", value |-> map]
      BY <2>2, AnswerIs
    <3> HIDE DEF map
    <3> QED BY <3>1, <3>2, <3>3
  <2> QED BY <1>4, <2>1, <2>2 DEF DoReadMap, Asks
<1>5. CASE DoReadMapKey(t, q)
  <2>1. \A map : (\/ q.key \notin DOMAIN map /\ Answers(t, "MAP_NODE_NOT_EXIST", << >>)
                  \/ q.key \in DOMAIN map /\ (NoMem(t) \/ Answers(t, "OK", <<map[q.key]>>)))
                 => \E code, value : /\ Answers(t, code, value)
                                     /\ ValueOf(map, q.key) = [ret |-> code, value |-> value]
    BY DEF NoMem, ValueOf
  <2>2. CASE ~HasColl(q)
    <3>1. ~HasObj(q) /\ Answers(t, "COLL_NOT_EXIST", << >>)
          /\ q.read \in {"READ_COLL_MAP_KEY", "READ_OBJ_MAP_KEY"}
      BY <1>5, <2>2 DEF DoReadMapKey, Asks, HasObj
    <3> QED BY <2>2, <3>1, AnswerIs
  <2>3. CASE HasColl(q) /\ q.read = "READ_COLL_MAP_KEY"
    <3> DEFINE map == colls[q.cid].map
    <3>1. \/ q.key \notin DOMAIN map /\ Answers(t, "MAP_NODE_NOT_EXIST", << >>)
          \/ q.key \in DOMAIN map /\ (NoMem(t) \/ Answers(t, "OK", <<map[q.key]>>))
      BY <1>5, <2>3 DEF DoReadMapKey
    <3>2. Answer(colls, q) = ValueOf(map, q.key)
      BY <2>3, KeyAnswerIs
    <3> QED BY <2>1, <3>1, <3>2
  <2>4. CASE HasColl(q) /\ q.read = "READ_OBJ_MAP_KEY" /\ ~HasObj(q)
    <3>1. Answers(t, "MAP_NODE_NOT_EXIST", << >>)
      BY <1>5, <2>4 DEF DoReadMapKey
    <3> QED BY <2>4, <3>1, AnswerIs
  <2>5. CASE HasObj(q) /\ HasColl(q) /\ q.read = "READ_OBJ_MAP_KEY"
    <3> DEFINE map == Obj(q).map
    <3>1. \/ q.key \notin DOMAIN map /\ Answers(t, "MAP_NODE_NOT_EXIST", << >>)
          \/ q.key \in DOMAIN map /\ (NoMem(t) \/ Answers(t, "OK", <<map[q.key]>>))
      BY <1>5, <2>5 DEF DoReadMapKey
    <3>2. Answer(colls, q) = ValueOf(map, q.key)
      BY <2>5, KeyAnswerIs
    <3> QED BY <2>1, <3>1, <3>2
  <2> QED BY <1>5, <2>2, <2>3, <2>4, <2>5 DEF DoReadMapKey, Asks
<1> QED BY <1>2, <1>3, <1>4, <1>5 DEF Read

----------------------------------------------------------------------------
\* The transactions under way, and the data of objects, fit.
TransGiven == \A t \in Threads : pc[t] # "idle" => tran[t] \in Transactions

RInv == SInv /\ DataFits /\ TransGiven

LEMMA RInvInit == Init => RInv
<1> SUFFICES ASSUME Init PROVE RInv
  OBVIOUS
<1>1. DataFits
  BY DEF Init, DataFits
<1>2. TransGiven
  BY DEF Init, TransGiven
<1> QED BY <1>1, <1>2, SInvInit DEF RInv

\* An object that fits is put.
LEMMA PutFits ==
  ASSUME StoreOK, DataFits, NEW op, HasColl(op), NEW object, IsObject(object),
         Len(object.data) < IntLimit, colls' = WithObject(op, object)
  PROVE  \A o \in DOMAIN colls'[op.cid].objects : Len(colls'[op.cid].objects[o].data) < IntLimit
<1>1. /\ colls'[op.cid].objects[op.oid] = object
      /\ SameBut(colls[op.cid].objects, colls'[op.cid].objects, op.oid)
  BY ObjectPut
<1>2. \A o \in DOMAIN colls'[op.cid].objects : o # op.oid =>
        /\ o \in DOMAIN colls[op.cid].objects
        /\ colls'[op.cid].objects[o] = colls[op.cid].objects[o]
  BY <1>1 DEF SameBut
<1> QED BY <1>1, <1>2 DEF DataFits, HasColl

\* The data of objects goes on to fit an int.
LEMMA FitsNext ==
  ASSUME RInv, WritesFit, NEW t \in Threads, DoOp(t)
  PROVE  DataFits'
<1> DEFINE op == Op(t)
           c  == op.cid
           Fits(objects) == \A o \in DOMAIN objects : Len(objects[o].data) < IntLimit
<1>1. StoreOK /\ IsOp(op) /\ pc[t] = "exec" /\ ~LoopEnds(t)
  BY OpsReturn, OpKnown DEF RInv, SInv, TypeOK
<1>2. op.op = "OBJ_WRITE" => op.offset + Len(op.data) < IntLimit
  BY <1>1, OpKnown DEF RInv, TransGiven, WritesFit, Op
<1>3. \A d \in DOMAIN colls' : d # c => Fits(colls'[d].objects)
  BY <1>1, OthersStay DEF RInv, DataFits
<1> SUFFICES ASSUME c \in DOMAIN colls' PROVE Fits(colls'[c].objects)
  BY <1>3 DEF DataFits
<1>4. c \in DOMAIN colls => Fits(colls[c].objects)
  BY DEF RInv, DataFits
<1>5. CASE UNCHANGED colls
  BY <1>4, <1>5
<1>6. CASE DoCollCreate(t) /\ ~UNCHANGED colls
  <2>1. colls'[c] = EmptyColl
    BY <1>6 DEF DoCollCreate, Returns, With
  <2> QED BY <2>1 DEF EmptyColl
<1>7. CASE DoCollRemove(t) /\ ~UNCHANGED colls
  <2>1. c \notin DOMAIN colls'
    BY <1>7 DEF DoCollRemove, Returns, Without, Restrict
  <2> QED BY <2>1
<1>8. CASE DoCollMap(t) /\ ~UNCHANGED colls
  <2>1. op.op = "COLL_MAP"
    BY <1>8 DEF DoCollMap, Doing
  <2>2. c \in DOMAIN colls
    BY <1>8 DEF DoCollMap, Returns, HasColl
  <2>3. colls'[c].objects = colls[c].objects
    BY <1>8, <2>1, OpChanges DEF RInv, NamedChange
  <2> QED BY <1>4, <2>2, <2>3
<1>9. CASE DoObjWriteFails(t) \/ DoObjWriteAborts(t)
  BY <1>5, <1>9 DEF DoObjWriteFails, DoObjWriteAborts, Returns
<1>10. CASE DoObjWrite(t)
  <2> DEFINE old == IF HasObj(op) THEN Obj(op) ELSE EmptyObject
             written == WriteData(old.data, op.offset, op.data)
  <2>1. /\ op.op \in {"OBJ_TOUCH", "OBJ_WRITE"} /\ HasColl(op)
        /\ op.offset \in Nat /\ op.data \in Seq(Int) /\ IsObject(old)
    BY <1>1, <1>10, WriteLeaves
  <2>2. Len(old.data) < IntLimit
    <3>1. CASE HasObj(op)
      BY <3>1 DEF RInv, DataFits, HasObj, HasColl, Obj
    <3>2. CASE ~HasObj(op)
      BY <3>2, IntAssumption DEF EmptyObject
    <3> QED BY <3>1, <3>2
  <2>3. \/ colls' = WithObject(op, old)
        \/ op.op = "OBJ_WRITE" /\ colls' = WithObject(op, [old EXCEPT !.data = written])
    BY <1>10, <2>1 DEF DoObjWrite, Returns, Length
  <2>4. CASE colls' = WithObject(op, old)
    BY <1>1, <2>1, <2>2, <2>4, PutFits DEF RInv
  <2>5. CASE op.op = "OBJ_WRITE" /\ colls' = WithObject(op, [old EXCEPT !.data = written])
    <3>1. old = [data |-> old.data, map |-> old.map] /\ old.data \in Seq(Int) /\ IsAttrs(old.map)
      BY <2>1 DEF IsObject
    <3>2. /\ written \in Seq(Int)
          /\ Len(written) = IF Len(old.data) < op.offset + Len(op.data)
                              THEN op.offset + Len(op.data) ELSE Len(old.data)
      BY <2>1, <3>1, DataWritten
    <3>3. Len(written) < IntLimit
      BY <1>2, <2>2, <2>5, <3>2
    <3> DEFINE object == [data |-> written, map |-> old.map]
    <3> HIDE DEF written
    <3>4. [old EXCEPT !.data = written] = object
      BY <3>1
    <3>5. IsObject(object) /\ Len(object.data) < IntLimit
      BY <3>1, <3>2, <3>3 DEF IsObject
    <3>6. colls' = WithObject(op, object)
      BY <2>5, <3>4
    <3> HIDE DEF object
    <3> QED BY <1>1, <2>1, <3>5, <3>6, PutFits DEF RInv
  <2> QED BY <2>3, <2>4, <2>5
<1>11. CASE DoObjRemove(t) /\ ~UNCHANGED colls
  <2>1. HasColl(op) /\ colls' = [colls EXCEPT ![c].objects = Without(@, op.oid)]
    BY <1>11 DEF DoObjRemove, Returns, HasObj
  <2>2. colls'[c].objects = Without(colls[c].objects, op.oid)
    <3>1. c \in DOMAIN colls /\ colls[c] = [objects |-> colls[c].objects, map |-> colls[c].map]
      BY <1>1, <2>1 DEF HasColl, StoreOK, IsColl
    <3>2. colls'[c] = [colls[c] EXCEPT !.objects = Without(colls[c].objects, op.oid)]
      BY <2>1, <3>1
    <3> QED BY <3>1, <3>2
  <2>3. Fits(Without(colls[c].objects, op.oid))
    BY <1>4, <2>1 DEF Without, Restrict, HasColl
  <2> QED BY <2>2, <2>3
<1>12. CASE DoObjMap(t) /\ ~UNCHANGED colls
  <2>1. HasObj(op) /\ HasColl(op)
    BY <1>1, <1>12, ObjMapLeaves DEF HasObj
  <2>2. PICK object : /\ IsObject(object) /\ object.data = Obj(op).data
                      /\ colls' = WithObject(op, object)
    <3> DEFINE new(refused) == [data |-> Obj(op).data, map |-> MapUpdate(Obj(op).map, op.map, refused)]
    <3>1. PICK refused : IsObject(new(refused)) /\ colls' = WithObject(op, new(refused))
      BY <1>1, <1>12, ObjMapLeaves
    <3>2. new(refused).data = Obj(op).data
      OBVIOUS
    <3> HIDE DEF new
    <3> QED BY <3>1, <3>2
  <2>3. Len(object.data) < IntLimit
    BY <2>1, <2>2 DEF RInv, DataFits, HasObj, HasColl, Obj
  <2> QED BY <1>1, <2>1, <2>2, <2>3, PutFits DEF RInv
<1> QED BY <1>5, <1>6, <1>7, <1>8, <1>9, <1>10, <1>11, <1>12 DEF DoOp

LEMMA RInvNext ==
  ASSUME WritesFit, RInv, [Next]_vars
  PROVE  RInv'
<1>1. SInv'
  <2>1. [StoreStep]_vars
    BY TransactionsAssumption DEF Next, StoreStep
  <2> QED BY <2>1, SInvNext DEF RInv
<1>2. CASE UNCHANGED vars
  <2>1. DataFits' /\ TransGiven'
    BY <1>2 DEF RInv, DataFits, TransGiven, vars
  <2> QED BY <1>1, <2>1 DEF RInv
<1>3. ASSUME NEW t \in Threads, DoOp(t) PROVE RInv'
  <2>1. TransGiven'
    BY <1>3, OpsReturn DEF RInv, TransGiven
  <2> QED BY <1>1, <1>3, <2>1, FitsNext DEF RInv
<1>4. ASSUME NEW t \in Threads,
             \/ \E new \in Transactions : Submit(t, new)
             \/ BuildFails(t) \/ Lock(t) \/ Unlock(t)
             \/ \E q \in Queries : Read(t, q)
      PROVE  RInv'
  <2>1. UNCHANGED colls
    BY <1>4 DEF Submit, BuildFails, Lock, Unlock, Read, DoReadObj, DoListColl, DoExistColl,
                DoReadMap, DoReadMapKey, NoMem, Answers
  <2>2. DataFits'
    BY <2>1 DEF RInv, DataFits
  <2>3. \/ \E new \in Transactions : pc' = [pc EXCEPT ![t] = "lock"] /\ tran' = [tran EXCEPT ![t] = new]
        \/ UNCHANGED <<pc, tran>>
        \/ pc[t] = "lock" /\ pc' = [pc EXCEPT ![t] = "exec"] /\ UNCHANGED tran
        \/ pc' = [pc EXCEPT ![t] = "idle"] /\ tran' = [tran EXCEPT ![t] = << >>]
    BY <1>4 DEF Submit, BuildFails, Lock, Unlock, Read, DoReadObj, DoListColl, DoExistColl,
                DoReadMap, DoReadMapKey, NoMem, Answers
  <2>4. pc = [u \in Threads |-> pc[u]] /\ tran = [u \in Threads |-> tran[u]]
    BY DEF RInv, SInv, TypeOK
  <2>5. TransGiven'
    BY <2>3, <2>4 DEF RInv, TransGiven
  <2> QED BY <1>1, <2>2, <2>5 DEF RInv
<1> QED BY <1>2, <1>3, <1>4 DEF Next

----------------------------------------------------------------------------
\* The transaction that holds the lock has taken effect: the variables of
\* ObjectStore, as MemStore gives them.
Store   == IF lock = NoThread THEN colls ELSE Outcome(lock).colls
Pending == [t \in Threads |-> IF pc[t] = "lock" THEN tran[t] ELSE << >>]
Told    == [t \in Threads |-> IF pc[t] = "exec" THEN [ret |-> Outcome(t).ret, value |-> << >>]
                              ELSE answer[t]]

\* An operation is done as its transaction has foreseen.
LEMMA OutcomeStays ==
  ASSUME RInv, MallocMayFail = FALSE, NEW t \in Threads, DoOp(t)
  PROVE  Outcome(t)' = Outcome(t)
<1>1. /\ StoreOK /\ pc[t] = "exec" /\ IsOp(Op(t)) /\ IsTran(tran[t])
      /\ next_op[t] \in 1 .. Len(tran[t]) /\ ret[t] = "OK"
  BY OpsReturn, OpKnown DEF RInv, SInv, TypeOK
<1>2. CASE DoObjWriteAborts(t)
  BY <1>2 DEF DoObjWriteAborts, Outcome
<1>3. CASE ~DoObjWriteAborts(t)
  <2>1. PICK code, s : Returns(t, code, s) /\ ApplyOp(colls, Op(t)) = [ret |-> code, colls |-> s]
    BY <1>1, <1>3, OpApplies
  <2>2. Outcome(t) = IF code = "OK" THEN ApplyFrom(s, tran[t], next_op[t] + 1)
                     ELSE [ret |-> code, colls |-> s]
    <3>1. Outcome(t) = ApplyFrom(colls, tran[t], next_op[t])
      BY <1>1 DEF Outcome
    <3>2. Len(tran[t]) \in Nat
      BY <1>1 DEF IsTran
    <3> QED BY <1>1, <2>1, <3>1, <3>2, RunStarts DEF Op
  <2>3. /\ colls' = s /\ ret'[t] = code /\ next_op'[t] = next_op[t] + 1 /\ tran' = tran
    BY <2>1 DEF Returns, RInv, SInv, TypeOK
  <2>4. Outcome(t)' = IF code = "OK" THEN ApplyFrom(s, tran[t], next_op[t] + 1)
                      ELSE [ret |-> code, colls |-> s]
    BY <2>3 DEF Outcome
  <2> QED BY <2>2, <2>4
<1> QED BY <1>2, <1>3

\* A transaction that returns has done what it does.
LEMMA OutcomeAtEnd ==
  ASSUME RInv, NEW t \in Threads, pc[t] = "exec", LoopEnds(t)
  PROVE  Outcome(t) = [ret |-> ret[t], colls |-> colls]
<1>1. IsTran(tran[t]) /\ next_op[t] \in 1 .. Len(tran[t]) + 1
  BY DEF RInv, SInv, TransKnown
<1>2. CASE ret[t] # "OK"
  BY <1>2 DEF Outcome
<1>3. CASE ret[t] = "OK"
  <2>1. Len(tran[t]) \in Nat /\ next_op[t] = Len(tran[t]) + 1 /\ next_op[t] \in Nat
    BY <1>1, <1>3 DEF IsTran, LoopEnds
  <2>2. ApplyFrom(colls, tran[t], next_op[t]) = [ret |-> "OK", colls |-> colls]
    BY <2>1, RunEnds
  <2> QED BY <1>3, <2>2 DEF Outcome
<1> QED BY <1>2, <1>3

LEMMA SubmitRefines ==
  ASSUME RInv, NEW t \in Threads, NEW new \in Transactions, Submit(t, new)
  PROVE  OS!Submit(t, new)
<1>1. /\ pc[t] = "idle" /\ pc' = [pc EXCEPT ![t] = "lock"] /\ tran' = [tran EXCEPT ![t] = new]
      /\ answer' = [answer EXCEPT ![t] = NoAnswer] /\ UNCHANGED <<colls, lock, next_op, ret>>
  BY DEF Submit
<1>2. /\ pc \in [Threads -> {"idle", "lock", "exec"}]
      /\ tran = [u \in Threads |-> tran[u]] /\ answer = [u \in Threads |-> answer[u]]
  BY DEF RInv, SInv, TypeOK
<1>3. \A u \in Threads : u # t => pc'[u] = pc[u] /\ tran'[u] = tran[u] /\ answer'[u] = answer[u]
  BY <1>1, <1>2
<1>4. pc'[t] = "lock" /\ tran'[t] = new /\ answer'[t] = NoAnswer
  BY <1>1, <1>2
<1>5. \A u \in Threads : u # t => Outcome(u)' = Outcome(u)
  BY <1>1, <1>3 DEF Outcome
<1>6. Pending[t] = << >>
  BY <1>1 DEF Pending
<1>7. Pending' = [Pending EXCEPT ![t] = new]
  BY <1>3, <1>4 DEF Pending
<1>8. Told' = [Told EXCEPT ![t] = NoAnswer]
  BY <1>3, <1>4, <1>5 DEF Told
<1>9. Store' = Store
  <2>1. lock # t /\ lock \in Threads \cup {NoThread}
    BY <1>1, NoThreadAssumption DEF RInv, SInv, TypeOK, LockHeld
  <2> QED BY <1>1, <1>5, <2>1 DEF Store
<1> QED BY <1>6, <1>7, <1>8, <1>9 DEF OS!Submit, Store, Pending, Told, NoAnswer

LEMMA LockRefines ==
  ASSUME RInv, NEW t \in Threads, Lock(t)
  PROVE  OS!Commit(t)
<1>1. /\ pc[t] = "lock" /\ lock = NoThread /\ lock' = t /\ pc' = [pc EXCEPT ![t] = "exec"]
      /\ ret' = [ret EXCEPT ![t] = "OK"] /\ next_op' = [next_op EXCEPT ![t] = 1]
      /\ UNCHANGED <<colls, tran, answer>>
  BY DEF Lock
<1>2. /\ pc \in [Threads -> {"idle", "lock", "exec"}]
      /\ ret = [u \in Threads |-> ret[u]] /\ next_op = [u \in Threads |-> next_op[u]]
  BY DEF RInv, SInv, TypeOK
<1>3. \A u \in Threads : u # t => pc'[u] = pc[u]
  BY <1>1, <1>2
<1>4. pc'[t] = "exec" /\ ret'[t] = "OK" /\ next_op'[t] = 1
  BY <1>1, <1>2
<1>5. Outcome(t)' = ApplyTran(colls, tran[t])
  BY <1>1, <1>4 DEF Outcome, ApplyTran
<1>6. \A u \in Threads : u # t => pc[u] # "exec"
  BY <1>1, NoThreadAssumption DEF RInv, SInv, LockHeld
<1>7. Pending[t] = tran[t] /\ tran[t] # << >>
  BY <1>1 DEF Pending, RInv, SInv, TransKnown, IsTran
<1>8. Pending' = [Pending EXCEPT ![t] = << >>]
  BY <1>1, <1>3, <1>4 DEF Pending
<1>9. Store = colls /\ Store' = ApplyTran(Store, Pending[t]).colls
  BY <1>1, <1>5, <1>7, NoThreadAssumption DEF Store
<1>10. Told' = [Told EXCEPT ![t] = [ret |-> ApplyTran(Store, Pending[t]).ret, value |-> << >>]]
  BY <1>1, <1>3, <1>4, <1>5, <1>6, <1>7, <1>9 DEF Told
<1> QED BY <1>7, <1>8, <1>9, <1>10 DEF OS!Commit, Store, Pending, Told

LEMMA OpStutters ==
  ASSUME RInv, MallocMayFail = FALSE, NEW t \in Threads, DoOp(t)
  PROVE  UNCHANGED <<Store, Pending, Told>>
<1>1. pc[t] = "exec" /\ UNCHANGED <<lock, pc, tran, answer>>
  BY OpsReturn
<1>2. lock = t /\ \A u \in Threads : u # t => pc[u] # "exec"
  BY <1>1 DEF RInv, SInv, LockHeld
<1>3. Outcome(t)' = Outcome(t)
  BY OutcomeStays
<1>4. Store' = Store
  BY <1>1, <1>2, <1>3, NoThreadAssumption DEF Store
<1>5. Pending' = Pending
  BY <1>1 DEF Pending
<1>6. Told' = Told
  BY <1>1, <1>2, <1>3 DEF Told
<1> QED BY <1>4, <1>5, <1>6

LEMMA UnlockStutters ==
  ASSUME RInv, NEW t \in Threads, Unlock(t)
  PROVE  UNCHANGED <<Store, Pending, Told>>
<1>1. /\ pc[t] = "exec" /\ LoopEnds(t) /\ lock' = NoThread /\ pc' = [pc EXCEPT ![t] = "idle"]
      /\ answer' = [answer EXCEPT ![t] = [ret |-> ret[t], value |-> << >>]]
      /\ tran' = [tran EXCEPT ![t] = << >>] /\ UNCHANGED colls
  BY DEF Unlock
<1>2. /\ pc \in [Threads -> {"idle", "lock", "exec"}]
      /\ tran = [u \in Threads |-> tran[u]] /\ answer = [u \in Threads |-> answer[u]]
  BY DEF RInv, SInv, TypeOK
<1>3. \A u \in Threads : u # t => pc'[u] = pc[u] /\ tran'[u] = tran[u] /\ answer'[u] = answer[u]
  BY <1>1, <1>2
<1>4. pc'[t] = "idle" /\ answer'[t] = [ret |-> ret[t], value |-> << >>]
  BY <1>1, <1>2
<1>5. lock = t /\ t # NoThread /\ \A u \in Threads : u # t => pc[u] # "exec"
  BY <1>1, NoThreadAssumption DEF RInv, SInv, LockHeld
<1>6. Outcome(t) = [ret |-> ret[t], colls |-> colls]
  BY <1>1, OutcomeAtEnd
<1>7. Store' = Store
  BY <1>1, <1>5, <1>6 DEF Store
<1>8. Pending' = Pending
  BY <1>1, <1>3, <1>4 DEF Pending
<1>9. Told' = Told
  BY <1>1, <1>3, <1>4, <1>5, <1>6 DEF Told
<1> QED BY <1>7, <1>8, <1>9

LEMMA ReadRefines ==
  ASSUME RInv, MallocMayFail = FALSE, ReadsFit, NEW t \in Threads, NEW q \in Queries, Read(t, q)
  PROVE  OS!Read(t, q)
<1>1. /\ pc[t] = "idle" /\ lock = NoThread
      /\ answer' = [answer EXCEPT ![t] = Answer(colls, q)]
      /\ UNCHANGED <<colls, lock, pc, tran, next_op, ret>>
  BY ReadAnswers DEF ReadsFit, RInv, SInv, TypeOK
<1>2. answer = [u \in Threads |-> answer[u]]
  BY DEF RInv, SInv, TypeOK
<1>3. \A u \in Threads : pc[u] # "exec"
  BY <1>1, NoThreadAssumption DEF RInv, SInv, LockHeld
<1>4. Store = colls /\ Store' = Store
  BY <1>1 DEF Store
<1>5. Pending' = Pending /\ Pending[t] = << >>
  BY <1>1 DEF Pending
<1>6. Told' = [Told EXCEPT ![t] = Answer(Store, q)]
  BY <1>1, <1>2, <1>3, <1>4 DEF Told
<1> QED BY <1>4, <1>5, <1>6 DEF OS!Read, Store, Pending, Told

\* Where malloc refuses nothing and what threads ask for fits an int, a
\* transaction takes effect at one moment between its call and its return, as
\* far as it goes, and a read sees the store at one moment.
THEOREM StoreRefines ==
  ASSUME MallocMayFail = FALSE, WritesFit, ReadsFit
  PROVE  Spec => RefinesObjectStore
<1>1. Init => OS!Init
  BY DEF Init, OS!Init, NoAnswer
<1>2. RInv /\ [Next]_vars => RInv'
  BY RInvNext
<1>3. RInv /\ [Next]_vars => [OS!Next]_(OS!vars)
  <2> SUFFICES ASSUME RInv, [Next]_vars PROVE [OS!Next]_(OS!vars)
    OBVIOUS
  <2>1. ASSUME NEW t \in Threads, NEW new \in Transactions, Submit(t, new) PROVE OS!Next
    BY <2>1, SubmitRefines DEF OS!Next
  <2>2. ASSUME NEW t \in Threads, BuildFails(t) PROVE FALSE
    BY <2>2 DEF BuildFails
  <2>3. ASSUME NEW t \in Threads, Lock(t) PROVE OS!Next
    BY <2>3, LockRefines DEF OS!Next
  <2>4. ASSUME NEW t \in Threads, DoOp(t) \/ Unlock(t) PROVE UNCHANGED OS!vars
    BY <2>4, OpStutters, UnlockStutters DEF OS!vars, Store, Pending, Told
  <2>5. ASSUME NEW t \in Threads, NEW q \in Queries, Read(t, q) PROVE OS!Next
    BY <2>5, ReadRefines DEF OS!Next
  <2>6. CASE UNCHANGED vars
    BY <2>6 DEF vars, OS!vars, Outcome
  <2> QED BY <2>1, <2>2, <2>3, <2>4, <2>5, <2>6 DEF Next
<1> QED BY <1>1, <1>2, <1>3, RInvInit, PTL DEF Spec, RefinesObjectStore, OS!Spec

----------------------------------------------------------------------------
(***************************************************************************)
(* Creating an OSD in it: OsdCreate.                                       *)
(***************************************************************************)

\* Creating is a user of the store.
LEMMA CreateTransAreTrans ==
  ASSUME NEW t \in Threads, NEW i \in 1 .. 3
  PROVE  IsTran(CreateTrans(t)[i])
BY DEF CreateTrans, CollCreate, CollMap, IsTran, IsOp, OpKinds

LEMMA CreateIsStoreStep ==
  ASSUME CreateNext, step \in [Threads -> 0 .. 3]
  PROVE  [StoreStep]_vars
<1>1. ASSUME NEW t \in Threads, NEW i \in 1 .. 3, Call(t, i) PROVE StoreStep
  BY <1>1, CreateTransAreTrans DEF Call, StoreStep
<1>2. ASSUME NEW t \in Threads, BeginCreate(t) \/ NextCall(t) PROVE StoreStep
  <2>1. step[t] \in 0 .. 3
    OBVIOUS
  <2>2. BeginCreate(t) => Call(t, 1)
    BY DEF BeginCreate
  <2>3. NextCall(t) => step[t] + 1 \in 1 .. 3 /\ Call(t, step[t] + 1)
    BY <2>1 DEF NextCall
  <2> QED BY <1>1, <1>2, <2>2, <2>3
<1>3. ASSUME NEW t \in Threads, UseStore(t) \/ StoreGoesOn(t) PROVE StoreStep
  BY <1>3, TransactionsAssumption DEF UseStore, StoreGoesOn, StoreStep
<1>4. ASSUME NEW t \in Threads, CreateReturns(t) PROVE UNCHANGED vars
  BY <1>4 DEF CreateReturns
<1> QED BY <1>2, <1>3, <1>4 DEF CreateNext

LEMMA CreateSpecIsStoreSpec == CreateSpec => StoreSpec
<1>1. CreateInit => Init
  BY DEF CreateInit
<1>2. CreateInit => step \in [Threads -> 0 .. 3]
  BY DEF CreateInit
<1>3. step \in [Threads -> 0 .. 3] /\ [CreateNext]_<<vars, create_vars>>
        => (step \in [Threads -> 0 .. 3])'
  BY DEF CreateNext, BeginCreate, NextCall, Call, CallReturned, CreateReturns, UseStore,
         StoreGoesOn, create_vars
<1>4. step \in [Threads -> 0 .. 3] /\ [CreateNext]_<<vars, create_vars>> => [StoreStep]_vars
  BY CreateIsStoreStep
<1> QED BY <1>1, <1>2, <1>3, <1>4, PTL DEF CreateSpec, StoreSpec

\* An operation of a create or of a user that fails loses nothing.
THEOREM NothingLostCreating == CreateSpec => FailedOpsLoseNothing
BY CreateSpecIsStoreSpec, NothingLost, PTL

\* Nor does one change what it does not name.
THEOREM NamedOnlyCreating == CreateSpec => OnlyTheNamedChanges
BY CreateSpecIsStoreSpec, NamedOnly, PTL

----------------------------------------------------------------------------
\* Where threads are in what they submit.
Submitted ==
  /\ step \in [Threads -> 0 .. 3]
  /\ created = [t \in Threads |-> created[t]]
  /\ \A t \in Threads : pc[t] # "idle" =>
       IF step[t] = 0 THEN tran[t] \in Transactions ELSE tran[t] = CreateTrans(t)[step[t]]
  /\ \A t \in Threads : pc[t] = "exec" => next_op[t] \in Nat \ {0}

\* The operation that made the collection has succeeded in the first call of t.
FirstDone(t) ==
  /\ step[t] = 1
  /\ \/ pc[t] = "exec" /\ ret[t] = "OK" /\ next_op[t] > 1
     \/ pc[t] = "idle" /\ answer[t].ret = "OK"

Behind(t) == step[t] > 1 \/ FirstDone(t)

Past(t) == Behind(t) \/ created[t] = "OK"

\* The thread that made the collection is alone, and the collection is its.
MetaIsOf(t) ==
  /\ MetaColl \in DOMAIN colls
  /\ OsdIdKey \in DOMAIN Meta => Meta[OsdIdKey] = OsdId[t]
  /\ MaxEpochKey \in DOMAIN Meta => Meta[MaxEpochKey] = FirstEpoch

OneCreator ==
  /\ \A t, u \in Threads : Past(t) /\ Past(u) => t = u
  /\ \A t \in Threads : Past(t) => MetaIsOf(t)

CInv == SInv /\ Submitted /\ OneCreator

\* The collection lacks an attribute, and no create is behind its first call.
Abandoned == MetaColl \in DOMAIN colls /\ ~Whole /\ \A t \in Threads : ~Behind(t)

LEMMA CInvInit == CreateInit => CInv
<1> SUFFICES ASSUME CreateInit PROVE CInv
  OBVIOUS
<1>1. SInv
  BY SInvInit DEF CreateInit
<1>2. Submitted
  BY DEF CreateInit, Init, Submitted
<1>3. \A t \in Threads : ~Past(t)
  BY DEF CreateInit, Past, Behind, FirstDone
<1> QED BY <1>1, <1>2, <1>3 DEF CInv, OneCreator


\* A step does not take u past its first call.
NoFurther(u) == (Past(u)' => Past(u)) /\ (Behind(u)' => Behind(u))

\* A step after which no other thread is past its first call, and the meta
\* collection is the same.
LEMMA NoNewPast ==
  ASSUME CInv, \A u \in Threads : NoFurther(u),
         MetaColl \in DOMAIN colls => MetaColl \in DOMAIN colls' /\ colls'[MetaColl] = colls[MetaColl]
  PROVE  OneCreator' /\ (Abandoned => Abandoned')
<1>1. \A t \in Threads : Past(t)' => MetaIsOf(t)'
  BY DEF CInv, OneCreator, MetaIsOf, Meta, NoFurther
<1>2. \A t, u \in Threads : Past(t)' /\ Past(u)' => t = u
  BY DEF CInv, OneCreator, NoFurther
<1>3. Abandoned => Abandoned'
  BY DEF Abandoned, Whole, Meta, NoFurther
<1> QED BY <1>1, <1>2, <1>3 DEF OneCreator

\* A thread is as it was.
SameThread(u) == UNCHANGED <<pc[u], ret[u], next_op[u], tran[u], answer[u], step[u], created[u]>>

LEMMA SamePast ==
  ASSUME NEW u \in Threads, SameThread(u)
  PROVE  NoFurther(u) /\ (Past(u)' <=> Past(u))
BY DEF Past, Behind, FirstDone, SameThread, NoFurther

\* What is submitted stays known when one thread takes a step.
LEMMA SubmittedStays ==
  ASSUME Submitted, NEW t \in Threads,
         \A u \in Threads \ {t} : SameThread(u),
         step' \in [Threads -> 0 .. 3], created' = [u \in Threads |-> created'[u]],
         pc'[t] # "idle" =>
           IF step'[t] = 0 THEN tran'[t] \in Transactions ELSE tran'[t] = CreateTrans(t)[step'[t]],
         pc'[t] = "exec" => next_op'[t] \in Nat \ {0}
  PROVE  Submitted'
<1>1. ASSUME NEW u \in Threads, pc'[u] # "idle"
      PROVE  IF step'[u] = 0 THEN tran'[u] \in Transactions
                             ELSE tran'[u] = CreateTrans(u)[step'[u]]
  <2>1. CASE u = t
    BY <1>1, <2>1
  <2>2. CASE u # t
    <3>1. pc'[u] = pc[u] /\ tran'[u] = tran[u] /\ step'[u] = step[u]
      BY <2>2 DEF SameThread
    <3> QED BY <1>1, <3>1 DEF Submitted
  <2> QED BY <2>1, <2>2
<1>2. ASSUME NEW u \in Threads, pc'[u] = "exec" PROVE next_op'[u] \in Nat \ {0}
  <2>1. CASE u = t
    BY <1>2, <2>1
  <2>2. CASE u # t
    <3>1. pc'[u] = pc[u] /\ next_op'[u] = next_op[u]
      BY <2>2 DEF SameThread
    <3> QED BY <1>2, <3>1 DEF Submitted
  <2> QED BY <2>1, <2>2
<1> QED BY <1>1, <1>2 DEF Submitted, CreateTrans

\* The next call of cceph_osd_create.
LEMMA CallKeeps ==
  ASSUME CInv, NEW t \in Threads, NEW i \in 1 .. 3, Call(t, i), pc[t] = "idle",
         i = 1 \/ Behind(t),
         created' = created \/ created' = [created EXCEPT ![t] = "none"],
         i > 1 => created' = created
  PROVE  Submitted' /\ OneCreator' /\ (Abandoned => Abandoned')
<1>1. /\ step' = [step EXCEPT ![t] = i] /\ UNCHANGED <<colls, ret, next_op>>
      /\ \E a : answer' = [answer EXCEPT ![t] = a] /\ a.ret # "OK"
      /\ \/ pc' = [pc EXCEPT ![t] = "lock"] /\ tran' = [tran EXCEPT ![t] = CreateTrans(t)[i]]
         \/ UNCHANGED <<pc, tran>>
  <2>1. step' = [step EXCEPT ![t] = i]
    BY DEF Call
  <2>2. CASE Submit(t, CreateTrans(t)[i])
    <3>1. answer' = [answer EXCEPT ![t] = NoAnswer] /\ NoAnswer.ret # "OK"
      BY <2>2 DEF Submit, NoAnswer
    <3> QED BY <2>1, <2>2, <3>1 DEF Submit
  <2>3. CASE BuildFails(t)
    <3> DEFINE a == [ret |-> "NO_ENOUGH_MEM", value |-> << >>]
    <3>1. answer' = [answer EXCEPT ![t] = a] /\ a.ret # "OK"
      BY <2>3 DEF BuildFails
    <3> QED BY <2>1, <2>3, <3>1 DEF BuildFails
  <2> QED BY <2>2, <2>3 DEF Call
<1>2. \A u \in Threads \ {t} : SameThread(u)
  BY <1>1 DEF CInv, SInv, TypeOK, Submitted, SameThread
<1>3. Submitted'
  <2>1. step' \in [Threads -> 0 .. 3] /\ step'[t] = i /\ i # 0
    BY <1>1 DEF CInv, Submitted
  <2>2. pc'[t] # "idle" => tran'[t] = CreateTrans(t)[i] /\ pc'[t] = "lock"
    BY <1>1 DEF CInv, SInv, TypeOK
  <2>3. created' = [u \in Threads |-> created'[u]]
    BY DEF CInv, Submitted
  <2> QED BY <1>2, <2>1, <2>2, <2>3, SubmittedStays DEF CInv
<1>4. NoFurther(t)
  <2>1. i = 1 => ~FirstDone(t)'
    BY <1>1 DEF FirstDone, CInv, SInv, TypeOK
  <2>2. i = 1 => step'[t] = 1
    BY <1>1 DEF CInv, Submitted
  <2>3. created'[t] = "OK" => created[t] = "OK"
    BY DEF CInv, Submitted
  <2> QED BY <2>1, <2>2, <2>3 DEF Past, Behind, NoFurther
<1>5. \A u \in Threads : NoFurther(u)
  BY <1>2, <1>4, SamePast
<1> QED BY <1>1, <1>3, <1>5, NoNewPast

\* The return of cceph_osd_create.
LEMMA ReturnKeeps ==
  ASSUME CInv, NEW t \in Threads, CreateReturns(t)
  PROVE  Submitted' /\ OneCreator' /\ (Abandoned => Abandoned')
<1>1. /\ step[t] # 0 /\ pc[t] = "idle" /\ step' = [step EXCEPT ![t] = 0]
      /\ created' = [created EXCEPT ![t] = answer[t].ret] /\ UNCHANGED vars
      /\ answer[t].ret # "OK" \/ step[t] = 3
  BY DEF CreateReturns, CallReturned
<1>2. \A u \in Threads \ {t} : SameThread(u)
  BY <1>1 DEF CInv, Submitted, SameThread, vars
<1>3. Submitted'
  BY <1>1, <1>2, SubmittedStays DEF CInv, Submitted, vars
<1>4. NoFurther(t)
  BY <1>1 DEF CInv, Submitted, Past, Behind, FirstDone, NoFurther
<1>5. \A u \in Threads : NoFurther(u)
  BY <1>2, <1>4, SamePast
<1> QED BY <1>1, <1>3, <1>5, NoNewPast DEF vars

\* Another use of the store, and the lock taken and given back.
LEMMA UseKeeps ==
  ASSUME CInv, NEW t \in Threads, UseStore(t)
  PROVE  Submitted' /\ OneCreator' /\ (Abandoned => Abandoned')
<1>1. /\ step[t] = 0 /\ UNCHANGED <<step, created, colls, ret, next_op>> /\ pc[t] = "idle"
      /\ \E a : answer' = [answer EXCEPT ![t] = a]
      /\ \/ \E new \in Transactions :
              pc' = [pc EXCEPT ![t] = "lock"] /\ tran' = [tran EXCEPT ![t] = new]
         \/ UNCHANGED <<pc, tran>>
  BY DEF UseStore, create_vars, Submit, BuildFails, Read, DoReadObj, DoListColl, DoExistColl,
         DoReadMap, DoReadMapKey, NoMem, Answers, Asks
<1>2. \A u \in Threads \ {t} : SameThread(u)
  BY <1>1 DEF CInv, SInv, TypeOK, SameThread
<1>3. Submitted'
  BY <1>1, <1>2, SubmittedStays DEF CInv, SInv, TypeOK, Submitted
<1>4. NoFurther(t)
  BY <1>1 DEF Past, Behind, FirstDone, NoFurther
<1>5. \A u \in Threads : NoFurther(u)
  BY <1>2, <1>4, SamePast
<1> QED BY <1>1, <1>3, <1>5, NoNewPast

LEMMA LockKeeps ==
  ASSUME CInv, NEW t \in Threads, Lock(t), UNCHANGED create_vars
  PROVE  Submitted' /\ OneCreator' /\ (Abandoned => Abandoned')
<1>1. /\ UNCHANGED <<step, created, colls, tran, answer>> /\ pc[t] = "lock"
      /\ pc' = [pc EXCEPT ![t] = "exec"] /\ ret' = [ret EXCEPT ![t] = "OK"]
      /\ next_op' = [next_op EXCEPT ![t] = 1]
  BY DEF Lock, create_vars
<1>2. \A u \in Threads \ {t} : SameThread(u)
  BY <1>1 DEF CInv, SInv, TypeOK, SameThread
<1>3. pc'[t] = "exec" /\ next_op'[t] = 1
  BY <1>1 DEF CInv, SInv, TypeOK
<1>4. Submitted'
  BY <1>1, <1>2, <1>3, SubmittedStays DEF CInv, Submitted
<1>5. NoFurther(t)
  BY <1>1, <1>3 DEF Past, Behind, FirstDone, NoFurther
<1>6. \A u \in Threads : NoFurther(u)
  BY <1>2, <1>5, SamePast
<1> QED BY <1>1, <1>4, <1>6, NoNewPast

LEMMA UnlockKeeps ==
  ASSUME CInv, NEW t \in Threads, Unlock(t), UNCHANGED create_vars
  PROVE  Submitted' /\ OneCreator' /\ (Abandoned => Abandoned')
<1>1. /\ UNCHANGED <<step, created, colls>> /\ pc[t] = "exec" /\ LoopEnds(t)
      /\ pc' = [pc EXCEPT ![t] = "idle"]
      /\ answer' = [answer EXCEPT ![t] = [ret |-> ret[t], value |-> << >>]]
      /\ tran' = [tran EXCEPT ![t] = << >>]
      /\ next_op' = [next_op EXCEPT ![t] = 1]
      /\ ret' = [ret EXCEPT ![t] = "OK"]
  BY DEF Unlock, create_vars
<1>2. \A u \in Threads \ {t} : SameThread(u)
  BY <1>1 DEF CInv, SInv, TypeOK, SameThread
<1>3. pc'[t] = "idle" /\ answer'[t].ret = ret[t]
  BY <1>1 DEF CInv, SInv, TypeOK
<1>4. Submitted'
  BY <1>1, <1>2, <1>3, SubmittedStays DEF CInv, Submitted
<1>5. NoFurther(t)
  <2>1. step[t] = 1 /\ ret[t] = "OK" => next_op[t] > 1
    <3>1. step[t] = 1 => tran[t] = CreateTrans(t)[1] /\ next_op[t] \in Nat
      BY <1>1 DEF CInv, Submitted
    <3>2. Len(CreateTrans(t)[1]) = 1
      BY DEF CreateTrans
    <3> QED BY <1>1, <3>1, <3>2 DEF LoopEnds
  <2> QED BY <1>1, <1>3, <2>1 DEF Past, Behind, FirstDone, NoFurther
<1>6. \A u \in Threads : NoFurther(u)
  BY <1>2, <1>5, SamePast
<1> QED BY <1>1, <1>4, <1>6, NoNewPast

\* new is what an update by one key at most makes of old.
OneSet(new, old, x, v) ==
  \A y \in DOMAIN new : /\ y = x => new[y] = v
                        /\ y # x => y \in DOMAIN old /\ new[y] = old[y]

LEMMA UpdateByOne ==
  ASSUME NEW map, NEW x, NEW v, v # Empty, NEW input, DOMAIN input = {x}, input[x] = v,
         NEW refused \in {{}, {x}}
  PROVE  OneSet(MapUpdate(map, input, refused), map, x, v)
<1> DEFINE done == {k \in DOMAIN input : \A r \in refused : k < r}
           kept == DOMAIN map \ (done \cup refused)
           set  == {k \in done : input[k] # Empty}
           new  == [k \in kept \cup set |-> IF k \in set THEN input[k] ELSE map[k]]
<1>1. MapUpdate(map, input, refused) = new
  BY DEF MapUpdate
<1> SUFFICES ASSUME NEW y \in DOMAIN new
             PROVE  /\ y = x => new[y] = v
                    /\ y # x => y \in DOMAIN map /\ new[y] = map[y]
  BY <1>1 DEF OneSet
<1>2. y \in kept \cup set
  OBVIOUS
<1>3. new[y] = IF y \in set THEN input[y] ELSE map[y]
  BY <1>2
<1>4. y \in set => y = x
  OBVIOUS
<1>5. y \in kept => y \in DOMAIN map
  OBVIOUS
<1>6. y = x => y \in set
  <2>1. x \in done => x \in set
    OBVIOUS
  <2>2. x \notin done => x \notin kept
    OBVIOUS
  <2>3. x \in kept => x \notin done
    OBVIOUS
  <2> QED BY <1>2, <2>1, <2>2, <2>3
<1> HIDE DEF new, set, kept, done
<1> QED BY <1>2, <1>3, <1>4, <1>5, <1>6

\* The operation at hand sets one attribute of the meta collection.
SetsMeta(t, key, value) ==
  /\ Op(t).op = "COLL_MAP" /\ Op(t).cid = MetaColl
  /\ DOMAIN Op(t).map = {key} /\ Op(t).map[key] = value

\* What a call of cceph_osd_create is at.
LEMMA CreateOp ==
  ASSUME CInv, NEW t \in Threads, DoOp(t), step[t] # 0
  PROVE  /\ next_op[t] = 1
         /\ step[t] = 1 => Op(t) = CollCreate(MetaColl)
         /\ step[t] = 2 => SetsMeta(t, OsdIdKey, OsdId[t])
         /\ step[t] = 3 => SetsMeta(t, MaxEpochKey, FirstEpoch)
<1>1. pc[t] = "exec" /\ ~LoopEnds(t)
  BY OpsReturn
<1>2. /\ step[t] \in 1 .. 3 /\ tran[t] = CreateTrans(t)[step[t]] /\ next_op[t] \in Nat \ {0}
  BY <1>1 DEF CInv, Submitted
<1>3. Len(CreateTrans(t)[step[t]]) = 1
  BY <1>2 DEF CreateTrans
<1>4. next_op[t] = 1
  BY <1>1, <1>2, <1>3 DEF LoopEnds
<1>5. Op(t) = CreateTrans(t)[step[t]][1]
  BY <1>2, <1>4 DEF Op
<1>6. step[t] = 1 => Op(t) = CollCreate(MetaColl)
  BY <1>5 DEF CreateTrans
<1>7. step[t] = 2 => SetsMeta(t, OsdIdKey, OsdId[t])
  <2> DEFINE map == [k \in {OsdIdKey} |-> OsdId[t]]
  <2>1. step[t] = 2 => Op(t) = CollMap(MetaColl, map)
    BY <1>5 DEF CreateTrans
  <2>2. DOMAIN map = {OsdIdKey} /\ map[OsdIdKey] = OsdId[t]
    OBVIOUS
  <2> HIDE DEF map
  <2> QED BY <2>1, <2>2 DEF SetsMeta, CollMap
<1>8. step[t] = 3 => SetsMeta(t, MaxEpochKey, FirstEpoch)
  <2> DEFINE map == [k \in {MaxEpochKey} |-> FirstEpoch]
  <2>1. step[t] = 3 => Op(t) = CollMap(MetaColl, map)
    BY <1>5 DEF CreateTrans
  <2>2. DOMAIN map = {MaxEpochKey} /\ map[MaxEpochKey] = FirstEpoch
    OBVIOUS
  <2> HIDE DEF map
  <2> QED BY <2>1, <2>2 DEF SetsMeta, CollMap
<1> QED BY <1>4, <1>6, <1>7, <1>8

LEMMA DoOpKeeps ==
  ASSUME CInv, NEW t \in Threads, DoOp(t), UNCHANGED create_vars
  PROVE  Submitted' /\ OneCreator' /\ (Abandoned => Abandoned')
<1>1. /\ pc[t] = "exec" /\ ~LoopEnds(t) /\ ret[t] = "OK"
      /\ UNCHANGED <<pc, tran, answer, step, created>>
      /\ \/ UNCHANGED <<colls, next_op, ret>>
         \/ /\ \E code : ret' = [ret EXCEPT ![t] = code]
            /\ next_op' = [next_op EXCEPT ![t] = @ + 1]
  BY OpsReturn DEF LoopEnds, create_vars
<1>2. \A u \in Threads \ {t} : SameThread(u)
  BY <1>1 DEF CInv, SInv, TypeOK, SameThread
<1>3. Submitted'
  <2>1. next_op'[t] \in Nat \ {0}
    BY <1>1 DEF CInv, SInv, TypeOK, Submitted
  <2> QED BY <1>1, <1>2, <2>1, SubmittedStays DEF CInv, Submitted
<1>4. StoreOK /\ \A u \in Threads \ {t} : NoFurther(u) /\ (Past(u)' <=> Past(u))
  BY <1>2, SamePast DEF CInv, SInv, TypeOK
<1>5. CASE step[t] = 0
  <2>1. Op(t).cid # MetaColl
    <3>1. tran[t] \in Transactions /\ next_op[t] \in 1 .. Len(tran[t])
      <4>1. tran[t] \in Transactions /\ next_op[t] \in Nat \ {0} /\ ~(next_op[t] > Len(tran[t]))
        BY <1>1, <1>5 DEF CInv, Submitted, LoopEnds
      <4>2. Len(tran[t]) \in Nat
        BY <4>1, TransactionsAssumption DEF IsTran
      <4> QED BY <4>1, <4>2
    <3> QED BY <3>1, UsersAssumption DEF Op
  <2>2. NoFurther(t)
    BY <1>1, <1>5 DEF Past, Behind, FirstDone, NoFurther
  <2> QED BY <1>3, <1>4, <2>1, <2>2, OthersStay, NoNewPast
<1>6. CASE step[t] = 1 /\ UNCHANGED colls
  <2>1. Op(t).op = "COLL_CREATE"
    BY <1>6, CreateOp DEF CollCreate
  <2>2. DoCollCreate(t)
    BY <2>1 DEF DoOp, DoCollRemove, DoCollMap, DoObjWriteFails, DoObjWrite, DoObjWriteAborts,
                DoObjRemove, DoObjMap, Doing
  <2>3. ret'[t] # "OK"
    <3>1. Op(t).cid \in DOMAIN With(colls, Op(t).cid, EmptyColl)
      BY DEF With
    <3> QED BY <1>6, <2>2, <3>1 DEF DoCollCreate, Returns, HasColl, CInv, SInv, TypeOK
  <2>4. NoFurther(t)
    BY <1>1, <1>6, <2>3 DEF Past, Behind, FirstDone, NoFurther
  <2> QED BY <1>3, <1>4, <1>6, <2>4, NoNewPast
<1>7. CASE step[t] = 1 /\ ~UNCHANGED colls
  <2>1. Op(t).op = "COLL_CREATE" /\ Op(t).cid = MetaColl
    BY <1>7, CreateOp DEF CollCreate
  <2>2. DoCollCreate(t)
    BY <2>1 DEF DoOp, DoCollRemove, DoCollMap, DoObjWriteFails, DoObjWrite, DoObjWriteAborts,
                DoObjRemove, DoObjMap, Doing
  <2>3. MetaColl \notin DOMAIN colls /\ colls' = With(colls, MetaColl, EmptyColl)
    BY <1>7, <2>1, <2>2 DEF DoCollCreate, Returns, HasColl
  <2>4. \A u \in Threads : ~Past(u)
    BY <2>3 DEF CInv, OneCreator, MetaIsOf
  <2>5. MetaColl \in DOMAIN colls' /\ colls'[MetaColl] = EmptyColl
    BY <2>3 DEF With
  <2>6. Meta' = << >>
    BY <2>5 DEF Meta, EmptyColl
  <2>7. MetaIsOf(t)'
    BY <2>5, <2>6 DEF MetaIsOf
  <2>8. \A u \in Threads : Past(u)' => u = t
    BY <1>4, <2>4
  <2> QED BY <1>3, <2>3, <2>7, <2>8 DEF OneCreator, Abandoned
<1>8. CASE step[t] \in {2, 3}
  <2>1. PICK x, v : /\ SetsMeta(t, x, v) /\ v # Empty
                    /\ \/ x = OsdIdKey /\ v = OsdId[t]
                       \/ x = MaxEpochKey /\ v = FirstEpoch
    BY <1>8, CreateOp, ValuesAssumption DEF Empty
  <2>2. PICK input : input = Op(t).map
    OBVIOUS
  <2>3. DoCollMap(t)
    BY <2>1 DEF DoOp, DoCollCreate, DoCollRemove, DoObjWriteFails, DoObjWrite, DoObjWriteAborts,
                DoObjRemove, DoObjMap, Doing, SetsMeta
  <2>4. Past(t) /\ Behind(t) /\ MetaIsOf(t) /\ \A u \in Threads \ {t} : ~Past(u)
    BY <1>8 DEF Past, Behind, CInv, OneCreator
  <2>5. PICK refused \in {{}, {x}} :
          colls' = [colls EXCEPT ![MetaColl].map = MapUpdate(@, input, refused)]
    <3>1. Op(t).cid = MetaColl /\ HasColl(Op(t)) /\ DOMAIN input = {x}
      BY <2>1, <2>2, <2>4 DEF SetsMeta, HasColl, MetaIsOf
    <3>2. Refusable(input) \subseteq {{}, {x}}
      BY <3>1 DEF Refusable
    <3> QED BY <2>2, <2>3, <3>1, <3>2 DEF DoCollMap, Returns
  <2>6. MetaColl \in DOMAIN colls' /\ Meta' = MapUpdate(Meta, input, refused)
    <3>1. /\ MetaColl \in DOMAIN colls /\ IsMap(colls)
          /\ colls[MetaColl] = [objects |-> colls[MetaColl].objects, map |-> colls[MetaColl].map]
      BY <1>4, <2>4 DEF MetaIsOf, StoreOK, IsColl
    <3> QED BY <2>5, <3>1 DEF Meta, IsMap
  <2>7. OneSet(Meta', Meta, x, v)
    <3>1. v # Empty /\ DOMAIN input = {x} /\ input[x] = v
      BY <2>1, <2>2 DEF SetsMeta
    <3>2. \A map : OneSet(MapUpdate(map, input, refused), map, x, v)
      BY <3>1, UpdateByOne
    <3> QED BY <2>6, <3>2
  <2>8. MetaIsOf(t)'
    BY <1>8, <2>1, <2>4, <2>6, <2>7, KeysAssumption DEF MetaIsOf, OneSet
  <2> QED BY <1>3, <1>4, <2>4, <2>8 DEF OneCreator, Abandoned
<1> QED BY <1>5, <1>6, <1>7, <1>8 DEF CInv, Submitted

LEMMA CInvNext ==
  CInv /\ [CreateNext]_<<vars, create_vars>> => CInv' /\ (Abandoned => Abandoned')
<1> SUFFICES ASSUME CInv, [CreateNext]_<<vars, create_vars>>
             PROVE  CInv' /\ (Abandoned => Abandoned')
  OBVIOUS
<1>1. SInv'
  <2>1. [StoreStep]_vars
    <3>1. CASE CreateNext
      BY <3>1, CreateIsStoreStep DEF CInv, Submitted
    <3>2. CASE UNCHANGED <<vars, create_vars>>
      BY <3>2
    <3> QED BY <3>1, <3>2
  <2> QED BY <2>1, SInvNext DEF CInv
<1>2. CASE UNCHANGED <<vars, create_vars>>
  <2>1. UNCHANGED <<colls, pc, ret, next_op, tran, answer, step, created>>
    BY <1>2 DEF vars, create_vars
  <2>2. Submitted'
    BY <2>1 DEF CInv, Submitted, CreateTrans
  <2>3. \A u \in Threads : NoFurther(u)
    BY <2>1 DEF Past, Behind, FirstDone, NoFurther
  <2> QED BY <1>1, <2>1, <2>2, <2>3, NoNewPast DEF CInv
<1>3. ASSUME NEW t \in Threads, BeginCreate(t) \/ NextCall(t)
      PROVE  CInv' /\ (Abandoned => Abandoned')
  <2>1. CASE BeginCreate(t)
    <3>1. pc[t] = "idle"
      BY <2>1 DEF BeginCreate, Call, Submit, BuildFails
    <3>2. Call(t, 1) /\ created' = [created EXCEPT ![t] = "none"]
      BY <2>1 DEF BeginCreate
    <3>3. Submitted' /\ OneCreator' /\ (Abandoned => Abandoned')
      <4> HIDE DEF Call
      <4>1. 1 \in 1 .. 3 /\ ~(1 > 1)
        OBVIOUS
      <4> DEFINE i == 1
      <4>2. i \in 1 .. 3 /\ i = 1 /\ ~(i > 1) /\ Call(t, i)
        BY <3>2, <4>1
      <4> HIDE DEF i
      <4> QED BY <3>1, <3>2, <4>2, CallKeeps
    <3> QED BY <1>1, <3>3 DEF CInv
  <2>2. CASE NextCall(t)
    <3>1. step[t] \in 1 .. 2 /\ Call(t, step[t] + 1) /\ UNCHANGED created /\ pc[t] = "idle"
          /\ answer[t].ret = "OK"
      BY <2>2 DEF NextCall, CallReturned, CInv, Submitted
    <3>2. Behind(t)
      BY <3>1 DEF Behind, FirstDone
    <3>3. step[t] + 1 \in 1 .. 3 /\ step[t] + 1 # 0
      BY <3>1
    <3> QED BY <1>1, <3>1, <3>2, <3>3, CallKeeps DEF CInv
  <2> QED BY <1>3, <2>1, <2>2
<1>4. ASSUME NEW t \in Threads, CreateReturns(t) \/ UseStore(t) \/ StoreGoesOn(t)
      PROVE  CInv' /\ (Abandoned => Abandoned')
  BY <1>1, <1>4, ReturnKeeps, UseKeeps, LockKeeps, UnlockKeeps, DoOpKeeps DEF StoreGoesOn, CInv
<1> QED BY <1>2, <1>3, <1>4 DEF CreateNext

LEMMA CInvariance == CreateSpec => []CInv
<1>1. CInv /\ [CreateNext]_<<vars, create_vars>> => CInv'
  BY CInvNext
<1> QED BY <1>1, CInvInit, PTL DEF CreateSpec

\* The attributes of the meta collection are those of one OSD.
THEOREM OneOsd == CreateSpec => []OneOsdInTheStore
<1>1. CInv => OneOsdInTheStore
  <2> SUFFICES ASSUME CInv PROVE OneOsdInTheStore
    OBVIOUS
  <2>1. \A t \in PastTheFirstCall : t \in Threads /\ Past(t)
    BY DEF PastTheFirstCall, Past, Behind
  <2>2. \A t \in PastTheFirstCall : MetaIsOf(t)
    BY <2>1 DEF CInv, OneCreator
  <2>3. Cardinality(PastTheFirstCall) <= 1
    <3>1. CASE PastTheFirstCall = {}
      BY <3>1, FS_EmptySet
    <3>2. ASSUME NEW t \in PastTheFirstCall PROVE Cardinality(PastTheFirstCall) <= 1
      <4>1. PastTheFirstCall = {t}
        BY <2>1, <3>2 DEF CInv, OneCreator
      <4> QED BY <4>1, FS_Singleton
    <3> QED BY <3>1, <3>2
  <2> QED BY <2>2, <2>3 DEF OneOsdInTheStore, MetaIsOf
<1> QED BY <1>1, CInvariance, PTL

\* A store that was left half made will never hold a whole OSD, whoever creates
\* one in it and whatever else is done to it.
THEOREM HalfMadeForever == CreateSpec => HalfMadeStays
<1>1. CInv /\ HalfMade => Abandoned
  BY DEF HalfMade, Abandoned, Behind, FirstDone
<1>2. CInv /\ Abandoned /\ [CreateNext]_<<vars, create_vars>> => Abandoned'
  BY CInvNext
<1>3. Abandoned => MetaColl \in DOMAIN colls /\ ~Whole
  BY DEF Abandoned
<1> QED BY <1>1, <1>2, <1>3, CInvariance, PTL DEF CreateSpec, HalfMadeStays
=============================================================================
