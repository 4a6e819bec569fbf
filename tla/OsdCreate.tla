----------------------------- MODULE OsdCreate -----------------------------
(***************************************************************************)
(* cceph_osd_create (osd/osd_create.c) on the object store in memory: the  *)
(* meta collection, then its two attributes, each by a transaction of its  *)
(* own, while other threads use the store or create an OSD themselves.     *)
(***************************************************************************)
EXTENDS MemStore

CONSTANTS MetaColl,      \* CCEPH_OSD_META_COLL_ID
          OsdIdKey,      \* CCEPH_OSD_META_ATTR_OSD_ID
          MaxEpochKey,   \* CCEPH_OSD_META_ATTR_OSDMAP_MAX_EPOCH
          FirstEpoch,    \* the value of max_epoch, 0 in the code
          OsdId,         \* OsdId[t]: osd->osd_id of the OSD t creates
          Users          \* the threads that use the store otherwise, too

ASSUME ValuesAssumption == FirstEpoch > Empty /\ \A t \in Threads : OsdId[t] > Empty
ASSUME KeysAssumption   == OsdIdKey # MaxEpochKey

\* The meta collection is changed by creating only.
ASSUME UsersAssumption ==
  \A new \in Transactions : \A i \in 1 .. Len(new) : new[i].cid # MetaColl

VARIABLES step,     \* step[t]: the call t is at in cceph_osd_create, 0 outside of it
          created   \* created[t]: what it last returned, or "none"

create_vars == <<step, created>>

\* The transactions that cceph_os_create_coll and cceph_os_set_coll_map_key build.
CreateTrans(t) == << <<CollCreate(MetaColl)>>,
                     <<CollMap(MetaColl, [k \in {OsdIdKey} |-> OsdId[t]])>>,
                     <<CollMap(MetaColl, [k \in {MaxEpochKey} |-> FirstEpoch])>> >>

CreateInit == Init /\ step = [t \in Threads |-> 0] /\ created = [t \in Threads |-> "none"]

Call(t, i) ==
  /\ step' = [step EXCEPT ![t] = i]
  /\ Submit(t, CreateTrans(t)[i]) \/ BuildFails(t)

BeginCreate(t) ==
  /\ step[t] = 0
  /\ Call(t, 1)
  /\ created' = [created EXCEPT ![t] = "none"]

\* The call that t is at has returned.
CallReturned(t) == step[t] # 0 /\ pc[t] = "idle"

\* mutation: creating goes on whatever the call returned.
NextCallAnyway(t) ==
  /\ CallReturned(t)
  /\ step[t] < 3
  /\ Call(t, step[t] + 1)
  /\ UNCHANGED created

NextCall(t) ==
  /\ CallReturned(t)
  /\ answer[t].ret = "OK" /\ step[t] < 3
  /\ Call(t, step[t] + 1)
  /\ UNCHANGED created

CreateReturns(t) ==
  /\ CallReturned(t)
  /\ answer[t].ret # "OK" \/ step[t] = 3
  /\ step' = [step EXCEPT ![t] = 0]
  /\ created' = [created EXCEPT ![t] = answer[t].ret]
  /\ UNCHANGED vars

\* What users do outside of cceph_osd_create.
UseStore(t) ==
  /\ t \in Users
  /\ step[t] = 0
  /\ \/ \E new \in Transactions : Submit(t, new)
     \/ BuildFails(t)
     \/ \E q \in Queries : Read(t, q)
  /\ UNCHANGED create_vars

StoreGoesOn(t) == (Lock(t) \/ DoOp(t) \/ Unlock(t)) /\ UNCHANGED create_vars

CreateNext ==
  /\ ~aborted
  /\ \E t \in Threads : \/ BeginCreate(t) \/ NextCall(t) \/ CreateReturns(t)
                        \/ UseStore(t) \/ StoreGoesOn(t)

CreateSpec == CreateInit /\ [][CreateNext]_<<vars, create_vars>>

\* As FairSpec of MemStore: a thread that holds the lock goes on.
FairCreateSpec ==
  /\ CreateSpec
  /\ \A t \in Threads : WF_<<vars, create_vars>>((DoOp(t) \/ Unlock(t)) /\ UNCHANGED create_vars)

----------------------------------------------------------------------------
Meta == colls[MetaColl].map

\* Only one of several threads gets past the first call, though nothing but the
\* result of that call keeps them apart, and no later one.
PastTheFirstCall == {t \in Threads : step[t] > 1 \/ created[t] = "OK"}

\* However creating interleaves with itself, its failures and its retries, the
\* attributes of the meta collection are those of one OSD, the one whose create
\* returned CCEPH_OK if one did.
OneOsdInTheStore ==
  /\ Cardinality(PastTheFirstCall) <= 1
  /\ \A t \in PastTheFirstCall :
       /\ MetaColl \in DOMAIN colls
       /\ OsdIdKey \in DOMAIN Meta => Meta[OsdIdKey] = OsdId[t]
       /\ MaxEpochKey \in DOMAIN Meta => Meta[MaxEpochKey] = FirstEpoch

\* Both attributes of an OSD are there.
Whole == {OsdIdKey, MaxEpochKey} \subseteq DOMAIN Meta

\* Nobody is creating, and the collection lacks an attribute: a create failed
\* behind its first call, or an update that returned CCEPH_OK left it out.
HalfMade == /\ MetaColl \in DOMAIN colls /\ ~Whole
            /\ \A t \in Threads : step[t] = 0

\* No later create repairs or replaces what is half made: the store will never
\* hold a whole OSD.  All that holds a create back is that the collection cannot
\* be created again, which mem_store.c:190 and test_os.cc:20 say; transaction.h:43
\* says that creating it again would do nothing.
HalfMadeStays == [](HalfMade => [](MetaColl \in DOMAIN colls /\ ~Whole))
=============================================================================
