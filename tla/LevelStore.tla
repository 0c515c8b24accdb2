----------------------------- MODULE LevelStore -----------------------------
(***************************************************************************)
(* The LevelDB-backed object store of attaca-leveldb/src/lib.rs: the       *)
(* `handles` and `objects` concurrent maps, the per-handle weak slot       *)
(* (`HandleInner::content`, a Mutex<Weak<Object>>), and the database.      *)
(*                                                                         *)
(* Each thread runs one store operation at a time: `resolve`, `load`,      *)
(* `finish` (which calls `handle_from_object`) or a step of a refs         *)
(* iterator.  Every step that touches shared state is its own action, so   *)
(* TLC explores every interleaving of the threads' steps.  A CHashMap      *)
(* call (get, insert, upsert with its closure) is one atomic step: it runs *)
(* under the map's bucket lock.                                            *)
(*                                                                         *)
(* Data abstraction.  An object is identified by its digest (canonicity:   *)
(* equal content, equal digest), so a digest stands for the object.  What  *)
(* the model does track is the identity of each in-memory copy (each      *)
(* `Arc<Object>`): copies of digest d are numbered 1..MaxCopies, 0 is "no  *)
(* copy" (a missing map entry, a `Weak::new()`, an empty local).  A copy   *)
(* is alive while a strong reference to it exists: the `objects` map, a    *)
(* thread's local `Arc`, or content a caller got from `load`.  A weak slot *)
(* upgrades iff its copy is alive.  A dead copy's number is never reused   *)
(* while a weak slot still names it.                                       *)
(***************************************************************************)
EXTENDS Naturals, FiniteSets

CONSTANTS
    Threads,     \* threads calling into one LevelStore
    Digests,     \* SHA-3 digests of the objects the threads build or resolve
    Refs,        \* Refs[d]: the digests object d references (its `refs`)
    MaxCopies,   \* copy numbers available per digest
    MaxCrashes,  \* bound on process crashes (restarts over the same database)
    NoThread     \* model value: nobody holds a slot mutex

ASSUME Refs \in [Digests -> SUBSET Digests]
ASSUME MaxCopies \in Nat \ {0}
ASSUME NoThread \notin Threads

VARIABLES
    db,          \* keys present in the LevelDB database (persistent)
    handles,     \* domain of `StoreInner::handles`
    objects,     \* objects[d]: the copy held by `StoreInner::objects`, or 0
    slot,        \* slot[d]: the copy named by d's handle's weak `content`
    owner,       \* owner[d]: the thread holding d's `content` mutex
    appHandles,  \* digests whose handle the store has handed to callers
    pc,          \* pc[t]: the step thread t is about to take
    op,          \* op[t]: the operation thread t is running
    dig,         \* dig[t]: the digest of thread t's operation
    outer,       \* outer[t]: the `Arc` returned by `LevelStore::object`
    inner,       \* inner[t]: the `Arc` taken from the weak slot
    held,        \* held[t]: the copy inside the content/refs `load` returned
    heldDig,     \* heldDig[t]: the digest of held[t]
    badHandle,   \* history: digests whose `load` failed "no such object"
    panicked,    \* history: a `Weak::upgrade(..).unwrap()` panicked
    crashes,     \* number of crashes so far
    appStore,    \* the application still holds a `LevelStore` clone
    gonePanicked \* history: `load` found its store gone and panicked

vars == <<db, handles, objects, slot, owner, appHandles, pc, op, dig, outer,
          inner, held, heldDig, badHandle, panicked, crashes, appStore, gonePanicked>>

\* the store's lifetime
lifeVars == <<appStore, gonePanicked>>

Copy == 0..MaxCopies
NoCopy == 0

Pcs == {"idle", "dead",
        "res_get_handle", "res_handle", "res_lock", "res_upsert",
        "res_upgrade", "res_insert",
        "load_lock", "load_finish",
        "obj_get", "obj_db_get", "obj_insert",
        "ins_handle", "ins_lock", "ins_upsert", "ins_upgrade", "ins_put",
        "ins_insert"}

Ops == {"none", "resolve", "load", "finish"}

(***************************************************************************)
(* Strong references and liveness of copies.                               *)
(***************************************************************************)
Strong(d) ==
    ({objects[d]}
     \cup {outer[t] : t \in {u \in Threads : dig[u] = d}}
     \cup {inner[t] : t \in {u \in Threads : dig[u] = d}}
     \cup {held[t] : t \in {u \in Threads : heldDig[u] = d}}) \ {NoCopy}

\* `Weak::upgrade(&content)` succeeds
SlotLive(d) == slot[d] \in Strong(d)

\* `Arc::new`: a copy number no strong or weak reference names
CanAlloc(d) == \E c \in 1..MaxCopies : c \notin Strong(d) \cup {slot[d]}
Fresh(d) == CHOOSE c \in 1..MaxCopies : c \notin Strong(d) \cup {slot[d]}

\* the value of dig and heldDig when they name nothing
AnyDigest == CHOOSE d \in Digests : TRUE

Closed(S) == \A d \in S : Refs[d] \subseteq S

Idle(t) == pc[t] \in {"idle", "dead"}

\* `Arc<StoreInner>` has a strong owner: a `LevelStore` clone the
\* application holds, a call in progress (`&self`, the builder's `store`,
\* the `store` local of `load`) or a `LevelHandleRefs` from `load`.
\* Handles hold only `Weak<StoreInner>`.
StoreAlive ==
    \/ appStore
    \/ \E t \in Threads : held[t] # NoCopy \/ ~Idle(t)

SlotFree(d) == owner[d] = NoThread

TypeOK ==
    /\ db \subseteq Digests
    /\ handles \subseteq Digests
    /\ objects \in [Digests -> Copy]
    /\ slot \in [Digests -> Copy]
    /\ owner \in [Digests -> Threads \cup {NoThread}]
    /\ appHandles \subseteq handles
    /\ pc \in [Threads -> Pcs]
    /\ op \in [Threads -> Ops]
    /\ dig \in [Threads -> Digests]
    /\ outer \in [Threads -> Copy]
    /\ inner \in [Threads -> Copy]
    /\ held \in [Threads -> Copy]
    /\ heldDig \in [Threads -> Digests]
    /\ badHandle \subseteq Digests
    /\ panicked \in BOOLEAN
    /\ crashes \in 0..MaxCrashes
    /\ appStore \in BOOLEAN
    /\ gonePanicked \in BOOLEAN

(***************************************************************************)
(* The store is opened over a database an earlier run left: any set of     *)
(* objects closed under references.  The maps start empty.                 *)
(***************************************************************************)
Init ==
    /\ db \in {S \in SUBSET Digests : Closed(S)}
    /\ handles = {}
    /\ objects = [d \in Digests |-> NoCopy]
    /\ slot = [d \in Digests |-> NoCopy]
    /\ owner = [d \in Digests |-> NoThread]
    /\ appHandles = {}
    /\ pc = [t \in Threads |-> "idle"]
    /\ op = [t \in Threads |-> "none"]
    /\ dig = [t \in Threads |-> AnyDigest]
    /\ outer = [t \in Threads |-> NoCopy]
    /\ inner = [t \in Threads |-> NoCopy]
    /\ held = [t \in Threads |-> NoCopy]
    /\ heldDig = [t \in Threads |-> AnyDigest]
    /\ badHandle = {}
    /\ panicked = FALSE
    /\ crashes = 0
    /\ appStore = TRUE
    /\ gonePanicked = FALSE

-----------------------------------------------------------------------------
(***************************************************************************)
(* Helpers for the per-thread steps.                                       *)
(***************************************************************************)
Goto(t, p) == pc' = [pc EXCEPT ![t] = p]

\* the `Arc`s local to an operation are dropped when it returns
Return(t) ==
    /\ pc' = [pc EXCEPT ![t] = "idle"]
    /\ op' = [op EXCEPT ![t] = "none"]
    /\ dig' = [dig EXCEPT ![t] = AnyDigest]
    /\ outer' = [outer EXCEPT ![t] = NoCopy]
    /\ inner' = [inner EXCEPT ![t] = NoCopy]

\* where `LevelStore::object` returns to with Ok(Some(arc))
AfterObject(t) == IF op[t] = "resolve" THEN "res_handle" ELSE "load_finish"

(***************************************************************************)
(* `Store::resolve` (lib.rs 74-120).  The SHA-3 check of lines 78-84 is    *)
(* abstracted away: every digest of the model is a SHA-3 digest.  The      *)
(* first step is the `handles.get` of line 86.                             *)
(***************************************************************************)
resolve(t, d) ==
    /\ pc[t] = "idle"
    /\ appStore
    /\ IF d \in handles
         THEN /\ appHandles' = appHandles \cup {d}
              /\ UNCHANGED <<pc, op, dig>>
         ELSE /\ pc' = [pc EXCEPT ![t] = "obj_get"]
              /\ op' = [op EXCEPT ![t] = "resolve"]
              /\ dig' = [dig EXCEPT ![t] = d]
              /\ UNCHANGED appHandles
    /\ UNCHANGED <<db, handles, objects, slot, owner, outer, inner, held,
                   heldDig, badHandle, panicked, crashes, lifeVars>>

\* line 90: `handle_from_digest` (141-162), one `handles.upsert`
ResHandle(t) ==
    /\ pc[t] = "res_handle"
    /\ handles' = handles \cup {dig[t]}
    /\ Goto(t, "res_lock")
    /\ UNCHANGED <<db, objects, slot, owner, appHandles, op, dig, outer, inner,
                   held, heldDig, badHandle, panicked, crashes, lifeVars>>

\* lines 92-96: lock the weak slot and try to upgrade it; on success the
\* guard is dropped at the end of the block
ResLock(t) ==
    LET d == dig[t] IN
    /\ pc[t] = "res_lock"
    /\ SlotFree(d)
    /\ IF SlotLive(d)
         THEN /\ inner' = [inner EXCEPT ![t] = slot[d]]
              /\ Goto(t, "res_insert")
              /\ UNCHANGED owner
         ELSE /\ owner' = [owner EXCEPT ![d] = t]
              /\ Goto(t, "res_upsert")
              /\ UNCHANGED inner
    /\ UNCHANGED <<db, handles, objects, slot, appHandles, op, dig, outer,
                   held, heldDig, badHandle, panicked, crashes, lifeVars>>

\* lines 97-107: `objects.upsert`; both closures capture `arc_obj` by move,
\* so the thread's own reference is gone after the call
ResUpsert(t) ==
    LET d == dig[t] IN
    /\ pc[t] = "res_upsert"
    /\ IF objects[d] = NoCopy
         THEN /\ objects' = [objects EXCEPT ![d] = outer[t]]
              /\ slot' = [slot EXCEPT ![d] = outer[t]]
         ELSE /\ slot' = [slot EXCEPT ![d] = objects[d]]
              /\ UNCHANGED objects
    /\ outer' = [outer EXCEPT ![t] = NoCopy]
    /\ Goto(t, "res_upgrade")
    /\ UNCHANGED <<db, handles, owner, appHandles, op, dig, inner, held,
                   heldDig, badHandle, panicked, crashes, lifeVars>>

\* A thread whose `unwrap()` panics dies; unwinding drops its guard.
Panic(t) ==
    /\ pc' = [pc EXCEPT ![t] = "dead"]
    /\ op' = [op EXCEPT ![t] = "none"]
    /\ dig' = [dig EXCEPT ![t] = AnyDigest]
    /\ outer' = [outer EXCEPT ![t] = NoCopy]
    /\ inner' = [inner EXCEPT ![t] = NoCopy]
    /\ panicked' = TRUE

\* line 109: `Weak::upgrade(&cl_cell.into_inner()).unwrap()`, then the
\* guard is dropped
ResUpgrade(t) ==
    LET d == dig[t] IN
    /\ pc[t] = "res_upgrade"
    /\ owner' = [owner EXCEPT ![d] = NoThread]
    /\ IF SlotLive(d)
         THEN /\ inner' = [inner EXCEPT ![t] = slot[d]]
              /\ Goto(t, "res_insert")
              /\ UNCHANGED <<op, dig, outer, panicked>>
         ELSE Panic(t)
    /\ UNCHANGED <<db, handles, objects, slot, appHandles, held, heldDig,
                   badHandle, crashes, lifeVars>>

\* Mutant: `resolve` returns without re-inserting the slot's copy (line 113
\* dropped), leaving whatever `objects.insert` of line 214 put there.
ResInsertNoReinsert(t) ==
    LET d == dig[t] IN
    /\ pc[t] = "res_insert"
    /\ appHandles' = appHandles \cup {d}
    /\ Return(t)
    /\ UNCHANGED <<db, handles, objects, slot, owner, held, heldDig,
                   badHandle, panicked, crashes, lifeVars>>

\* lines 113-114: `objects.insert(digest, arc_obj)` and return Some(handle)
ResInsert(t) ==
    LET d == dig[t] IN
    /\ pc[t] = "res_insert"
    /\ objects' = [objects EXCEPT ![d] = inner[t]]
    /\ appHandles' = appHandles \cup {d}
    /\ Return(t)
    /\ UNCHANGED <<db, handles, slot, owner, held, heldDig,
                   badHandle, panicked, crashes, lifeVars>>

(***************************************************************************)
(* `LevelStore::object` (lib.rs 208-220), called by `resolve` without any  *)
(* lock and by `load` with the handle's slot mutex held.                   *)
(***************************************************************************)
\* lines 209-210: `objects.get`, a hit clones the map's `Arc`
ObjGet(t) ==
    LET d == dig[t] IN
    /\ pc[t] = "obj_get"
    /\ IF objects[d] # NoCopy
         THEN /\ outer' = [outer EXCEPT ![t] = objects[d]]
              /\ Goto(t, AfterObject(t))
         ELSE /\ Goto(t, "obj_db_get")
              /\ UNCHANGED outer
    /\ UNCHANGED <<db, handles, objects, slot, owner, appHandles, op, dig,
                   inner, held, heldDig, badHandle, panicked,
                   crashes, lifeVars>>

\* Mutant: `load`'s early return on a missing object leaks the slot guard.
ObjFailLeakGuard(t, missing) ==
    /\ UNCHANGED owner
    /\ badHandle' = IF op[t] = "load" /\ missing
                      THEN badHandle \cup {dig[t]} ELSE badHandle
    /\ Return(t)

\* A failed lookup ends the caller: `resolve` returns Ok(None) or Err;
\* `load` returns "Bad handle: no such object!" or Err (lines 340-341) and
\* its guard is dropped.
ObjFail(t, missing) ==
    /\ owner' = IF op[t] = "load" THEN [owner EXCEPT ![dig[t]] = NoThread]
                                  ELSE owner
    /\ badHandle' = IF op[t] = "load" /\ missing
                      THEN badHandle \cup {dig[t]} ELSE badHandle
    /\ Return(t)

\* lines 211-218: `db.get`; on a hit the bytes are decoded into a new
\* `Arc<Object>`.  The database holds canonical encodings only, so decoding
\* does not fail; the read itself may fail with an I/O error.
ObjDbGet(t) ==
    LET d == dig[t] IN
    /\ pc[t] = "obj_db_get"
    /\ \/ /\ d \in db
          /\ CanAlloc(d)
          /\ outer' = [outer EXCEPT ![t] = Fresh(d)]
          /\ Goto(t, "obj_insert")
          /\ UNCHANGED <<op, dig, inner, owner, badHandle>>
       \/ /\ d \notin db
          /\ ObjFail(t, TRUE)
       \/ ObjFail(t, FALSE)
    /\ UNCHANGED <<db, handles, objects, slot, appHandles, held, heldDig,
                   panicked, crashes, lifeVars>>

\* lines 214-215: `objects.insert(*digest, arc_obj.clone())` overwrites
\* whatever another thread put there since line 209
ObjInsert(t) ==
    LET d == dig[t] IN
    /\ pc[t] = "obj_insert"
    /\ objects' = [objects EXCEPT ![d] = outer[t]]
    /\ Goto(t, AfterObject(t))
    /\ UNCHANGED <<db, handles, slot, owner, appHandles, op, dig, outer, inner,
                   held, heldDig, badHandle, panicked, crashes, lifeVars>>

(***************************************************************************)
(* `Handle::load` (lib.rs 329-349).  Line 330 upgrades the handle's weak   *)
(* back-reference to the store and unwraps it: with the store gone the     *)
(* thread panics.  The first shared step is taking the slot mutex (line    *)
(* 332); the guard lives to the end of the function.  The                  *)
(* returned content and refs iterator hold the `Arc` (held[t]); a previous *)
(* result the thread held is dropped.                                      *)
(***************************************************************************)
load(t, d) ==
    /\ pc[t] = "idle"
    /\ d \in appHandles
    /\ IF ~StoreAlive
         THEN /\ pc' = [pc EXCEPT ![t] = "dead"]
              /\ gonePanicked' = TRUE
              /\ UNCHANGED <<owner, op, dig, held, heldDig>>
         ELSE /\ SlotFree(d)
              /\ UNCHANGED gonePanicked
              /\ IF SlotLive(d)
                   THEN /\ held' = [held EXCEPT ![t] = slot[d]]
                        /\ heldDig' = [heldDig EXCEPT ![t] = d]
                        /\ UNCHANGED <<owner, pc, op, dig>>
                   ELSE /\ owner' = [owner EXCEPT ![d] = t]
                        /\ pc' = [pc EXCEPT ![t] = "obj_get"]
                        /\ op' = [op EXCEPT ![t] = "load"]
                        /\ dig' = [dig EXCEPT ![t] = d]
                        /\ UNCHANGED <<held, heldDig>>
    /\ UNCHANGED <<db, handles, objects, slot, appHandles, outer, inner,
                   badHandle, panicked, crashes, appStore>>

\* lines 336-348: `*lock = Arc::downgrade(&arc_obj)`, build the content and
\* refs around the `Arc`, drop the guard
LoadFinish(t) ==
    LET d == dig[t] IN
    /\ pc[t] = "load_finish"
    /\ slot' = [slot EXCEPT ![d] = outer[t]]
    /\ held' = [held EXCEPT ![t] = outer[t]]
    /\ heldDig' = [heldDig EXCEPT ![t] = d]
    /\ owner' = [owner EXCEPT ![d] = NoThread]
    /\ Return(t)
    /\ UNCHANGED <<db, handles, objects, appHandles,
                   badHandle, panicked, crashes, lifeVars>>

(***************************************************************************)
(* `HandleBuilder::finish` (lib.rs 397-404) and `handle_from_object`       *)
(* (164-206).  The builder's blob and references are local to the caller  *)
(* (`write`, `add_reference`, 381-394); it can only reference handles the  *)
(* store handed out.  Digesting the encoding (165-169) is local.  The      *)
(* first shared step is `handle_from_digest` (line 171).                   *)
(***************************************************************************)
finish(t, d) ==
    /\ pc[t] = "idle"
    /\ appStore
    /\ Refs[d] \subseteq appHandles
    /\ handles' = handles \cup {d}
    /\ pc' = [pc EXCEPT ![t] = "ins_lock"]
    /\ op' = [op EXCEPT ![t] = "finish"]
    /\ dig' = [dig EXCEPT ![t] = d]
    /\ UNCHANGED <<db, objects, slot, owner, appHandles, outer, inner, held,
                   heldDig, badHandle, panicked, crashes, lifeVars>>

\* lines 172-176: lock the slot and try to upgrade it
InsLock(t) ==
    LET d == dig[t] IN
    /\ pc[t] = "ins_lock"
    /\ SlotFree(d)
    /\ IF SlotLive(d)
         THEN /\ inner' = [inner EXCEPT ![t] = slot[d]]
              /\ Goto(t, "ins_put")
              /\ UNCHANGED owner
         ELSE /\ owner' = [owner EXCEPT ![d] = t]
              /\ Goto(t, "ins_upsert")
              /\ UNCHANGED inner
    /\ UNCHANGED <<db, handles, objects, slot, appHandles, op, dig, outer,
                   held, heldDig, badHandle, panicked, crashes, lifeVars>>

\* lines 178-189: `objects.upsert`; the insert closure makes the only
\* strong reference to the new `Arc` the map's
InsUpsert(t) ==
    LET d == dig[t] IN
    /\ pc[t] = "ins_upsert"
    /\ IF objects[d] = NoCopy
         THEN /\ CanAlloc(d)
              /\ objects' = [objects EXCEPT ![d] = Fresh(d)]
              /\ slot' = [slot EXCEPT ![d] = Fresh(d)]
         ELSE /\ slot' = [slot EXCEPT ![d] = objects[d]]
              /\ UNCHANGED objects
    /\ Goto(t, "ins_upgrade")
    /\ UNCHANGED <<db, handles, owner, appHandles, op, dig, outer, inner, held,
                   heldDig, badHandle, panicked, crashes, lifeVars>>

\* line 191: `Weak::upgrade(&cl_cell.into_inner()).unwrap()`, guard dropped
InsUpgrade(t) ==
    LET d == dig[t] IN
    /\ pc[t] = "ins_upgrade"
    /\ owner' = [owner EXCEPT ![d] = NoThread]
    /\ IF SlotLive(d)
         THEN /\ inner' = [inner EXCEPT ![t] = slot[d]]
              /\ Goto(t, "ins_put")
              /\ UNCHANGED <<op, dig, outer, panicked>>
         ELSE Panic(t)
    /\ UNCHANGED <<db, handles, objects, slot, appHandles, held, heldDig,
                   badHandle, crashes, lifeVars>>

\* Mutant: a failed put cleans up the copy it upserted (but not the handle
\* registered at line 171) before returning the error.
InsPutRollback(t) ==
    /\ pc[t] = "ins_put"
    /\ \/ /\ db' = db \cup {dig[t]}
          /\ Goto(t, "ins_insert")
          /\ UNCHANGED <<op, dig, outer, inner, objects>>
       \/ /\ objects' = [objects EXCEPT ![dig[t]] = NoCopy]
          /\ Return(t)
          /\ UNCHANGED db
    /\ UNCHANGED <<handles, slot, owner, appHandles, held,
                   heldDig, badHandle, panicked, crashes, lifeVars>>

\* lines 196-202: encode and `db.put`; the `?` returns an I/O error with
\* the handle and the copy already in the maps
InsPut(t) ==
    /\ pc[t] = "ins_put"
    /\ \/ /\ db' = db \cup {dig[t]}
          /\ Goto(t, "ins_insert")
          /\ UNCHANGED <<op, dig, outer, inner>>
       \/ /\ Return(t)
          /\ UNCHANGED db
    /\ UNCHANGED <<handles, objects, slot, owner, appHandles, held,
                   heldDig, badHandle, panicked, crashes, lifeVars>>

\* lines 203-205: `objects.insert(digest, arc_obj)` and return Ok(handle)
InsInsert(t) ==
    LET d == dig[t] IN
    /\ pc[t] = "ins_insert"
    /\ objects' = [objects EXCEPT ![d] = inner[t]]
    /\ appHandles' = appHandles \cup {d}
    /\ Return(t)
    /\ UNCHANGED <<db, handles, slot, owner, held, heldDig, badHandle,
                   panicked, crashes, lifeVars>>

\* Mutant: the refs iterator builds a `LevelHandle` for the child directly
\* instead of through `handle_from_digest`, bypassing the `handles` map.
nextUnregistered(t, r) ==
    /\ pc[t] = "idle"
    /\ held[t] # NoCopy
    /\ r \in Refs[heldDig[t]]
    /\ appHandles' = appHandles \cup {r}
    /\ UNCHANGED <<db, handles, objects, slot, owner, pc, op, dig, outer,
                   inner, held, heldDig, badHandle, panicked,
                   crashes, lifeVars>>

(***************************************************************************)
(* `LevelHandleRefs::next` (lib.rs 282-287): each child digest of a loaded *)
(* object becomes a handle through `handle_from_digest`.  The iterator     *)
(* yields the refs in order; which one the caller has reached is left     *)
(* free.                                                                   *)
(***************************************************************************)
next(t, r) ==
    /\ pc[t] = "idle"
    /\ held[t] # NoCopy
    /\ r \in Refs[heldDig[t]]
    /\ handles' = handles \cup {r}
    /\ appHandles' = appHandles \cup {r}
    /\ UNCHANGED <<db, objects, slot, owner, pc, op, dig, outer, inner, held,
                   heldDig, badHandle, panicked, crashes, lifeVars>>

\* The caller drops the `LevelHandleContent` and `LevelHandleRefs` it got
\* from `load` (247-277), releasing their `ArcRef`s.
DropContent(t) ==
    /\ held[t] # NoCopy
    /\ held' = [held EXCEPT ![t] = NoCopy]
    /\ heldDig' = [heldDig EXCEPT ![t] = AnyDigest]
    /\ UNCHANGED <<db, handles, objects, slot, owner, appHandles, pc, op, dig,
                   outer, inner, badHandle, panicked,
                   crashes, lifeVars>>

\* The application drops its last `LevelStore` clone while it keeps
\* handles.  `StoreInner` (the maps and the database) lives on while a
\* call or a `LevelHandleRefs` still owns it.
DropStore ==
    /\ appStore
    /\ appStore' = FALSE
    /\ UNCHANGED <<db, handles, objects, slot, owner, appHandles, pc, op, dig,
                   outer, inner, held, heldDig, badHandle,
                   panicked, crashes, gonePanicked>>

(***************************************************************************)
(* The process stops at any point and a new `LevelStore` is opened over    *)
(* the same database: everything in memory is gone.  A LevelDB put is      *)
(* atomic.                                                                 *)
(***************************************************************************)
Crash ==
    /\ crashes < MaxCrashes
    /\ crashes' = crashes + 1
    /\ handles' = {}
    /\ objects' = [d \in Digests |-> NoCopy]
    /\ slot' = [d \in Digests |-> NoCopy]
    /\ owner' = [d \in Digests |-> NoThread]
    /\ appHandles' = {}
    /\ pc' = [t \in Threads |-> "idle"]
    /\ op' = [t \in Threads |-> "none"]
    /\ outer' = [t \in Threads |-> NoCopy]
    /\ inner' = [t \in Threads |-> NoCopy]
    /\ held' = [t \in Threads |-> NoCopy]
    /\ dig' = [t \in Threads |-> AnyDigest]
    /\ heldDig' = [t \in Threads |-> AnyDigest]
    /\ appStore' = TRUE
    /\ UNCHANGED <<db, badHandle, panicked, gonePanicked>>

-----------------------------------------------------------------------------
\* Steps of an operation in progress.
Step(t) ==
    \/ ResHandle(t) \/ ResLock(t) \/ ResUpsert(t) \/ ResUpgrade(t)
    \/ ResInsert(t)
    \/ ObjGet(t) \/ ObjDbGet(t) \/ ObjInsert(t) \/ LoadFinish(t)
    \/ InsLock(t) \/ InsUpsert(t) \/ InsUpgrade(t) \/ InsPut(t)
    \/ InsInsert(t)

\* Calls a thread may begin.
Call(t) ==
    \/ \E d \in Digests : resolve(t, d) \/ load(t, d) \/ finish(t, d)
    \/ \E r \in Digests : next(t, r)
    \/ DropContent(t)

Next ==
    \/ \E t \in Threads : Step(t) \/ Call(t)
    \/ DropStore
    \/ Crash

Spec == Init /\ [][Next]_vars

(***************************************************************************)
(* Threads are OS threads, so a thread in the middle of an operation keeps *)
(* running.  The slot mutex is a parking_lot Mutex, whose eventual         *)
(* fairness hands it to a waiter even when another thread keeps taking it: *)
(* strong fairness on the two lock steps.                                  *)
(***************************************************************************)
Fairness ==
    \A t \in Threads :
        /\ WF_vars(Step(t))
        /\ SF_vars(ResLock(t))
        /\ SF_vars(InsLock(t))

FairSpec == Spec /\ Fairness

-----------------------------------------------------------------------------
(***************************************************************************)
(* Properties.                                                             *)
(***************************************************************************)

\* Single resident copy (spec 4.B, S3): once no operation is in progress,
\* every digest has at most one live `Arc<Object>` (map, loaded content),
\* and a live weak slot names the copy the `objects` map holds.  Breaking
\* it takes one thread's blind `objects.insert` (line 214) landing between
\* another thread's steps; `resolve` re-inserting the slot's copy (line
\* 113) is what restores agreement.
QuiescentCoherence ==
    (\A t \in Threads : Idle(t)) =>
        \A d \in Digests :
            /\ Cardinality(Strong(d)) <= 1
            /\ SlotLive(d) => slot[d] = objects[d]

\* A failed `db.put` (line 202) makes `finish` return Err, but the handle
\* it registered (line 171) stays in `handles`, where `resolve` (line 86)
\* hands it out, and the object is in no database.  Once no call is in
\* progress, every handle the store handed out names an object that is
\* durable or resident in the `objects` map, so it still loads in this
\* process: the copy was upserted (179-189) before the put, and nothing
\* removes it.  This needs the database closed under references: a parent
\* persisted before its child, followed by a crash, lets the refs iterator
\* of the reopened store hand out the lost child (during a `finish` it
\* fails anyway, see NoBadHandle).
HandedOutLoadable ==
    ((\A t \in Threads : Idle(t)) /\ Closed(db)) =>
        \A d \in appHandles : d \in db \/ objects[d] # NoCopy

\* The `unwrap()` of lines 109 and 191 never panics: after the upsert the
\* slot's copy is still alive.
NoUpgradePanic == ~panicked

\* Spec 5 and 9: handles can outlive any individual holder of the store
\* and detect "store gone", failing with StorageError.  `load` (line 330) unwraps the
\* upgrade of its weak store reference, so a handle loaded after the
\* application dropped its last `LevelStore` and the last refs iterator
\* panics instead.
NoStoreGonePanic == ~gonePanicked

\* A handle the store handed out loads (spec 3: handles re-materialise
\* their object on demand): `load` never answers "Bad handle: no such
\* object!" (line 340).
NoBadHandle == badHandle = {}

\* Every store call a thread is in the middle of returns (or the thread
\* panics, or the process crashes): nobody waits on a slot mutex forever.
OpsComplete ==
    \A t \in Threads : ~Idle(t) ~> Idle(t)

=============================================================================
