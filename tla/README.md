# TLA+ models of attaca's object store and tree arena

This directory holds TLA+ models of the core of attaca: the LevelDB-backed
content-addressed object store (`src/attaca-leveldb/src/lib.rs`) and the
editable tree arena with its marshaller (`src/src/marshal/tree.rs`). Each
model is written from the Rust source. The TLC runs listed below check the
models. `PROJECT.json` records, for every definition, the source lines it
models. It also lists every run, every mutant and every finding.

## 1. Inventory of the system

### Components

| Component | Source | State | Operations |
|---|---|---|---|
| Store traits | `src/src/store.rs` | none (interfaces) | `Store::{handle_builder, resolve, load_branch, swap_branch}`, `Handle::load`, `HandleDigest::digest`, `HandleBuilder::{add_reference, finish}` |
| LevelDB store | `attaca-leveldb/src/lib.rs` | `StoreInner { db, handles: CHashMap<digest, LevelHandle>, objects: CHashMap<digest, Arc<Object>> }`; per handle `HandleInner { store: Weak, digest, content: Mutex<Weak<Object>> }` | `resolve` (74-120), `handle_from_digest` (141-162), `handle_from_object` (164-206), `object` (208-220), `LevelHandle::load` (329-349), `LevelHandleRefs::next` (282-287), builder `write`/`add_reference`/`finish` (381-404) |
| Object codec | `lib.rs` 229-245 | none | `Object::encode`/`decode`: LEB128 blob length, blob, canonical ref block |
| Branches | `lib.rs` 58-71 | none | `load_branch`, `swap_branch`: `unimplemented!()` |
| Tree arena | `marshal/tree.rs` | `Tree { arena: Vec<Option<Node>>, root }`, `Node = Opaque(SubtreeEntry) \| Transparent(HashMap<name, NodeId>)` | `entry`/`entry_from` (359-430), `VacantEntry::insert` (124-167), `OccupiedEntry::{remove, replace}` (80-98), `Blocked::unblock` (201-211), `append` (338-357), `from_iter` (302-321), `into_iter` (234-254, 324-334), `From` impls (264-299) |
| Marshaller | `marshal/tree.rs` 435-473 | the arena behind `Arc<Mutex<Arena>>`, one future per node | `marshal`, `marshal_inner` (children run concurrently through `futures_unordered`) |
| Object kinds | `marshal/object.rs` | none (values; a small chunk is an `ArcSlice` into a shared buffer) | `RawObject::{from_bytes, to_bytes, into_object}`, `RawSmallObject::into_object` (30-45), `Object::{from_bytes, as_raw}` (234-247) |
| RADOS remote, workspace trait, test CLI | `remote.rs`, `workspace.rs`, `bin/test/suite` | connection handle | out of scope: I/O wrappers, or interfaces without implementation |

### How the components interact

Callers build an object by writing bytes and adding child handles to a
builder. `finish` digests the object, then publishes the canonical handle in
`handles` and the `Arc<Object>` in `objects`. It points the handle's weak slot
at that copy and writes the encoding to LevelDB. `resolve` returns the
canonical handle for a digest, loading the object from the database when it
is not cached. `load` upgrades the handle's weak slot, or fetches the object
through `LevelStore::object`. The refs iterator of a loaded object creates
handles for its children. Everything is synchronous. Concurrency comes from
several threads sharing one store: `StoreInner` is behind an `Arc`, the maps
are concurrent `CHashMap`s, and each handle has a `parking_lot::Mutex`. The
tree is a value that is moved from one traversal state (`Entry`, `Blocked`)
to the next. Marshalling walks it depth-first and hands every subtree object
to a `Marshaller`. The marshaller installs the object and returns its digest.

### What is hard

* **Interleavings in the store.** `object()` checks the map and reads the
  database, then inserts without checking again. `handle_from_object` upserts
  and then upgrades a weak reference in a separate step. `resolve` publishes a
  handle before the object is resident. None of these steps is atomic with
  respect to other threads. A unit test would need a precise schedule to hit
  any of them.
* **Crash and partial failure.** The maps are updated before `db.put`. A failed
  put, or a process crash, leaves the memory state and the database apart.
  A machine crash can also lose unsynced puts; that case is not modelled
  (section 4).
* **Arena protocol sequences.** `remove` leaves the parent's map pointing at an
  empty slot. Later traversals, insertions and iterations meet that slot.
* **Marshal concurrency.** Children are processed concurrently under one arena
  mutex, and every slot must be taken exactly once.

### Properties that make each component correct

* Store: one resident copy per object once the threads are quiescent (spec 4.B,
  S3). A handle
  the store hands out must load, also after the application dropped the store
  (spec 9). No operation may panic. Every call must return.
* Tree: every reachable node id names a live slot (spec 3). Traversal must agree
  with the path map the tree denotes. After `insert(path, e)` the path holds
  `e`. `append`/`unblock` must keep the arena a tree. `from_iter` followed by
  `into_iter` must be the identity on prefix-free path sets (spec 8.6).
* Marshal: each slot is taken once. A parent is processed after its children.
  The root digest depends only on the tree, not on the completion order.
  Marshal always finishes.
* Codec: decode inverts encode, and a truncated encoding is an error.
* Object kinds: `Object::from_bytes` of the bytes of any object gives back an
  equal object, also when the bytes are a view inside a larger buffer.

## 2. Plan

Modules in order of importance:

1. **`LevelStore`** (done): the store's concurrent cache protocol, the
   database and crash/restart. MC module `MCLevelStore`.
2. **`Tree`** (done): the arena and traversal state machine (`entry`,
   `insert`, `replace`, `remove`, `unblock`, `append`), with
   `from_iter`/`into_iter` as RECURSIVE operators checked by a round trip
   (`MCTreeIter`). MC module `MCTree`.
3. **`Marshal`** (done): `marshal_inner` as concurrent node tasks over the
   arena mutex. The `Marshaller` is not in the source tree, so it is modelled
   from the spec. `MCMarshal` composes it with `Tree`, whose `from_iter` and
   `remove` build the input trees.
4. **`ObjectStore`** (abstract, not yet written): a set of present objects and a set of durable
   ones, with install/persist/crash. `LevelStore` is shown to refine it through
   `INSTANCE ObjectStore WITH present <- ..., durable <- db`.
5. **`PathMap`** (abstract, done): the tree as a set of (path, file entry)
   pairs. `Tree` is shown to refine it without `remove`. With `remove`, TLC
   shows that the refinement fails.
6. **`Codec`** (done): `Object::encode`/`decode` as operators with LEB128,
   checked for round trip and truncation over bounded blobs and ref lists.
7. **`ObjectKinds`** (done): the marshalled object kinds and their bincode
   form, with the borrowing decoder and the pointer re-slicing of
   `into_object`, checked by a round trip in `MCCodec`.

## 3. Modules and how they map to the code

### `LevelStore` (lib.rs)

Variables: `db` (LevelDB keys), `handles` (domain of the handles map),
`objects[d]` (the copy the objects map holds), `slot[d]` (the copy a handle's
weak `content` names) and `owner[d]` (the holder of its mutex). Each thread
has `pc`, `op`, `dig` and the locals `outer` (the `Arc` `object()` returned)
and `inner` (the `Arc` upgraded from the slot). `held` is the copy inside the
content a thread got from `load`. `appHandles` is the set of handles the store
has returned to callers. `appStore` says whether the application still holds
a `LevelStore` clone. History variables record finished installs, bad
handles and panics.

The `StoreInner` is alive (`StoreAlive`) while something owns it strongly:
a `LevelStore` clone, a call in progress, or a `LevelHandleRefs` from `load`
(which holds an `Arc<StoreInner>`, lines 262-266). Handles hold only a
`Weak` to it.

An object is identified by its digest, because canonical encoding makes equal
content give equal digests. Each in-memory `Arc<Object>` is a numbered copy. A
copy is live while the map, a thread local or loaded content names it. A weak
slot upgrades iff its copy is live. Copy numbers are reused only when nothing,
weak references included, names them.

Actions, one per step that touches shared state:

* `resolve`: lines 74-86.
* `ResHandle`: the `handle_from_digest` upsert.
* `ResLock`: the slot lock and upgrade.
* `ResUpsert`: the objects upsert.
* `ResUpgrade`: the unwrap.
* `ResInsert`: line 113.
* `object()`: `ObjGet`, `ObjDbGet`, `ObjInsert`, `ObjFail`.
* `load` and `LoadFinish`.
* `finish`, `InsLock`, `InsUpsert`, `InsUpgrade`, `InsPut`, `InsInsert`.
* `next`: the refs iterator.
* `DropContent`: the caller drops what `load` returned.
* `DropStore`: the application drops its last `LevelStore` and keeps its
  handles. After it, `resolve` and `finish` cannot be called. `load` first
  upgrades the store reference (line 330) and panics when the store is gone.
* `Crash`: the process restarts over the same database.

The database can fail a get or a put. A panicking `unwrap` kills its thread,
and the thread's guard is released.

Fairness: `WF` on each thread's in-progress steps, because they run on OS
threads. `SF` on the two lock-acquiring steps, because parking_lot's mutex
is eventually fair. Starting a new call is not fair: callers may stop calling.

### Runs

| Run | cfg | Expect | Checks |
|---|---|---|---|
| store_safety | `MCLevelStore.cfg` | pass | `TypeOK`, `QuiescentCoherence`, `HandedOutLoadable` with 1 crash |
| store_liveness | `MCLevelStoreLive.cfg` | pass | `OpsComplete` |
| store_upgrade_panic | `VNoUpgradePanic.cfg` | violation | `unwrap` at lib.rs:191 panics |
| store_bad_handle | `VNoBadHandle.cfg` | violation | resolve returns a handle whose load fails |
| store_gone | `VNoStoreGonePanic.cfg` | violation | load after the store was dropped panics (lib.rs:330) |

**Bounds.** The runs use 2 threads and 2 digests, where d2 references d1.
Every race in the store involves two threads on one digest. A parent and a
child are enough to produce the ordering between two installs. The initial
database is any subset that is closed under references: the store may be
opened on the leftovers of an earlier run, and that is how `object()` gets
database hits before any install. `MaxCopies = 2 + 3·|Threads|` covers every
reference that can exist at once: the map, two locals and the loaded content
of each thread, and the weak slot. One crash is enough to separate what is
durable from what is only in memory. The safety run reaches 2,665,911 distinct
states in about 45 s. The liveness run, without crashes, reaches 216,827
states in about 80 s.

### What the runs show

* `QuiescentCoherence` holds. The blind insert at line 214 can leave two live
  copies, but `resolve`'s re-insert at line 113 makes the map and the slot
  agree again before any caller is quiescent. The mutant that drops line 113
  breaks the property.
* `HandedOutLoadable` holds. When `db.put` fails (line 202), `finish` returns
  Err, but its handle stays in `handles` and `resolve` hands it out. Once no
  call is running, every handle handed out is durable or resident, because
  the copy was upserted before the put and nothing removes it. This needs the
  database to be closed under references; see the next list. A mutant whose
  error path removes the upserted copy, but leaves the handle, breaks it.
* **Finding (code bug).** `handle_from_object` can panic at line 191. The store
  is opened over an existing database, thread 1 `resolve`s an object and
  thread 2 `finish`es an object with the same digest. Thread 1's
  `objects.insert` replaces the copy thread 2 just upserted. That copy had no
  other owner, so `Weak::upgrade(..).unwrap()` fails. The same window exists
  at line 109. TLC finds the panic in 8 steps.
* **Finding.** `resolve` can return a handle whose `load` fails, because the
  handle is published at line 171 before the object is resident.
* **Finding (lib.rs:330).** The application finishes an object, drops its
  `LevelStore` and keeps the handle. `load` of the handle then panics at
  `Weak::upgrade(&self.inner.store).unwrap()`. Spec 5 says handles can
  outlive any individual holder of the store. Spec 9 says they must detect "store gone"
  and fail with `StorageError`. TLC shows it in 9 states.

Two further disagreements came up while modelling. Neither has a run:

* The database can hold a parent without its child. A parent's `finish` only
  needs the child's handle, and `resolve` returns that handle while the
  child's `finish` is still running or after its put failed. If the parent
  is persisted and the process crashes before the child is, the reopened
  store's refs iterator hands out a child that is nowhere. TLC reaches this
  state when `HandedOutLoadable` is stated without its closure
  precondition. It is a gap in the spec, which states no closure rule.
* `load` holds the slot mutex across the database read, which spec 5 forbids.

### `Tree` (tree.rs) and `PathMap`

`arena` is `Arena.entries`. Each slot is `NoNode` (None), `Opaque(e)` or
`Transparent(children)`. Ids are 1-based, so id i is `NodeId(i-1)`. `root` is
`Tree.root`. `cursor` is the value the user holds between calls. It is
"none" when the user holds the `Tree`. Otherwise it is an `OccupiedEntry`,
a `VacantEntry` or a `Blocked`. It records the node id, the immediate
component (0 for `None`) and the rest of the path. The tree is moved into the
entry, so one traversal is in progress at a time, and the model has a single
cursor. `target` is a history variable: the path the cursor was opened at.

Names are the naturals 1 and 2, ordered the way the `OsString`s of a
`BTreeMap` are.

Actions, one per public method:

* `Entry(p)`: `Tree::entry`, with `Walk` as `entry_from` (lines 367-430).
* `Insert(e)`: `VacantEntry::insert` (`Splice` for the parent map, `Chain`
  for the while loop).
* `Replace(e)`: `OccupiedEntry::replace`.
* `RemoveEntry`: `OccupiedEntry::remove`, including the assertion.
* `Unblock`: `Blocked::unblock`. The user passes `Tree::from` of the blocking
  subtree object, fetched by `BlockedObjectHash` (`Blocked::object_hash`),
  and the grafting is `AppendTree`.
* `IntoInner`: the `into_inner` of each entry type.

The user's choices are small sets: paths of one or two components, the
entries `File(f1)` and `Subtree(h2)`, and trees created empty or from
`Subtree(h1)`. `Content` is the content of the stored subtree objects:
`h1 = {1: Subtree(h2), 2: File(f1)}` and `h2 = {1: File(f2)}`. A walk from an
opaque root therefore blocks twice on its way down. `MaxNodes = 8` bounds the
arena, which also holds the slots that grafts and removes leave behind.

`PathMap` is what the tree promises: a set of (path, file entry) pairs in
which every subtree entry is expanded. It has the actions `Open`, `Put`,
`Delete` and `Close`. The refinement mapping sets `files` to
`Denote(arena, root)`, which is what `into_iter` yields with subtree entries
expanded, and sets `at` to `target`. The mapping is:

* `Unblock` is a stutter step of `PathMap`.
* `Insert` and `Replace` are `Put`.
* `RemoveEntry` is `Delete`.

`from_iter`/`into_iter` are the operators `FromIter` (sort by `PathLess`, fold
`FromIterStep`) and `IntoIter`. `sort_unstable_by` is `SortsByPath`: every
order in which no pair follows one with a smaller path, so pairs with equal
paths come in either order. `FromIterOutcomes` is the set of trees those
orders build. `MCTreeIter` makes every prefix-free set of paths over three
names, with up to two components, a state (729 inputs). It also adds each
such set with one path listed a second time with another entry, for 3,888
inputs in all.

* `RoundTrip` (inputs with distinct paths): `into_iter` of `from_iter` gives
  back the input. A `Splice` that allocates a fresh node breaks it.
* `DuplicateOneWins` (inputs with a repeated path): in every sort order,
  `from_iter` does not panic. `into_iter` then yields each path once, with
  one of its entries. The quickcheck test discards these inputs, because a
  path `starts_with` itself. A `from_iter` that matches only `Vacant` and
  panics otherwise breaks it.

| Run | cfg | Expect | Checks |
|---|---|---|---|
| tree_refines | `MCTree.cfg` | pass | `TypeOK`, `Refinement` (no remove; 192,472 states) |
| tree_shape | `MCTreeShape.cfg` | pass | `TreeShaped` with remove (1,293,186 states, about 30 s) |
| tree_round_trip | `MCTreeIter.cfg` | pass | `RoundTrip` (spec 8.6), `DuplicateOneWins` (3,888 inputs) |
| tree_remove_insert | `VTreeRemoveInsert.cfg` | violation | `Refinement` with remove |

What the tree runs show:

* **Refinement holds without `remove`.** `append`'s offsets and `unblock`'s
  graft keep the denotation unchanged. Insertion into an existing directory
  keeps the directory's other entries. The mutant that resumes the walk
  without the blocked component breaks the refinement.
* **`TreeShaped` holds even with `remove`.** No two map entries name one id,
  and no map entry names the root. An `append` without offsets breaks it.
* **Finding (code bug, tree.rs:397).** After `entry(a).remove()`,
  `entry(a/b).insert(e)` puts `e` at `a`. The walk consumes `b`, finds `a`'s
  slot empty and returns `Vacant(None)`, so `insert` fills `a`'s slot and `b`
  is lost. TLC shows it in 7 states.
* **`remove` leaves the parent's map naming the empty slot (tree.rs:86).**
  This breaks the spec's arena invariant (spec 3). `into_iter` (line 239) and
  `marshal_inner` (line 441) then panic on their `take().unwrap()`. A second
  `entry(a).remove()` fails `remove`'s own assertion. The `marshal_after_remove`
  run below shows the marshal panic.

Not modelled in the tree:

* The `Some(_) => panic!` arm of `insert`, because `entry_from` never yields
  a vacant entry at an opaque node.
* `From<HashMap>`, which differs from `From<BTreeMap>` only in allocation
  order.

### `Marshal` (tree.rs 435-473)

`Tree::marshal` moves the arena behind an `Arc<Mutex<Arena>>`. It creates
one future for the root. `marshal_inner` creates one future for each child.
Variables:

* `arena`: the arena inside the mutex.
* `st[i]`: the state of node i's future: unspawned, pending, waiting on the
  Marshaller (`opaque`), waiting on children (`children`), or done.
* `taken[i]`: the node the future took out of its slot.
* `res[i]`: the entry the future resolved to.
* `stored` and `noted`: what the Marshaller installed or was told of.
* `outcome` and `result`: how marshal's future resolved.

Actions:

* `Take(i)`: the first poll, `lock().unwrap()[id].take().unwrap()`. A `None`
  slot panics. A transparent node makes its children's futures pending.
* `ProcessOpaque(i)`: `marshaller.process(hash)`, which succeeds or fails.
* `ProcessSubtree(i)`: enabled once every child is done. The children's
  entries are folded into a map keyed by name, and the `SubtreeObject` is
  installed. This also succeeds or fails.

The first error resolves marshal's future and drops every other future
(`outcome`).

The `Marshaller` is not in the source tree. Following spec 4.D, it records the
hashes it is told of and installs subtree objects. Digests are collision-free,
so the digest of a subtree object is the record of its entry map.

`MCMarshal` instantiates `Tree` to build the inputs:

* `T!FromIter` of every prefix-free set of paths over three names with up to
  two components. A path of length 1 is an opaque subtree entry and a deeper
  path is a file. There are 729 trees, with up to 13 nodes.
* A tree whose root is an opaque entry.
* For the violation run, the tree that `entry(1/1).remove()` leaves.

Fairness: the executor polls every future that can make progress, and every
Marshaller call completes. This is weak fairness on each node's three steps.

| Run | cfg | Expect | Checks |
|---|---|---|---|
| marshal_safety | `MCMarshal.cfg` | pass | `TypeOK`, `MarshalCorrect`, `ChildrenFirst`, `MarshalEnds` (1,018,417 states, under 2 min) |
| marshal_after_remove | `VNoMarshalPanic.cfg` | violation | `NoMarshalPanic` after a `remove` |

* `MarshalCorrect`: an Ok marshal returns the digest that `Expected` computes
  recursively from the tree, whatever the completion order. The mutant that
  builds the subtree object before its children are done breaks it.
* `ChildrenFirst`: the Marshaller never installs an object that names an
  entry it has not seen. This holds also when a sibling fails.
* `MarshalEnds`: marshal's future always resolves. The mutant that swallows
  a failure leaves it pending.
* **Finding (tree.rs:441).** Marshal of a tree after `entry(1/1).remove()`
  panics at `take().unwrap()` while holding the mutex. TLC shows it in 4
  states.

### `Codec` (lib.rs 229-245)

`Encode` and `Decode` are operators over byte sequences. A byte is a number
from 0 to 255.

* `Encode`: the LEB128 length of the blob, the blob, then the encoded refs.
* `Decode`: reads the length, then reads that many bytes with `ReadExact` (so
  a short input fails), then the refs.

The `leb128` crate and attaca's `canonical` module are not in the source tree.
`Leb128Enc`, `Leb128Dec`, `EncodedRefs` and `DecodeRefs` follow spec 4.A and 6.
The encoded refs are: the algorithm name and a NUL, the LEB128 digest size,
the LEB128 count, then the digests.

`MCCodec` takes each object as a state, with these inputs:

* blob lengths 0, 1, 2, 127, 128, 129, 255 and 256, which include both sides
  of the one-byte/two-byte LEB128 boundary;
* fill bytes 0 and 128, with and without the high bit;
* up to two refs drawn from three 2-byte digests.

| Run | cfg | Expect | Checks |
|---|---|---|---|
| codec_round_trip | `MCCodec.cfg` | pass | `CodecRoundTrip`, `TruncationFails`, `ObjectRoundTrip` (293 states: 195 store objects, 98 marshalled objects) |

* `CodecRoundTrip`: decoding an encoding gives back the object and consumes
  exactly the encoding. Writing the refs before the blob breaks it.
* `TruncationFails`: every strict prefix of an encoding fails to decode.
  A LEB128 reader that reads the end of input as a zero byte breaks it,
  because a value cut right after the digest size then decodes with no refs.

Not checked: `decode` allocates `vec![0; len]` from an untrusted length
before `read_exact`. A corrupt length can request up to 2^64 bytes. The
model has no notion of allocation size.

### `ObjectKinds` (marshal/object.rs)

Pure operators, instantiated in `MCCodec` as `K == INSTANCE ObjectKinds WITH
HashSize <- 2`. The serde derives fix the field order and variant indices.
The derives' wire format is bincode's, which is not in the source tree:
u32 variant indices, 8-byte little-endian lengths and integers, an `OsString`
as the enum `Unix(Vec<u8>)`, and a `DateTime` as its text. `LE`, `LEVal`,
`LenBytes`, `ReadInt`, `ReadLenBytes` and `ReadHash` model that format.

An `ArcSlice`, and a `&[u8]` borrowed from one, is `Slice(buf, start, len)`.

* `ToBytes`: `RawObject::to_bytes` of `as_raw()`. `SerEntry`, `SerSubtree`
  (names in `BTreeMap` byte order, `SortedNames`), `SerLarge` and `SerCommit`
  are the derives.
* `RawFromBytes`: `RawObject::from_bytes`. The small chunk is borrowed, so its
  value is a `Slice` of the input buffer, not a copy. The derives' fixed
  fields are read by `ReadFields`. Each stage (`SmallFrom`, `LargeFrom`,
  `SubtreeFrom`, `CommitFrom` and the entry, child and hash readers) takes
  the previous stage's result as an argument, not as a LET definition. TLC
  evaluates an argument once, but re-evaluates a LET definition at each use
  when it collects coverage.
* `SmallIntoObject`: `RawSmallObject::into_object`. It takes the offset of the
  chunk from the slice's start (`offset_to`), asserts it is not negative, then
  re-slices `offset..offset+len`. An index out of range panics.
* `IntoObject`, `FromBytes`: `RawObject::into_object` and
  `Object::from_bytes`.

The inputs are small chunks of 0, 1 and 2 bytes, large objects with up to two
children, subtrees over every subset of the names `a`, `ab` and `b` (so byte order
differs from length order), and commits with up to two parents. Every
object's bytes are placed in a buffer both at offset 0 and after a 3-byte
prefix, with a trailing byte after them.

* `ObjectRoundTrip`: `Object::from_bytes` of the view of those bytes succeeds,
  consumes all of them, and gives an object equal to the original, comparing a
  small chunk by its bytes. The mutant that takes the chunk's offset from the
  buffer's start, not from the slice's, panics or returns the wrong bytes once
  the slice does not start at offset 0.

## 4. Not modelled, and why

* **The `Marshaller` and the `canonical`/`leb128` helpers.** They are not in
  the source tree. They are modelled from the spec where marshal and the codec
  call them.
* **A builder held across `DropStore`.** The model creates the builder when
  `finish` is called. A builder kept longer would keep the store alive, as a
  call in progress does.
* **Branches.** `unimplemented!()` in the only store. There is nothing to model
  but a panic.
* **RADOS remote (`remote.rs`).** `connect` builds a connection from a
  configuration, and `write_object` starts one asynchronous RADOS write, or
  reaches `unimplemented!` for an object without bytes. Nothing under `src/`
  calls either, and the `Hashed` type it writes is not in the source tree.
  There is no state or protocol beyond the I/O call.
* **Workspace trait (`workspace.rs`).** Three method signatures with no
  implementation.
* **Test CLI (`bin/test/suite`).** Argument parsing and I/O.
* **`LevelHandle`'s `Eq`/`Ord`/`Hash` and `HandleDigest::digest`.** They
  compare and return the digest. The model already names a handle by its
  digest, and there is only one handle per digest in a process, because
  `handle_from_digest` goes through the `handles` map.
* **The size accessors of object.rs** (`size`, `is_empty`, `encoded_size`).
  They only read a value.
* **The SHA-3 check in `resolve`/`digest`.** Every digest of the model is a
  SHA-3 digest. The rejection path is a plain early return.
* **Power loss.** `finish` writes with `WriteOptions::new()` (lib.rs:202),
  and that does not sync. After a machine crash, LevelDB may lose its last
  writes. Those can include objects whose `finish` already returned Ok. The
  model's `Crash` is a process crash, which keeps every completed put. The spec
  states no durability requirement, so this is listed as a hazard with no
  property.
* **Decode failures in the store.** `LevelStore` reads only canonical
  encodings back, so `ObjDbGet` never fails to decode. `Codec` shows what a
  truncated value does.
