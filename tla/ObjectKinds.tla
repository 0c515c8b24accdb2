----------------------------- MODULE ObjectKinds -----------------------------
(***************************************************************************)
(* The marshalled object kinds of src/src/marshal/object.rs and their      *)
(* byte form: `Object::as_raw`, `RawObject::to_bytes`,                     *)
(* `RawObject::from_bytes` and `Object::from_bytes`, whose small data      *)
(* objects borrow their chunk from the input slice and are turned back     *)
(* into owned objects by re-slicing the same `ArcSlice` (`into_object`).   *)
(*                                                                         *)
(* The serde derives fix the layout: field order and variant indices come  *)
(* from the type definitions.  The wire format of those derives is         *)
(* bincode's (not in the source tree): a variant index is a u32, lengths   *)
(* and u64 are 8 bytes, little-endian; `[u8]`, `String`, `Vec` and         *)
(* `BTreeMap` are a length then their items; `Cow<T>` is T; an `OsString`  *)
(* is the enum Unix(Vec<u8>) (variant 0); a `DateTime<Utc>` is its text.   *)
(* An ObjectHash is HashSize bytes.                                        *)
(*                                                                         *)
(* An `ArcSlice` (and a borrowed `&[u8]` into one) is [buf, start, len]:   *)
(* the bytes buf[start+1 .. start+len] of a shared buffer.                 *)
(***************************************************************************)
EXTENDS Naturals, Sequences, SequencesExt

CONSTANT HashSize

Fail == [ok |-> FALSE]
Ok(v, p) == [ok |-> TRUE, val |-> v, pos |-> p]

Slice(buf, start, len) == [buf |-> buf, start |-> start, len |-> len]
Bytes(s) == SubSeq(s.buf, s.start + 1, s.start + s.len)

-----------------------------------------------------------------------------
(* bincode primitives *)

\* an unsigned integer as w little-endian bytes
RECURSIVE LE(_, _)
LE(n, w) == IF w = 0 THEN <<>> ELSE <<n % 256>> \o LE(n \div 256, w - 1)

RECURSIVE LEVal(_)
LEVal(s) == IF s = <<>> THEN 0 ELSE Head(s) + 256 * LEVal(Tail(s))

\* a length-prefixed byte string
LenBytes(s) == LE(Len(s), 8) \o s

\* read w bytes at offset p of view v as an integer
ReadInt(v, p, w) ==
    IF p + w > Len(v) THEN Fail ELSE Ok(LEVal(SubSeq(v, p + 1, p + w)), p + w)

LenBytesAt(v, n) ==
    IF n.ok /\ n.pos + n.val <= Len(v)
      THEN Ok([at |-> n.pos, len |-> n.val], n.pos + n.val)
      ELSE Fail

\* read a length-prefixed byte string; the value is where it lies in v
ReadLenBytes(v, p) == LenBytesAt(v, ReadInt(v, p, 8))

ReadHash(v, p) ==
    IF p + HashSize > Len(v) THEN Fail
    ELSE Ok(SubSeq(v, p + 1, p + HashSize), p + HashSize)

\* OsString names of a SubtreeObject, in BTreeMap (byte-wise) order
ByteLess(a, b) ==
    \E i \in 0..Len(a) :
        /\ i <= Len(b)
        /\ SubSeq(a, 1, i) = SubSeq(b, 1, i)
        /\ IF i = Len(a) THEN Len(b) > i ELSE i < Len(b) /\ a[i + 1] < b[i + 1]

RECURSIVE SortedNames(_)
SortedNames(S) ==
    IF S = {} THEN <<>>
    ELSE LET m == CHOOSE x \in S : \A y \in S \ {x} : ByteLess(x, y)
         IN <<m>> \o SortedNames(S \ {m})

-----------------------------------------------------------------------------
(* Serialize: the derives of the object.rs types *)

\* SubtreeEntry::File(hash, size) | SubtreeEntry::Subtree(hash)
SerEntry(e) ==
    IF e.tag = "file" THEN LE(0, 4) \o e.hash \o LE(e.size, 8)
                      ELSE LE(1, 4) \o e.hash

\* SubtreeObject { entries: BTreeMap<OsString, SubtreeEntry> }
SerSorted(m, ks) ==
    LE(Len(ks), 8)
        \o FlattenSeq([i \in 1..Len(ks) |->
                         LE(0, 4) \o LenBytes(ks[i]) \o SerEntry(m[ks[i]])])
SerSubtree(m) == SerSorted(m, SortedNames(DOMAIN m))

\* LargeObject { size, children: Vec<(u64, ObjectHash)> }
SerLarge(l) ==
    LE(l.size, 8) \o LE(Len(l.children), 8)
        \o FlattenSeq([i \in 1..Len(l.children) |->
                         LE(l.children[i][1], 8) \o l.children[i][2]])

\* CommitObject { subtree, parents, message, timestamp }
SerCommit(c) ==
    c.subtree \o LE(Len(c.parents), 8) \o FlattenSeq(c.parents)
        \o LenBytes(c.message) \o LenBytes(c.timestamp)

\* RawObject::to_bytes of `object.as_raw()`: Data(Small | Large) | Subtree |
\* Commit; `as_raw` borrows the small chunk in place and the rest as
\* Cow::Borrowed, so it changes nothing the bytes depend on
ToBytes(r) ==
    CASE r.kind = "small"   -> LE(0, 4) \o LE(0, 4) \o LenBytes(Bytes(r.chunk))
      [] r.kind = "large"   -> LE(0, 4) \o LE(1, 4) \o SerLarge(r.large)
      [] r.kind = "subtree" -> LE(1, 4) \o SerSubtree(r.entries)
      [] r.kind = "commit"  -> LE(2, 4) \o SerCommit(r.commit)

-----------------------------------------------------------------------------
(* Deserialize from a view v (the bytes of an ArcSlice).  Each stage takes *)
(* the result of the previous one as an argument.                          *)

\* one field of a derived layout: a u32, a u64, a hash or borrowed bytes
ReadField(v, p, f) ==
    CASE f = "u32"   -> ReadInt(v, p, 4)
      [] f = "u64"   -> ReadInt(v, p, 8)
      [] f = "hash"  -> ReadHash(v, p)
      [] f = "bytes" -> ReadLenBytes(v, p)

\* the fields fmt in order, as a tuple of their values
RECURSIVE ReadFieldsAcc(_, _, _, _), NextField(_, _, _, _)
ReadFieldsAcc(v, p, fmt, acc) ==
    IF fmt = <<>> THEN Ok(acc, p)
    ELSE NextField(v, fmt, acc, ReadField(v, p, Head(fmt)))
NextField(v, fmt, acc, r) ==
    IF r.ok THEN ReadFieldsAcc(v, r.pos, Tail(fmt), Append(acc, r.val)) ELSE Fail
ReadFields(v, p, fmt) == ReadFieldsAcc(v, p, fmt, <<>>)

\* the bytes a borrowed field names
Text(v, b) == SubSeq(v, b.at + 1, b.at + b.len)

\* n (OsString, SubtreeEntry) pairs of a BTreeMap; a repeated name replaces
\* the earlier one, as BTreeMap::insert does
RECURSIVE ReadEntries(_, _, _, _), AddEntry(_, _, _, _, _), AddFile(_, _, _, _, _)
ReadEntries(v, p, n, m) ==
    IF n = 0 THEN Ok(m, p)
    ELSE AddEntry(v, n, m, ReadFields(v, p, <<"u32", "bytes", "u32">>), p)
AddEntry(v, n, m, r, p) ==
    LET h == ReadHash(v, r.pos)
    IN CASE ~r.ok \/ r.val[1] # 0 \/ r.val[3] \notin {0, 1} \/ ~h.ok -> Fail
         [] r.val[3] = 0 -> AddFile(v, n, m, [name |-> Text(v, r.val[2]), hash |-> h.val],
                                    ReadInt(v, h.pos, 8))
         [] OTHER -> ReadEntries(v, h.pos, n - 1,
                        (Text(v, r.val[2]) :> [tag |-> "subtree", hash |-> h.val]) @@ m)
AddFile(v, n, m, f, s) ==
    IF s.ok
      THEN ReadEntries(v, s.pos, n - 1,
             (f.name :> [tag |-> "file", hash |-> f.hash, size |-> s.val]) @@ m)
      ELSE Fail

\* n (u64, ObjectHash) children of a LargeObject
RECURSIVE ReadChildren(_, _, _, _), AddChild(_, _, _, _)
ReadChildren(v, p, n, acc) ==
    IF n = 0 THEN Ok(acc, p) ELSE AddChild(v, n, acc, ReadFields(v, p, <<"u64", "hash">>))
AddChild(v, n, acc, r) ==
    IF r.ok THEN ReadChildren(v, r.pos, n - 1, Append(acc, <<r.val[1], r.val[2]>>))
    ELSE Fail

\* n hashes of a Vec<ObjectHash>
RECURSIVE ReadHashes(_, _, _, _), AddHash(_, _, _, _)
ReadHashes(v, p, n, acc) ==
    IF n = 0 THEN Ok(acc, p) ELSE AddHash(v, n, acc, ReadHash(v, p))
AddHash(v, n, acc, h) ==
    IF h.ok THEN ReadHashes(v, h.pos, n - 1, Append(acc, h.val)) ELSE Fail

\* Data(Small(chunk)): the chunk borrows from the slice
SmallFrom(sl, r) ==
    IF r.ok
      THEN Ok([kind |-> "small",
               chunk |-> Slice(sl.buf, sl.start + r.val[3].at, r.val[3].len)], r.pos)
      ELSE Fail

\* Data(Large(LargeObject { size, children }))
LargeChildren(size, ch) ==
    IF ch.ok THEN Ok([kind |-> "large", large |-> [size |-> size, children |-> ch.val]],
                     ch.pos)
    ELSE Fail
LargeFrom(v, r) ==
    IF r.ok THEN LargeChildren(r.val[3], ReadChildren(v, r.pos, r.val[4], <<>>)) ELSE Fail

\* Subtree(SubtreeObject { entries })
SubtreeEntries(es) ==
    IF es.ok THEN Ok([kind |-> "subtree", entries |-> es.val], es.pos) ELSE Fail
SubtreeFrom(v, r) ==
    IF r.ok THEN SubtreeEntries(ReadEntries(v, r.pos, r.val[2], <<>>)) ELSE Fail

\* Commit(CommitObject { subtree, parents, message, timestamp })
CommitText(v, st, ps, t) ==
    IF t.ok
      THEN Ok([kind |-> "commit",
               commit |-> [subtree |-> st, parents |-> ps, message |-> Text(v, t.val[1]),
                           timestamp |-> Text(v, t.val[2])]], t.pos)
      ELSE Fail
CommitParents(v, st, ps) ==
    IF ps.ok THEN CommitText(v, st, ps.val, ReadFields(v, ps.pos, <<"bytes", "bytes">>))
    ELSE Fail
CommitFrom(v, r) ==
    IF r.ok THEN CommitParents(v, r.val[2], ReadHashes(v, r.pos, r.val[3], <<>>)) ELSE Fail

\* RawObject::from_bytes(&slice): the variant index, then its fields
RawFromView(sl, v, tag, sub) ==
    CASE ~tag.ok -> Fail
      [] tag.val = 0 /\ sub.ok /\ sub.val = 0 ->
           SmallFrom(sl, ReadFields(v, 0, <<"u32", "u32", "bytes">>))
      [] tag.val = 0 /\ sub.ok /\ sub.val = 1 ->
           LargeFrom(v, ReadFields(v, 0, <<"u32", "u32", "u64", "u64">>))
      [] tag.val = 1 -> SubtreeFrom(v, ReadFields(v, 0, <<"u32", "u64">>))
      [] tag.val = 2 -> CommitFrom(v, ReadFields(v, 0, <<"u32", "hash", "u64">>))
      [] OTHER -> Fail
RawFromBytes(sl) ==
    RawFromView(sl, Bytes(sl), ReadInt(Bytes(sl), 0, 4), ReadInt(Bytes(sl), 4, 4))

-----------------------------------------------------------------------------
(* The owned objects *)

\* mutant: the offset is taken from the start of the whole buffer, not
\* from the start of the slice
SmallIntoObjectAbs(raw, sl) ==
    LET offset == raw.chunk.start
    IN IF offset >= 0 /\ offset + raw.chunk.len <= sl.len
         THEN [kind |-> "small", chunk |-> Slice(sl.buf, sl.start + offset, raw.chunk.len)]
         ELSE [kind |-> "panic"]

\* RawSmallObject::into_object: the chunk's offset from the slice's start,
\* `assert!(offset >= 0)`, then `slice.map(|s| &s[offset..offset + len])`;
\* out-of-range indices panic
SmallIntoObject(raw, sl) ==
    LET offset == raw.chunk.start - sl.start
    IN IF offset >= 0 /\ offset + raw.chunk.len <= sl.len
         THEN [kind |-> "small", chunk |-> Slice(sl.buf, sl.start + offset, raw.chunk.len)]
         ELSE [kind |-> "panic"]

\* RawObject::into_object: small data re-slices, the rest is into_owned
IntoObject(raw, sl) ==
    IF raw.kind = "small" THEN SmallIntoObject(raw, sl) ELSE raw

\* Object::from_bytes(slice)
FromRaw(sl, r) == IF r.ok THEN Ok(IntoObject(r.val, sl), r.pos) ELSE Fail
FromBytes(sl) == FromRaw(sl, RawFromBytes(sl))

\* what RawObject's derived PartialEq compares: a borrowed chunk by its bytes
RawValue(r) ==
    IF r.kind = "small" THEN [kind |-> "small", bytes |-> Bytes(r.chunk)] ELSE r

=============================================================================
