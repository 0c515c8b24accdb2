------------------------------- MODULE MCCodec -------------------------------
(* The two byte forms of objects.  Store layer (lib.rs): Object::encode /  *)
(* Object::decode over objects whose blob length sits at the one/two-byte *)
(* LEB128 boundaries (0, 1, 2, 127, 128, 129, 255, 256), filled with a     *)
(* byte with or without the high bit, with up to two refs among three      *)
(* digests.  Marshal layer (object.rs): every kind of marshalled object,   *)
(* small chunks of 0 to 2 bytes lying at the start or inside their buffer. *)
(* The input is the state; no step changes it.                            *)
EXTENDS Codec

VARIABLE obj

K == INSTANCE ObjectKinds WITH HashSize <- 2

\* Sha3Digest::NAME stands for a short non-zero name
MCAlgoName == <<7, 9>>

BlobLengths == {0, 1, 2, 127, 128, 129, 255, 256}
Fills == {0, 128}
MCDigests == {<<1, 2>>, <<3, 4>>, <<255, 0>>}
RefLists == {<<>>} \cup {<<d>> : d \in MCDigests} \cup (MCDigests \X MCDigests)

StoreObjects == {[blob |-> [i \in 1..n |-> f], refs |-> r] :
                   n \in BlobLengths, f \in Fills, r \in RefLists}

H1 == <<1, 2>>
H2 == <<3, 4>>
Hashes == {H1, H2}
Names == {<<97>>, <<97, 98>>, <<98>>}
Entries == {[tag |-> "file", hash |-> H1, size |-> 0],
            [tag |-> "file", hash |-> H2, size |-> 300],
            [tag |-> "subtree", hash |-> H1]}
UpTo2(S) == {<<>>} \cup {<<x>> : x \in S} \cup (S \X S)

Chunks == {<<>>, <<7>>, <<0, 255>>}
Smalls == {[kind |-> "small", chunk |-> K!Slice(b, 0, Len(b))] : b \in Chunks}
          \cup {[kind |-> "small", chunk |-> K!Slice(<<5>> \o b, 1, Len(b))] :
                  b \in Chunks}
Larges == {[kind |-> "large", large |-> [size |-> sz, children |-> cs]] :
             sz \in {0, 300}, cs \in UpTo2({<<5, H1>>, <<70000, H2>>})}
Subtrees == {[kind |-> "subtree", entries |-> m] :
               m \in UNION {[N -> Entries] : N \in SUBSET Names}}
Commits == {[kind |-> "commit",
             commit |-> [subtree |-> H1, parents |-> ps, message |-> msg,
                         timestamp |-> <<49, 57>>]] :
              ps \in UpTo2(Hashes), msg \in {<<>>, <<104, 105>>}}
KindObjects == Smalls \cup Larges \cup Subtrees \cup Commits

Init == obj \in StoreObjects \cup KindObjects

Next == UNCHANGED obj

Spec == Init /\ [][Next]_obj

IsStoreObject == "blob" \in DOMAIN obj

\* Decoding what Object::encode wrote gives back the object and consumes
\* exactly the encoding (spec 8.1, canonical round trip), across the
\* LEB128 length boundaries.
CodecRoundTrip == IsStoreObject => Decode(Encode(obj)) = Ok(obj, <<>>)

\* Object::decode fails on every strict prefix of an encoding, so a value
\* cut short in the database is reported, never read as another object
\* (spec 4.A: decoding fails on truncation).
TruncationFails ==
    IsStoreObject =>
        LET e == Encode(obj)
        IN \A k \in 0..(Len(e) - 1) : ~Decode(SubSeq(e, 1, k)).ok

\* Object::from_bytes(slice) read back the object o whose bytes the slice views
ReadsBack(o, bytes, r) ==
    /\ r.ok
    /\ r.pos = Len(bytes)
    /\ K!RawValue(r.val) = K!RawValue(o)

\* the bytes placed after the prefix pre and before one more byte
ReadsBackAt(o, bytes, pre) ==
    ReadsBack(o, bytes, K!FromBytes(K!Slice(pre \o bytes \o <<9>>, Len(pre), Len(bytes))))

\* Object::from_bytes of the bytes of `as_raw().to_bytes()` gives back an
\* equal object, whether those bytes start their buffer or lie inside a
\* larger one: the small chunk, borrowed by bincode and re-sliced by the
\* unsafe `into_object` from its pointer offset, is the chunk that was
\* written.
ObjectRoundTrip ==
    ~IsStoreObject =>
        \A pre \in {<<>>, <<9, 9, 9>>} : ReadsBackAt(obj, K!ToBytes(obj), pre)
=============================================================================
