-------------------------------- MODULE Codec --------------------------------
(***************************************************************************)
(* The canonical object encoding of attaca-leveldb (`Object::encode`,      *)
(* `Object::decode`, lib.rs): LEB128 blob length, the blob, then the       *)
(* encoded refs.  The `leb128` crate and attaca's `canonical` module are   *)
(* not in the source tree; they are modelled after spec 4.A and 6:         *)
(*                                                                         *)
(*   encoded_refs := algo_name || 0 || leb128(digest_size)                 *)
(*                   || leb128(|refs|) || refs[i] as digest_size bytes     *)
(*                                                                         *)
(* Bytes are naturals 0..255, a digest is a sequence of DigestSize bytes.  *)
(* A decoding is [ok |-> TRUE, val |-> v, rest |-> unread bytes] or        *)
(* [ok |-> FALSE] for an error.                                            *)
(***************************************************************************)
EXTENDS Naturals, Sequences, SequencesExt

CONSTANTS
    AlgoName,     \* Sha3Digest::NAME as a sequence of non-zero bytes
    DigestSize    \* Sha3Digest::SIZE (32 in the code)

Fail == [ok |-> FALSE]
Ok(v, rest) == [ok |-> TRUE, val |-> v, rest |-> rest]

\* leb128::write::unsigned: seven bits per byte, low group first, the high
\* bit set on every byte but the last
RECURSIVE Leb128Enc(_)
Leb128Enc(n) ==
    IF n < 128 THEN <<n>>
    ELSE <<(n % 128) + 128>> \o Leb128Enc(n \div 128)

\* mutant: the end of input reads as a zero byte
RECURSIVE Leb128DecEofZero(_)
Leb128DecEofZero(bs) ==
    IF bs = <<>> THEN Ok(0, <<>>)
    ELSE IF Head(bs) < 128 THEN Ok(Head(bs), Tail(bs))
    ELSE LET r == Leb128DecEofZero(Tail(bs))
         IN IF r.ok THEN Ok((Head(bs) - 128) + 128 * r.val, r.rest)
                    ELSE Fail

\* leb128::read::unsigned: fails at the end of input
RECURSIVE Leb128Dec(_)
Leb128Dec(bs) ==
    IF bs = <<>> THEN Fail
    ELSE IF Head(bs) < 128 THEN Ok(Head(bs), Tail(bs))
    ELSE LET r == Leb128Dec(Tail(bs))
         IN IF r.ok THEN Ok((Head(bs) - 128) + 128 * r.val, r.rest)
                    ELSE Fail

\* Read::read_exact of n bytes: fails on a short input
ReadExact(bs, n) ==
    IF Len(bs) < n THEN Fail ELSE Ok(SubSeq(bs, 1, n), SubSeq(bs, n + 1, Len(bs)))

\* canonical::encode(w, blob, refs)
EncodedRefs(refs) ==
    AlgoName \o <<0>> \o Leb128Enc(DigestSize) \o Leb128Enc(Len(refs))
        \o FlattenSeq(refs)

\* canonical::decode(r)?.finish::<Sha3Digest>()?.refs: the algorithm name
\* up to its NUL and the digest size must be SHA-3's; then the count and
\* the digests.
DecodeRefs(bs) ==
    LET nameEnd == Len(AlgoName) + 1
        hdr == ReadExact(bs, nameEnd)
        size == IF hdr.ok THEN Leb128Dec(hdr.rest) ELSE Fail
        count == IF size.ok THEN Leb128Dec(size.rest) ELSE Fail
        body == IF count.ok THEN ReadExact(count.rest, count.val * DigestSize)
                            ELSE Fail
    IN IF /\ body.ok
          /\ hdr.val = AlgoName \o <<0>>
          /\ size.val = DigestSize
         THEN Ok([i \in 1..count.val |->
                    SubSeq(body.val, (i - 1) * DigestSize + 1, i * DigestSize)],
                 body.rest)
         ELSE Fail

\* mutant: the refs are written before the blob
EncodeRefsFirst(o) == EncodedRefs(o.refs) \o Leb128Enc(Len(o.blob)) \o o.blob

\* Object::encode
Encode(o) == Leb128Enc(Len(o.blob)) \o o.blob \o EncodedRefs(o.refs)

\* Object::decode: length, `vec![0; len]` filled by read_exact, the refs
Decode(bs) ==
    LET len == Leb128Dec(bs)
        blob == IF len.ok THEN ReadExact(len.rest, len.val) ELSE Fail
        refs == IF blob.ok THEN DecodeRefs(blob.rest) ELSE Fail
    IN IF refs.ok THEN Ok([blob |-> blob.val, refs |-> refs.val], refs.rest)
                  ELSE Fail

=============================================================================
