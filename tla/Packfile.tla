------------------------------ MODULE Packfile ------------------------------
(***************************************************************************)
(* The layout of a packfile, how it is wrapped in a header and a MAC when  *)
(* it is stored, and how it is read again: as a whole, through a reader    *)
(* that keeps back what may be the MAC, or one blob of it.                 *)
(*                                                                         *)
(* A file is a sequence of cells <<tag, value>>.  A cell is a byte of a    *)
(* blob, a fixed-size structure (the header, an index record, the footer,  *)
(* the length at the end), or a piece of a MAC.                            *)
(***************************************************************************)
EXTENDS Integers, Sequences, SequencesExt, FiniteSetsExt

CONSTANTS
    MaxBlobs, MaxLength,    \* bounds: blobs of a packfile, their encoded lengths
    MACSize,                \* cells of a MAC
    SealSize,               \* cells that are encrypted together
    ChunkSize               \* cells the store returns at once

ASSUME PackfileAssumption ==
    /\ MaxBlobs \in Nat \ {0} /\ MaxLength \in Nat /\ MACSize \in Nat \ {0}
    /\ SealSize \in Nat \ {0}
    /\ ChunkSize \in Nat \ {0}

VARIABLES
    packfile,   \* the packfile: its blobs and its index
    stored,     \* what is in the store
    harm,       \* what has happened to it: "no", "cut", "flipped"
    reader      \* the deserializeReader: where it is, what it has read

packVars == <<packfile, stored, harm, reader>>

\* Two MACs are equal only if what they are of is.
MAC(cells) == [i \in 1 .. MACSize |-> <<"mac", <<i, cells>>>>]

\* EncryptStream: a fresh key, itself encrypted, and what there is in pieces, each
\* sealed with that key.  DecryptStream opens them in turn.
Pieces(n) == (n + SealSize - 1) \div SealSize
Encode(cells) ==
    <<<<"subkey", 0>>>> \o
    [i \in 1 .. Pieces(Len(cells)) |->
        <<"sealed", SubSeq(cells, (i - 1) * SealSize + 1, Min({i * SealSize, Len(cells)}))>>]
Decodable(cells) == /\ cells # <<>> /\ cells[1][1] = "subkey"
                    /\ \A i \in 2 .. Len(cells) : cells[i][1] = "sealed"
Decode(cells) == FlattenSeq([i \in 1 .. Len(cells) - 1 |-> cells[i + 1][2]])

-----------------------------------------------------------------------------
Records(pack) == [i \in DOMAIN pack.index |-> <<"record", pack.index[i]>>]

AddBlob(pack, mac, data) ==
    [blobs |-> pack.blobs \o data,
     index |-> Append(pack.index, [mac |-> mac, offset |-> Len(pack.blobs), length |-> Len(data)])]

SerializeFooter(pack) ==
    <<<<"footer", [count |-> Len(pack.index), indexOffset |-> Len(pack.blobs),
                   indexMAC |-> MAC(Records(pack))]>>>>

\* PackFile.Serialize, a packfile with nothing encoded: it is not stored, but is what
\* GetPackfile puts together again.
Plain(pack) == pack.blobs \o Records(pack) \o SerializeFooter(pack)

\* PutPackfile: the index and the footer are encoded once more, the blobs are
\* already; the length of the encoded footer comes last.
Layout(pack) ==
    LET footer == Encode(SerializeFooter(pack))
    IN  pack.blobs \o Encode(Records(pack)) \o footer \o <<<<"length", Len(footer)>>>>

\* storage.Serialize: all is covered by the MAC at the end.
Header == <<"header", "packfile">>
Serialize(cells) == <<Header>> \o cells \o MAC(<<Header>> \o cells)

NewFooterFromBytes(cells) == cells[1][2]

\* NewFromBytes, of a packfile whose index and footer are decoded.
NewFromBytes(cells) ==
    LET footer  == Last(cells)[2]
        records == SubSeq(cells, footer.indexOffset + 1, Len(cells) - 1)
        index   == [i \in DOMAIN records |-> records[i][2]]
    IN  IF /\ \A i \in DOMAIN index : index[i].offset + index[i].length <= footer.indexOffset
           /\ MAC(records) = footer.indexMAC
          THEN {[blobs |-> SubSeq(cells, 1, footer.indexOffset), index |-> index]}
          ELSE {}

\* GetPackfile, once the MAC is checked: nothing, if it cannot be taken apart.
GetPackfile(cells) ==
    LET size    == Last(cells)[2]
        body    == Front(cells)
        coded   == SubSeq(body, Len(body) - size + 1, Len(body))
        plain   == Decode(coded)
        footer  == NewFooterFromBytes(plain)
        rest    == SubSeq(body, 1, Len(body) - size)
        indexed == SubSeq(rest, footer.indexOffset + 1, Len(rest))
    IN  IF /\ Decodable(coded) /\ Decodable(indexed)
           /\ MAC(Decode(indexed)) = footer.indexMAC
          THEN NewFromBytes(SubSeq(rest, 1, footer.indexOffset) \o Decode(indexed) \o plain)
          ELSE {}

\* GetPackfileBlob: the bytes at a location, after the header.  No MAC covers them.
GetPackfileBlob(cells, blob) == SubSeq(cells, 1 + blob.offset + 1, 1 + blob.offset + blob.length)

-----------------------------------------------------------------------------
PackInit ==
    /\ packfile = [blobs |-> <<>>, index |-> <<>>]
    /\ stored = <<>> /\ harm = "no"
    /\ reader = [at |-> "idle", left |-> <<>>, rest |-> <<>>, hashed |-> <<>>]

\* The bytes of a blob say whose they are.
Pack ==
    /\ stored = <<>> /\ Len(packfile.index) < MaxBlobs
    /\ \E length \in 0 .. MaxLength :
          LET mac == Len(packfile.index) + 1
          IN  packfile' = AddBlob(packfile, mac, [i \in 1 .. length |-> <<"byte", <<mac, i>>>>])
    /\ UNCHANGED <<stored, harm, reader>>

PutPackfile ==
    /\ stored = <<>> /\ packfile.blobs # <<>>
    /\ stored' = Serialize(Layout(packfile))
    /\ UNCHANGED <<packfile, harm, reader>>

\* The store loses the end of the file, or a part of it is not what was written.
Damage ==
    /\ stored # <<>> /\ harm = "no" /\ reader.at = "idle"
    /\ \/ \E n \in 1 .. Len(stored) - 1 : stored' = SubSeq(stored, 1, n) /\ harm' = "cut"
       \/ \E i \in DOMAIN stored : stored' = [stored EXCEPT ![i] = <<"junk", 0>>] /\ harm' = "flipped"
    /\ UNCHANGED <<packfile, reader>>

\* newDeserializeReader: a header of this type must be there.
Deserialize ==
    /\ stored # <<>> /\ reader.at = "idle"
    /\ reader' = IF stored[1] = Header
                   THEN [at |-> "reading", left |-> <<>>, rest |-> Tail(stored), hashed |-> <<Header>>]
                   ELSE [reader EXCEPT !.at = "error"]
    /\ UNCHANGED <<packfile, stored, harm>>

\* Slip: no more is kept back than was read last.
KeptLess == MACSize - 1

\* What may be the MAC is kept back.
Kept == MACSize

\* How many of n cells are handed on: what cannot be the MAC, as much as the caller
\* has room for; none of fewer than a MAC.
Flushed(n) == IF n <= Kept THEN {0} ELSE 1 .. n - Kept

\* One round of deserializeReader.Read: a chunk is read, of which little or nothing may
\* come, and some is handed on.  With less than a MAC left at the end of the file, the
\* loop goes round for ever.
Read ==
    /\ reader.at = "reading"
    /\ \E n \in 0 .. Min({ChunkSize, Len(reader.rest)}) :
          LET left == reader.left \o SubSeq(reader.rest, 1, n)
              rest == SubSeq(reader.rest, n + 1, Len(reader.rest))
              eof  == rest = <<>>
          IN  \E f \in Flushed(Len(left)) :
                 LET hashed == reader.hashed \o SubSeq(left, 1, f)
                     last   == SubSeq(left, f + 1, Len(left))
                 IN  reader' =
                       [at |-> IF ~ eof THEN "reading"
                               ELSE IF Len(last) < MACSize THEN "spinning"
                               ELSE IF Len(last) > MACSize THEN "reading"
                               ELSE IF last = MAC(hashed) THEN "done" ELSE "error",
                        left |-> last, rest |-> rest, hashed |-> hashed]
    /\ UNCHANGED <<packfile, stored, harm>>

PackNext == Pack \/ PutPackfile \/ Damage \/ Deserialize \/ Read

PackSpec == PackInit /\ [][PackNext]_packVars

-----------------------------------------------------------------------------
\* What is read to its end without an error is the packfile that was written, and
\* every location in its index is that of the blob; an error or a reader that
\* never ends is the fault of the store, and the latter happens only if next to
\* nothing of the file is left.
ReadBack ==
    /\ reader.at = "done" =>
          /\ harm = "no" /\ GetPackfile(Tail(reader.hashed)) = {packfile}
          /\ NewFromBytes(Plain(packfile)) = {packfile}
          /\ \A i \in DOMAIN packfile.index :
                LET data == GetPackfileBlob(stored, packfile.index[i])
                IN  /\ Len(data) = packfile.index[i].length
                    /\ \A j \in DOMAIN data : data[j] = <<"byte", <<packfile.index[i].mac, j>>>>
    /\ reader.at = "error" => harm # "no"
    /\ reader.at = "spinning" => harm = "cut" /\ Len(stored) <= MACSize
=============================================================================
