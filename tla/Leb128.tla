------------------------------- MODULE Leb128 -------------------------------
(***************************************************************************)
(* common/utils/leb128.ts: unsigned 32-bit integers in groups of 7 bits,    *)
(* the lowest first, each byte but the last with its continuation bit set.  *)
(*                                                                         *)
(* A number is the set of the positions of its bits, so that the shifts and *)
(* masks of the code are exact at every width: `x >>> 7` drops and renames  *)
(* positions, and a bit that `<<` moves past position 31 is gone.           *)
(***************************************************************************)
EXTENDS Integers, Sequences, FiniteSets

UInt32 == SUBSET (0 .. 31)
Byte == [bits : SUBSET (0 .. 6), more : BOOLEAN]
MAX_BYTES_FOR_UINT32 == 5

(* What is left of a value after n turns of the loop: value >>>= 7. *)
Shifted(value, n) == {b \in 0 .. 31 : b + 7 * n \in value}

(* One turn of the loop for each group up to the last that is not zero. *)
ByteLength(value) == 1 + Cardinality({n \in 1 .. 4 : Shifted(value, n) # {}})

(* Mutant: the continuation bit is set while the value at hand is not zero. *)
EncodeUInt32LateStop(value) ==
    [i \in 1 .. ByteLength(value) |->
        [bits |-> Shifted(value, i - 1) \cap (0 .. 6),
         more |-> Shifted(value, i - 1) # {}]]

EncodeUInt32(value) ==
    [i \in 1 .. ByteLength(value) |->
        [bits |-> Shifted(value, i - 1) \cap (0 .. 6),
         more |-> Shifted(value, i) # {}]]

Failed(error) == [error |-> error, value |-> {}, nextIndex |-> 0]

(* The bytes the loop reads before it ends, from an index of base 0. *)
Continued(data, offset, n) == \A i \in 1 .. n : data[offset + i].more

(* The loop reads the n-th byte if all before had their continuation bit,   *)
(* fails on a sixth, and ORs the groups into 32 bits.                       *)
DecodeUInt32(data, offset) ==
    IF offset \notin 0 .. Len(data) - 1 THEN Failed("Offset is out of bounds")
    ELSE IF \E n \in 1 .. MAX_BYTES_FOR_UINT32 :
            /\ offset + n <= Len(data)
            /\ Continued(data, offset, n - 1) /\ ~data[offset + n].more
    THEN LET length == CHOOSE n \in 1 .. MAX_BYTES_FOR_UINT32 :
                /\ offset + n <= Len(data)
                /\ Continued(data, offset, n - 1) /\ ~data[offset + n].more
         IN [error |-> "none",
             value |-> {b \in 0 .. 31 : \E i \in 1 .. length :
                            b - 7 * (i - 1) \in data[offset + i].bits},
             nextIndex |-> offset + length]
    ELSE IF Len(data) - offset > MAX_BYTES_FOR_UINT32
    THEN Failed("LEB128 sequence exceeds maximum length for uint32")
    ELSE Failed("Truncated LEB128 encoding")

(* Every uint32 is decoded to itself wherever it stands in a buffer and     *)
(* whatever follows it, from 1 to 5 bytes without a superfluous one, and no *)
(* shorter buffer holds it.                                                 *)
RoundTrips(value, before, after) ==
    LET bytes == EncodeUInt32(value)
        data == before \o bytes \o after
    IN /\ DecodeUInt32(data, Len(before)) =
            [error |-> "none", value |-> value, nextIndex |-> Len(before) + Len(bytes)]
       /\ Len(bytes) \in 1 .. MAX_BYTES_FOR_UINT32
       /\ value # {} => bytes[Len(bytes)].bits # {}
       /\ \A n \in 0 .. Len(bytes) - 1 :
             DecodeUInt32(SubSeq(bytes, 1, n), 0).error # "none"
=============================================================================
