------------------------------ MODULE Envelope ------------------------------
(***************************************************************************)
(* Vault.encrypt and Vault.decrypt (vault/vault.ts): data sealed with a     *)
(* data key of the API goes into one buffer,                                *)
(*     iv (12) | tag (16) | length of keys (LEB128) | keys | ciphertext     *)
(* where keys is the data key as the API encrypted it.  decode cuts the     *)
(* buffer, the API decrypts keys, and AES-GCM opens the ciphertext.         *)
(*                                                                         *)
(* A byte knows the part it was written for (`of`), which the code does not *)
(* read.  The data key and AES-GCM are external: what was sealed opens with *)
(* the key, iv, tag and associated data it was made with.  base64, which    *)
(* loses nothing, is left out; TextEncoder and TextDecoder, which lose      *)
(* something, are not.  A text is a sequence of characters, and a character *)
(* is one byte here whatever it is in UTF-8.                                *)
(***************************************************************************)
EXTENDS Leb128, FiniteSetsExt

BOM == "U+FEFF"
REPLACEMENT == "U+FFFD"
LONE == "lone surrogate"    \* half of a surrogate pair, without the other half

(* TextEncoder: UTF-8 has no form for half of a pair. *)
TextEncode(text) ==
    [i \in DOMAIN text |-> IF text[i] = LONE THEN REPLACEMENT ELSE text[i]]

(* TextDecoder, without ignoreBOM: a byte order mark in front is dropped. *)
TextDecode(bytes) ==
    IF Len(bytes) > 0 /\ bytes[1] = BOM THEN Tail(bytes) ELSE bytes

IV == 12
TAG == 16

(* A part of n bytes: of what, and how long the whole part is, so that a    *)
(* part that was cut is not the part.                                       *)
Part(of, n) == [i \in 1 .. n |-> [bits |-> {}, more |-> FALSE, of |-> <<of, n, i>>]]

(* A length as the set of its bits, which halving it brings up one by one,  *)
(* and back, from the highest.                                              *)
Halves(n) ==
    LET half[b \in 0 .. 32] == IF b = 0 THEN n ELSE half[b - 1] \div 2
    IN half
Bits(n) == {b \in 0 .. 31 : Halves(n)[b] % 2 = 1}

Doubles(bits) ==
    LET double[i \in 0 .. 32] ==
            IF i = 0 THEN 0 ELSE 2 * double[i - 1] + (IF 32 - i \in bits THEN 1 ELSE 0)
    IN double
Number(bits) == Doubles(bits)[32]

LengthPrefix(n) ==
    LET bytes == EncodeUInt32(Bits(n))
    IN [i \in DOMAIN bytes |->
            [bits |-> bytes[i].bits, more |-> bytes[i].more, of |-> <<"length", n, i>>]]

(* `associatedData ? encode(associatedData) : undefined`, undefined being <<>> *)
AadBuffer(associatedData) ==
    IF Len(associatedData) = 0 THEN <<>> ELSE TextEncode(associatedData)

\* What WebCrypto's AES-GCM gives: the ciphertext, as long as the data, and the tag.
AesGcm(length) == Part("ciphertext", length) \o Part("tag", TAG)

SubtleEncrypt(length) ==
    LET encryptedBytes == AesGcm(length)
        tagStart == Len(encryptedBytes) - TAG
    IN [ciphertext |-> SubSeq(encryptedBytes, 1, tagStart),
        tag |-> SubSeq(encryptedBytes, tagStart + 1, Len(encryptedBytes))]

(* encrypt: createDataKey, seal, and assemble.                              *)
Encrypt(text, keyLength, associatedData) ==
    LET plaintext == TextEncode(text)
        sealed == SubtleEncrypt(Len(plaintext))
    IN [plaintext |-> plaintext, keyLength |-> keyLength, aad |-> AadBuffer(associatedData),
        buffer |-> Part("iv", IV) \o sealed.tag \o LengthPrefix(keyLength)
                   \o Part("keys", keyLength) \o sealed.ciphertext]

\* subarray and slice clamp their ends to the buffer.
Subarray(data, from, to) == SubSeq(data, from + 1, Min({to, Len(data)}))

(* Mutant: the prefix is taken for one byte. *)
DecodeShortPrefix(data) ==
    LET prefix == DecodeUInt32(data, IV + TAG)
    IN IF prefix.error # "none" THEN [error |-> prefix.error]
       ELSE [error |-> "none",
             iv |-> Subarray(data, 0, IV), tag |-> Subarray(data, IV, IV + TAG),
             keys |-> Subarray(data, IV + TAG + 1, IV + TAG + 1 + Number(prefix.value)),
             ciphertext |-> Subarray(data, IV + TAG + 1 + Number(prefix.value), Len(data))]

Decode(data) ==
    LET prefix == DecodeUInt32(data, IV + TAG)
    IN IF prefix.error # "none" THEN [error |-> prefix.error]
       ELSE LET keyLen == Number(prefix.value)
            IN [error |-> "none",
                iv |-> Subarray(data, 0, IV), tag |-> Subarray(data, IV, IV + TAG),
                keys |-> Subarray(data, prefix.nextIndex, prefix.nextIndex + keyLen),
                ciphertext |-> Subarray(data, prefix.nextIndex + keyLen, Len(data))]

\* The API decrypts the keys it encrypted, whole, and nothing else.
DecryptDataKey(keys, sealed) == keys = Part("keys", sealed.keyLength)

(* The tag goes back behind the ciphertext; AES-GCM opens what it sealed,   *)
(* with the same iv and associated data.                                    *)
SubtleDecrypt(decoded, aad, sealed) ==
    LET combinedData == decoded.ciphertext \o decoded.tag
    IN combinedData = AesGcm(Len(sealed.plaintext)) /\ decoded.iv = Part("iv", IV) /\ aad = sealed.aad

(* decrypt, on the first `size` bytes of what encrypt returned. *)
Decrypt(sealed, size, associatedData) ==
    LET decoded == Decode(SubSeq(sealed.buffer, 1, size))
    IN IF decoded.error # "none" THEN [error |-> decoded.error]
       ELSE IF ~DecryptDataKey(decoded.keys, sealed) THEN [error |-> "data key refused"]
       ELSE IF ~SubtleDecrypt(decoded, AadBuffer(associatedData), sealed)
       THEN [error |-> "not authentic"]
       ELSE [error |-> "none", text |-> TextDecode(sealed.plaintext)]

(* A wrapped key is no longer than an int32; an envelope is cut, or whole.  *)
MAX_LENGTH == 2147483647
IsSealInput(s) ==
    /\ s.text \in Seq(STRING) /\ s.keyLength \in Nat /\ s.keyLength <= MAX_LENGTH
    /\ s.sealedFor \in Seq(STRING) /\ s.openedFor \in Seq(STRING)
    /\ s.size \in 0 .. Len(Encrypt(s.text, s.keyLength, s.sealedFor).buffer)

(* Two texts that differ in lone surrogates and their replacement alone.    *)
EncodeAlike(a, b) ==
    /\ Len(a) = Len(b)
    /\ \A i \in 1 .. Len(a) : a[i] = b[i] \/ {a[i], b[i]} \subseteq {LONE, REPLACEMENT}

(* A text that comes back as it was. *)
Survives(text) ==
    /\ Len(text) > 0 => text[1] # BOM
    /\ \A i \in 1 .. Len(text) : text[i] # LONE

(* What encrypt sealed decrypt opens, on every side of a boundary of the    *)
(* length prefix, with the associated data it was sealed with ('' and none  *)
(* are the same, and so are texts that encode alike) and no other; a buffer *)
(* cut anywhere is never opened.  What it returns is the text that was      *)
(* sealed exactly when that does not begin with a byte order mark and has   *)
(* no lone surrogate.                                                       *)
OpensAsSealed(text, keyLength, size, sealedFor, openedFor) ==
    LET sealed == Encrypt(text, keyLength, sealedFor)
        opened == Decrypt(sealed, size, openedFor)
    IN /\ opened.error = "none" <=>
              size = Len(sealed.buffer) /\ EncodeAlike(sealedFor, openedFor)
       /\ opened.error = "none" => (opened.text = text <=> Survives(text))
=============================================================================
