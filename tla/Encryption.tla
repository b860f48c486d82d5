----------------------------- MODULE Encryption -----------------------------
(***************************************************************************)
(* Encrypted data and signatures as bytes: utils/crypto.js, and the parts  *)
(* of layer 3 that use it (encryption.js, data.js).                        *)
(*                                                                         *)
(* Node's ciphers and signatures are not in the repository.  Here they are *)
(* maps that need the right key, the right iv and the right message; the   *)
(* keys of a pair are the same buffer.  Random is what is drawn for one    *)
(* encryption: a key for the data, and an iv.                              *)
(***************************************************************************)
EXTENDS Encoding

CONSTANTS
    IvSize,     \* constants.crypto.ivSize
    AesKeySize  \* constants.crypto.aesKeySize; the drawn keys are longer

ASSUME EncryptionAssumption == IvSize \in Nat \ {0} /\ AesKeySize = IvSize

Digest(buf) == FoldLeft(LAMBDA n, digit : (3 * n + digit + 1) % (Base * Base), 0, buf)
Shift(buf, n) == [i \in DOMAIN buf |-> (buf[i] + n) % Base]

PublicEncrypt(key, data)  == Shift(data, Digest(key))
PrivateDecrypt(key, data) == Shift(data, - Digest(key))
CipherIv(key, iv, data)   == Shift(data, Digest(key \o iv))
DecipherIv(key, iv, data) == Shift(data, - Digest(key \o iv))
Sign(key, message)        == FromInt(Digest(key \o message), Int16Size)
Verify(key, sig, message) == sig = Sign(key, message)

(***************************************************************************)
(* crypto.js: the data under a drawn key, behind that key under the public *)
(* key of the reader.                                                      *)
(***************************************************************************)
Cipher(random, data) == random.iv \o CipherIv(random.key, random.iv, data)

Decipher(key, encrypted) ==
    DecipherIv(key, Slice(encrypted, 1, AesKeySize), From(encrypted, AesKeySize + 1))

Encrypt(publicKey, data, random) ==
    LET encryptedKey == PublicEncrypt(publicKey, random.key) IN
    FromInt(Len(encryptedKey), Int16Size) \o encryptedKey \o Cipher(random, data)

Decrypt(privateKey, encrypted) ==
    LET start == Int16Size + 1
        end   == start + ToInt(encrypted, 1, Int16Size)
        key   == PrivateDecrypt(privateKey, Slice(encrypted, start, end - 1))
    IN  Decipher(key, From(encrypted, end))

EncryptBlockData(key, type, data, random) ==
    [key |-> key, encryptedData |-> Encrypt(key, FromData(type, data), random)]

DecryptBlockData(type, data, privateKey) ==
    ToData(type, IF privateKey = Null THEN data ELSE Decrypt(privateKey, data))

(***************************************************************************)
(* encryption.js: the signature of a block, behind the nonce it signs with *)
(* and the signer's key.                                                   *)
(***************************************************************************)
Message(nonce, parent, prev) == nonce \o Optional(parent) \o Optional(prev)

SignBlock(key, parent, prev, nonce) ==
    nonce \o FromVarBinary(key) \o Sign(key, Message(nonce, parent, prev))

KeyOfSignature(sig) == ToVarBinary(sig, Int64Size + 1).result

VerifySignedBlock(sig, key, parent, prev) ==
    LET signer == ToVarBinary(sig, Int64Size + 1)
        nonce  == Slice(sig, 1, Int64Size)
    IN  /\ sig # Null
        /\ Verify(signer.result, From(sig, signer.index), Message(nonce, parent, prev))
        /\ key \in {Null, signer.result}
=============================================================================
