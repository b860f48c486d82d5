----------------------------- MODULE TrustedRead -----------------------------
(***************************************************************************)
(* performTrustedRead (secure-blocktree/data.js) and the broker that       *)
(* re-encrypts secrets (brokers/inMemoryBroker.js).  A broker keeps the    *)
(* private keys it was given and the request tokens it handed out; a token *)
(* pays for one re-encryption, to the key it was generated for.            *)
(*                                                                         *)
(* A key stands for its key pair.  `signer' is the key that signed the     *)
(* token, so verify(trustedKey, sig, token) is signer = trusted, whenever  *)
(* it is called.  `readers' is what a key seek for reading finds from the  *)
(* block; SecureBlocktree has the seek itself.                             *)
(***************************************************************************)
EXTENDS Integers, Sequences

CONSTANTS
    Calls,        \* the reads in progress at one time
    Keys,         \* the key pairs
    NoKey,        \* no key: a token without signature, or not generated
    Tokens        \* the random numbers drawn as tokens

ASSUME TrustedReadAssumption == NoKey \notin Keys

VARIABLES
    readers,      \* keys with an active read entry at or above the block
    managed,      \* the broker's authorizedKeys
    tokens,       \* the broker's tokens: ready or spent, and for which key
    released,     \* what the broker has re-encrypted, in order
    calls         \* the local state of every read

vars == <<readers, managed, tokens, released, calls>>

(* A token that was generated is for a key, also once it is spent.        *)
Token   == [state : {"absent"}, key : {NoKey}] \cup [state : {"ready", "spent"}, key : Keys]
Release == [token : Tokens, owner : Keys, trusted : Keys]

Errs == {"none", "invalidKey", "notFound", "doesNotMatch", "decryptFailed"}
PCs  == {"idle", "seekTrusted", "seekOwner", "build", "checkToken", "reencrypt"}

(* A request: read a block encrypted for owner, for the key trusted. *)
Request == [token : Tokens, signer : Keys \cup {NoKey}, owner : Keys, trusted : Keys]
NoRequest == [token |-> NoKey, signer |-> NoKey, owner |-> NoKey, trusted |-> NoKey]
Call    == [pc : PCs, req : Request \cup {NoRequest}, err : Errs]

TypeOK ==
    /\ readers \subseteq Keys /\ managed \subseteq Keys
    /\ tokens \in [Tokens -> Token]
    /\ released \in Seq(Release)
    /\ calls \in [Calls -> Call]

At(c, pc)   == calls[c].pc = pc
Goto(c, pc) == calls' = [calls EXCEPT ![c].pc = pc]
End(c, e)   == calls' = [calls EXCEPT ![c] = [pc |-> "idle", req |-> NoRequest, err |-> e]]
Begin(c, pc, r) == calls' = [calls EXCEPT ![c] = [pc |-> pc, req |-> r, err |-> "none"]]

Init ==
    /\ readers = {} /\ managed = {}
    /\ tokens = [t \in Tokens |-> [state |-> "absent", key |-> NoKey]]
    /\ released = <<>>
    /\ calls = [c \in Calls |-> [pc |-> "idle", req |-> NoRequest, err |-> "none"]]

(***************************************************************************)
(* The owners of keys: entries in the tree, the broker's keys and tokens.  *)
(***************************************************************************)
SetReaders(keys) ==
    /\ readers' = keys
    /\ UNCHANGED <<managed, tokens, released, calls>>

AddAuthorizedKey(key) ==
    /\ managed' = managed \cup {key}
    /\ UNCHANGED <<readers, tokens, released, calls>>

RevokeAuthorizedKey(key) ==
    /\ managed' = managed \ {key}
    /\ UNCHANGED <<readers, tokens, released, calls>>

GenerateRequestToken(t, key) ==
    /\ tokens[t].state = "absent"
    /\ tokens' = [tokens EXCEPT ![t] = [state |-> "ready", key |-> key]]
    /\ UNCHANGED <<readers, managed, released, calls>>

(***************************************************************************)
(* performTrustedRead: the signature, then a seek of each key.  A reader   *)
(* that owns the secret is given it as it is.                              *)
(***************************************************************************)
StartRead(c, r) ==
    /\ At(c, "idle")
    /\ r.owner # r.trusted
    /\ CASE r.signer = NoKey -> End(c, "notFound")
         [] r.signer \in Keys \ {r.trusted} -> End(c, "doesNotMatch")
         [] r.signer = r.trusted -> Begin(c, "seekTrusted", r)
    /\ UNCHANGED <<readers, managed, tokens, released>>

SeekTrusted(c) ==
    /\ At(c, "seekTrusted")
    /\ IF calls[c].req.trusted \in readers THEN Goto(c, "seekOwner")
       ELSE End(c, "invalidKey")
    /\ UNCHANGED <<readers, managed, tokens, released>>

SeekOwner(c) ==
    /\ At(c, "seekOwner")
    /\ IF calls[c].req.owner \in readers THEN Goto(c, "build")
       ELSE End(c, "invalidKey")
    /\ UNCHANGED <<readers, managed, tokens, released>>

(***************************************************************************)
(* buildTrustedSecrets, called by a read or directly.  The private key is  *)
(* taken first; the signature is verified, in an await; then the token is  *)
(* checked and spent in one stretch; the private key is used last.         *)
(***************************************************************************)
BuildRefused(r) ==
    CASE r.owner \notin managed -> "invalidKey"
      [] r.owner \in managed /\ r.signer = NoKey -> "notFound"
      [] OTHER -> "none"

EnterBuild(c, r) ==
    /\ IF BuildRefused(r) = "none" THEN Begin(c, "checkToken", r)
       ELSE End(c, BuildRefused(r))
    /\ UNCHANGED <<readers, managed, tokens, released>>

Build(c)         == At(c, "build") /\ EnterBuild(c, calls[c].req)
StartBuild(c, r) == At(c, "idle") /\ EnterBuild(c, r)

(* Mutant: the signature alone is enough. *)
TokenAcceptedSigned(r) == r.signer = r.trusted

(* Mutant: any token that is ready will do. *)
TokenAcceptedReady(r) == r.signer = r.trusted /\ tokens[r.token].state = "ready"

TokenAccepted(r) ==
    r.signer = r.trusted /\ tokens[r.token] = [state |-> "ready", key |-> r.trusted]

(* Mutant: the token is spent in a later stretch, which nobody awaits. *)
CheckTokenLate(c) ==
    LET r == calls[c].req IN
    /\ \/ /\ At(c, "checkToken")
          /\ IF TokenAccepted(r) THEN Goto(c, "reencrypt") ELSE End(c, "doesNotMatch")
          /\ UNCHANGED tokens
       \/ /\ At(c, "reencrypt") /\ tokens[r.token].state = "ready"
          /\ tokens' = [tokens EXCEPT ![r.token].state = "spent"]
          /\ UNCHANGED calls
    /\ UNCHANGED <<readers, managed, released>>

CheckToken(c) ==
    LET r == calls[c].req IN
    /\ At(c, "checkToken")
    /\ IF TokenAccepted(r)
       THEN /\ tokens' = [tokens EXCEPT ![r.token].state = "spent"]
            /\ Goto(c, "reencrypt")
       ELSE /\ End(c, "doesNotMatch")
            /\ UNCHANGED tokens
    /\ UNCHANGED <<readers, managed, released>>

ReleasedAs(r) == [token |-> r.token, owner |-> r.owner, trusted |-> r.trusted]

(* Decryption throws when the private key is not the owner's; the token is *)
(* spent all the same.                                                     *)
Reencrypt(c) ==
    /\ At(c, "reencrypt")
    /\ \/ /\ released' = Append(released, ReleasedAs(calls[c].req))
          /\ End(c, "none")
       \/ /\ End(c, "decryptFailed")
          /\ UNCHANGED released
    /\ UNCHANGED <<readers, managed, tokens>>

(***************************************************************************)
(* The specification.                                                      *)
(***************************************************************************)
Administer ==
    \/ \E keys \in SUBSET Keys : SetReaders(keys)
    \/ \E key \in Keys : AddAuthorizedKey(key) \/ RevokeAuthorizedKey(key)
    \/ \E t \in Tokens, key \in Keys : GenerateRequestToken(t, key)

Read(c) ==
    \/ \E r \in Request : StartRead(c, r) \/ StartBuild(c, r)
    \/ SeekTrusted(c) \/ SeekOwner(c) \/ Build(c) \/ CheckToken(c) \/ Reencrypt(c)

Next == Administer \/ \E c \in Calls : Read(c)

Spec == Init /\ [][Next]_vars

(***************************************************************************)
(* Properties.                                                             *)
(***************************************************************************)

(* A token pays for one re-encryption, however many reads are in flight    *)
(* with it, and whatever is authorised or revoked meanwhile.               *)
TokenReleasesOnce ==
    \A i, j \in DOMAIN released : released[i].token = released[j].token => i = j

(* Data is re-encrypted only for the key the token was generated for. *)
ReleasedToTokenKey ==
    \A i \in DOMAIN released :
        tokens[released[i].token] = [state |-> "spent", key |-> released[i].trusted]
=============================================================================
