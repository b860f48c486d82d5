# A TLA+ model of node-secureblocktree

node-secureblocktree is a hierarchical blockchain database in JavaScript. It is
built in layers, all `async`: whenever a function awaits, any other call may run.
This directory models the layers in TLA+, checks them with TLC on small
instances, and proves some of the results with TLAPS for all instances. Paths
below are relative to the repository.

## 1. The system

| part | source | state it keeps | operations |
|---|---|---|---|
| layer 0, system | `src/layers/system.js`, `src/storage`, `src/cache` | the stored blocks and their keys, in order (two storages: a list in memory, a hash table with slots of a fixed size); a cache of scopes `headBlock`, `rootBlock`, `next`, `childBlocks` | read, write, find, map in storage; read, write, push in cache; a time source |
| layer 1, blockchain | `src/layers/blockchain.js` | none of its own | `writeBlock`, `readBlock`, `getHeadBlock`, `getNextBlock`, `getRootBlock`, `validateBlockchain`, `countBlocks`, `listBlocks` |
| layer 2, blocktree | `src/layers/blocktree.js` | none of its own | layer 1 with a `parent` link per block, `performParentScan`, `performChildScan`, `validateBlocktree` |
| layer 3, secure blocktree | `src/layers/secure-blocktree` | `secureCache`: root block and root zone | typed, signed blocks: `createRoot`, `createZone`, `createIdentity`, `createCollection`, `addKey`, `revokeKey`, `addOptions`, `addSecret`, `addRecord`; key and secret scans; `performTrustedRead` |
| brokers | `src/brokers` | the private keys it manages, the request tokens | `generateRequestToken`, `buildTrustedSecrets`, `addAuthorizedKey`, `revokeAuthorizedKey` |
| utilities | `src/utils`, `src/constants.js`, `src/errors.js` | none | conversions, crypto, events |
| command line | `index.js`, `src/cli.js`, `commands.js` | none | terminal access to the read operations |

**How they interact.** A layer calls the one below and awaits it. Layer 3 finds
the place of a new block (the head of a chain, the root of a parent), seeks the
signer's key by walking chains upwards, compares its nonce with those of the
siblings, and hands the serialised block to layer 2. Layer 2 checks the parent,
hands the block to layer 1, and pushes it on the parent's list of children.
Layer 1 reads the clock, reads `prev`, looks for a successor of `prev`, stores
the block and then fills four cache entries, one await each. Reads fill the same
entries when they miss.

**What is hard.** There is no lock, so every check (successor, parent, nonce,
count, signature) may be stale when the block is stored, and every cache entry
is written some awaits after the storage it describes. The clock may go back.
Callers may switch validation and caches off call by call. There is no crash
recovery to speak of: storage, cache and broker are in memory and are lost
together. `PROJECT.json` lists the hazards line by line.

**What makes each part correct.**

- Layer 1: every chain is numbered and timestamped without gaps and validates;
  chains do not fork; a cached successor, root or head is the one a walk finds.
- Layer 2: parents exist and end at a root; a child scan finds every child chain.
- Layer 3: one root; every block has a type its place allows; every signer had
  an active key above its place; no signature is used for two children.
- Broker: a token buys one re-encryption, for the key it was made for.
- Storage and serialization: a write that fails leaves nothing behind, one that
  succeeds reads back field by field; a scan misses nothing.

## 2. Modules

| module | models | corresponds to the code how |
|---|---|---|
| `Ledger` | what layer 1 promises | a forest of chains, or one line per root; abstract specification |
| `Blockchain` | layer 1 over storage and cache | one action per stretch of code between two awaits that reach storage or cache; `calls[c].pc` is the stretch that is next |
| `Blocktree` | layer 2 | the same, over the check (`Layer1Check`) and the store (`Layer1Store`) of layer 1, two actions because other calls run between them; `env` says who calls and with which options |
| `SecureBlocktree` | layer 3 writes | the checks of `writeSecureBlock` one by one, `CheckNext`, `Store` and `Publish` standing for the parts of layers 1 and 2 that other calls may overtake |
| `SecureReads` | the scans of layer 3, for keys and for secrets | extends `SecureBlocktree`; `ChainScan` is the loop of `performKeyScan` and `performSecretScan`, `Scan` their recursion over the parents |
| `TrustedRead` | `performTrustedRead` and the in-memory broker | the stretches between its awaits |
| `Encoding` | `convert.js`, `serialization`, the headers of layers 1 and 2 | one operator per encoder and decoder, on sequences of digits |
| `Encryption` | `crypto.js`, `encryption.js`, the encryption of block data | the framing as bytes; RSA, AES and signatures are external maps that need the right key, iv and message |
| `Storage` | `hashTableStorage.js` behind `system.js` | a write is one action, with each place it can throw at; a scan is one action per value it awaits |
| `MC*` | | environments, block and key data, symmetry for TLC |
| `LeastNumber` | | lemmas on naturals and recursive functions that the proofs share |
| `BlockchainProofs`, `BlockchainSequentialProofs`, `BlocktreeProofs`, `SecureBlocktreeProofs`, `SecureReadsProofs`, `StorageProofs`, `TrustedReadProofs` | | theorems and proofs about the module they are named after |

How they compose. `Blockchain` is checked against `Ledger`. `Blocktree` and
`SecureBlocktree` take from layer 1 only the steps that other calls may overtake,
and let it do at least what `Blockchain` does: where its caches or its clock
decide, they choose. `Storage` shows that a scan answers as if it were one step
(`ScanIsAtomic`), which is how the other modules take it. `SecureReads` shows
that the loops find what `SecureBlocktree`'s `Seek` looks up (`KeySeekExact`).

Conventions, the same in every module:

- A block is named by its position in the storage. Hashes are fresh because
  each block holds a random nonce. 0 is the absent block (`null`,
  `constants.block.zero`); `Unknown` is a hash that was never stored.
- Stored blocks never change, so a walk along `prev` or `parent`, or a scan of
  the storage, is one action at the moment of its last read.
- A call that rejects goes back to `idle` and keeps its outcome in `err`.
- `Caching = FALSE` is `noCache.js`.

Layer by layer, what is abstracted:

- *Layer 1.* Data and byte layout are left out here; `Encoding` has them.
- *Layer 2.* Timestamps, sequence numbers and caches are those of layer 1 and
  `Blockchain` checks them. `Layer1Check` may therefore refuse any `prev` (the
  clock may have gone back), and may accept one that has a successor, as a stale
  cache makes layer 1 do; it knows the successor for sure when calls are awaited
  (`SuccessorKnown`). `Layer1Store` may reject with the block stored, when a
  missing ancestor ends the walk to the root (`blockchain.js:255`); the push then
  never happens.
- *Layer 3.* A key stands for its pair. A signature is a signer and a nonce
  bound to `prev` and `parent`, as `signBlock` concatenates them; one bound to a
  `prev` cannot be used twice there, so nonces matter only for new chains.
  `CheckNonce` and `CheckNext` ask caches of the layers below, which see all of
  the storage when calls are awaited and any part of it otherwise (`Seen`).
  `CheckNonce` may also reject for a later block of a child's chain, which the
  pushed list holds (`blocktree_child_roots`), and `CheckNext` for a clock that
  went back. Callers name blocks whose write has cached their head (`Known`).
  The scan for a key is one `Seek` per chain.
- *Bytes.* A byte has `Base` values instead of 256, and sizes shrink with it, so
  that every limit is a few blocks away: with 8, a prefix of two bytes counts to
  63. The block types of 128 and above are numbered on from 5. A key pair is one
  buffer.
- *Broker.* `readers` is the answer of the key seeks of `SecureBlocktree`, free
  to change between any two awaits.

## 3. Runs

| run | question | instance |
|---|---|---|
| `blockchain_sequential` | Is layer 1 a linear ledger, and are its caches exact, if callers await each call? | 1 call, 4 blocks, 2 times |
| `blockchain_concurrent` | What holds whatever calls interleave? | 2 calls, 3 blocks, 2 times |
| `blockchain_options` | Do the caches stay sound, and does every call end, if callers switch validation and caching off? | 2 calls, 2 blocks, all options |
| `blocktree` | Is a child scan exact, if callers await each call? What holds whatever calls interleave? | 1 call with validation, 1 that may switch it off, 2 calls with it; 3 blocks |
| `secure_sequential` | Was every stored block authorised by the key entries before it? | 1 call, 5 blocks, all types, 2 keys, 2 nonces, 2 times |
| `secure_concurrent` | What holds of the tree and of permissions whatever calls interleave? | 2 calls, 4 blocks, 5 types, 2 keys |
| `secure_reads` | Do the scans find what they should, do revoked keys stop granting, does every call end? | 1 call, from a tree of 5 blocks to 8, 3 keys |
| `storage` | Does every block read back, or fail to be written without a trace? Is a scan atomic? | 2 calls, 23 blocks to choose from, 2 slots of 64 bytes |
| `trusted_read` | Is a token good for one re-encryption only? | 2 reads, 2 keys, 2 tokens |
| `blockchain_fork`, `blocktree_child_roots`, `storage_records` | What the repository says, and the code does not do (section 6) | the smallest instance that shows it |

**Bounds.** `MaxBlocks` bounds the storage; a write past it is rejected as
`full`, which stands for a storage that refuses. Three blocks let two calls
race for one successor on top of an existing chain, and fork it, or one append to
a block whose writer has not yet cached its root and its head.
Five blocks in layer 3 are a root, a zone, two key entries (a grant and its
revocation, or two grants in conflict) and a block signed with the key. Two
times tell "not older" from "older", and let a key expire between two calls (its
window is closed at 2 or open until `Forever`). Two calls are enough for every
property here to be broken by a mutant that drops its check. `secure_reads`
starts from a tree that five calls of `SecureBlocktree` build (a root, a zone, a
key that the root key grants, a zone below, a key that this key grants); three
more blocks are enough to revoke a key anywhere, grant it again or grant in a
circle, and then use it. The blocks of `storage` have fields of length 0, at the
limit of their size and one past it, and values of 61 to 64 bytes for slots that
take 62 and prefixes that count to 63. Deadlock is checked
in every run. Calls, keys and tokens are symmetric where no liveness is checked.

**Sequential and concurrent properties.** One call at a time is how the
repository's tests use the code. Properties that hold only then, like `NoFork`
(part of `LinearRefinement`), `NextCacheExact`, `ChildScanExact`, `SingleRoot`,
`SiblingNoncesDiffer` and `SignersActive`, are checked in the `_sequential` runs,
and in `blocktree` in the states where one call is all there is (`Sequential`).
Those of the `_concurrent` runs hold whatever interleaves.
With the in-memory storage and cache some of the overlaps of the concurrent runs
need several turns of the event loop to line up; with a storage that does I/O
they need only time. A property that holds here holds for both.

**Fairness.** `blockchain_options` and `secure_reads` need it: weak fairness of
`Continue` per call. An `await` on the in-memory storage or cache always
settles, and node's event loop runs every continuation that is ready, so a call
that can continue does. No fairness is assumed of callers, so a call need never
start. Without bounds on the storage a scan of the hash table may follow writers
for ever; no liveness of it is claimed.

## 4. Proofs

TLAPS checks every proof, for arbitrary constants that satisfy the assumption of
the module: any number of calls, blocks, keys and times, any byte size.

| theorem | states | further assumption |
|---|---|---|
| `TypeCorrect`, `NextCacheIsSound`, `RootCacheIsExact`, `HeadCacheStaysInChain` | the types and the cache properties of `blockchain_concurrent` | |
| `ImplementsForest`, `EveryStoredBlockValidates` | `Blockchain` implements `Ledger!ForestSpec`; every block validates | no `"noValidate"` |
| `OneCallerNeverForks`, `NextCacheIsExact`, `CachedHeadIsLast`, `AppendsAreAccepted`, `CachedHeadOnlyAdvances`, `ImplementsLinear` | the properties of `blockchain_sequential`; `Blockchain` implements `Ledger!LinearSpec` | `OneCaller` |
| `BlocktreeTypeCorrect`, `ChildCacheIsSound`, `EveryTreeBlockValidates`, `ChildScansAreExact` | all properties of `blocktree` | |
| `SecureTypeCorrect`, `TreeKeepsShape`, `SignersAreGranted` | all properties of `secure_concurrent` | |
| `OneRootPerTree`, `NoncesAreNew`, `SignersAreActive` | all properties of `secure_sequential` | `OneCaller` |
| `KeySeeksAreExact`, `SecretSeeksAreExact` | the scans of `secure_reads` find what they should | |
| `GrantersAllDerive` | `GrantersDerive` of `secure_reads` | `OneCaller` |
| `StorageTypeCorrect`, `KeysAreTheTable`, `CutBlocksAreUnread`, `ScansAreAtomic`, `ValuesReadBack`, `BlocksReadBack` | the properties of `storage` but one, and that bytes read back | |
| `SignaturesStillVerify` | `SignaturesVerify` of `storage` | `SignersSign` |
| `TrustedReadTypeCorrect`, `TokensReleaseOnce`, `ReleasesReachTokenKey` | all properties of `trusted_read` | |

**Assumptions.** `OneCaller` says that there is one call in progress at a time;
in layer 1 also that it uses the default options. This is what the
`_sequential` runs assume, and what `blockchain_fork` shows to be needed. No
`"noValidate"` means that no caller passes `validate: false`; without validation
`prev` may be missing. `Blocktree` has both in its state instead (`env`,
`Sequential`, `Validated`), so its theorems need neither. `StorageAssumption`
says of `Blocks` that each has the fields of its type: any sizes, in and out of
the limits. Of data that are encrypted on the way it says what `crypto.js` draws
itself (`Random`): an iv of `IvSize`, and an encrypted key whose length fits its
two bytes, as an RSA block's does; and that they are encrypted for some key.
`SignersSign` says that a block has no signature, or one that `signBlock` made
for the parent and the prev it is stored with: `validateSignature`
(`signatures.js:33`) has verified it for these before the block is written. The
signed blocks of the runs are made so (`Signed` in `MCStorage`). That there is
one block at a time behind a hash is part of the model (`WriteStorage` is given
a new one).

**Walks.** `getRootBlock`, `validateBlockchain`, `performParentScan` and the key
scans are recursive functions over the stored blocks. `LinksBack` is the
invariant that makes them well defined: every link goes to an earlier block.
`WalkExists` (`LeastNumber`) then gives the function, by the least
counterexample instead of induction over an operator, and each module has a
lemma with one step of its recursion (`RootInStep`, `RootStep`, ...). As blocks
are only appended and never change, what a walk found stays what it finds
(`WalksStable` and its like); the proofs speak of walks in a storage `s`
(`RootIn(s, b)`), so that the storage before a step and after it are two
instances of one lemma. The folds of the encoders are treated the same way
(`FoldExists`, `SetFoldExists`). `Encoding` defines powers by recursion because
the provers know nothing of `^` with a variable base.

**Inductive invariants.**

- *Layer 1, whatever interleaves* (`BlockchainProofs`). `TypeInv` adds to
  `TypeOK` what the local variables hold at each value of `pc`; `TypeOK` alone
  is not inductive, since a cache fill could then write anything. `CallInv`: a
  call about to cache n as successor of b holds a stored n with `prev` = b, and
  a writer past its checks has a sequence number and a timestamp that fit the
  stored `prev`. Both survive the steps of other calls (`CallOKStable`).
- *Roots* (`BlockchainProofs`). `RootInv`: cached roots are those of a walk,
  cached heads are in their chain, and a call that carries a root or a head
  between two awaits carries a right one, whether it came from a cached entry of
  `prev` or from a walk.
- *One caller* (`BlockchainSequentialProofs`). The caches are wrong while a call
  is between its store and its cache writes, so `SeqInv` says what they will be
  when the call is done: `NextCached` and `HeadCached` describe the cache up to
  the entries that the call has still to write (`NextPending`, `HeadPending`),
  and `Alone` what the call has found out that no one can change meanwhile (the
  block it appends to is the last one).
- *Layer 2* (`BlocktreeProofs`). `Inv`: links go back, cached and carried
  children name their parent, and a validating call between layer 1's check and
  its store still has a stored `prev` and `parent`. `SeqInv` compares the cached
  list, with the push that is still to come (`Expected`), with a scan.
- *Layer 3, whatever interleaves* (`SecureBlocktreeProofs`). `Inv`: `ShapeIn` and
  `SignersIn` are the properties themselves, for a storage; `Placed` and
  `Granted` in `CallOK` are what a call has checked of the place and of the key
  of its block, and keeps true until the block is stored, because chains only
  grow and entries are never removed.
- *Layer 3, one caller.* `SeqOK`: the cached head, or the block about to be
  published, is the last of its chain (`IsLastOf`, `HeadNow`). With it the scan
  for the signer's key misses no entry, so `Active` (the newest entry about the
  key was in its window) holds from the seek to the store.
- *Scans of layer 3* (`SecureReadsProofs`). These follow from `Inv` of layer 3.
  The loop carries the set of keys that newer entries have hidden, so its result
  is a function of that set: `ChainScanFinds` shows, block by block from the
  oldest, that for every such set it returns the newest entry about the key if
  that one is active, and nothing otherwise. `ScanFinds` does the same for the
  recursion over the parents. `KeySeekExact` and `SecretSeekExact` are the case
  of no key hidden yet.
- *Grants* (`SecureReadsProofs`). `GrantersDerive` is not inductive: a call may
  be about to store the key it was allowed to grant. `DeriveInv` adds what each
  call has found out. While `validateParentKey` walks up, all that is known of
  the key it looks for next is that the signer derives if that key does
  (`Granter`); when the walk ends, at a key that nobody granted, the signer
  derives. "Derives" is stated by closed sets of keys instead of a fixpoint, so
  the proof needs no induction over a chain of grants. With a second caller a
  key may be revoked between the walk and the store, hence `OneCaller`.
- *Storage* (`StorageProofs`). `TableInv`: every slot is the length and the value
  of the block that was written, as far as it takes them; `Seen`: a scan holds
  what the list has before its place. Every encoder is shown to return bytes
  (`EncodeBytes` and the lemmas before it), a length of two bytes to read back
  (`LengthReadsBack`), and the `prev` of a block to read back also from a cut
  value (`PrevReadsBack`), which the scan for a successor relies on.
- *Reading back* (`StorageProofs`). `Holds(buf, i, v)` says that the bytes `v`
  stand in `buf` from place `i`. Each decoder has a lemma of one form: if the
  bytes that the encoder makes of a value stand at its place, it returns that
  value and the place behind them. `IntReads` has the digits of a number by
  division, `OptionsReads` runs the loop of the decoder against the loop of the
  encoder, and `BlockDecodes` puts the fields of a block together. A shift by a
  digit of the key is undone modulo `Base` (`ShiftBack`), so `DecryptsBack`
  gives the data that were encrypted. `BlocksReadBack` needs no invariant but
  that of the storage; `SignaturesStillVerify` also reads the signer's key back
  from the middle of a signature (`SignatureReads`).
- *Broker* (`TrustedReadProofs`). A call between spending a token and using it
  owns that token: the token is spent, for the call's key (`OwnsToken`), and no
  other call has it, nor a release (`OwnsTokenAlone`).

**Only model-checked.** `EveryCallReturns`, because liveness under fairness is
out of the prover's reach; `secure_reads` and `blockchain_options` check it.
Every safety property of a passing run has a theorem. The three properties of
section 6 have none: they do not hold.

## 5. Not modelled

- `httpBroker.js`: a client of a service outside the repository, with no state of
  its own. It takes a `signedToken`, while `performTrustedRead` passes `token`
  and `sig`; what the service makes of that is not known.
- `event.js` and event capture: listeners are started by the command line only.
- `cli.js`, `commands.js`, `index.js`: terminal input and output over reads.
- RSA, AES, signatures and hashes, and the hash table itself, are node's or a
  library's: maps that do what the code relies on.
- In `convert.js`, the 32-bit conversions and the buffer branches of `fromInt16`
  and `fromByte`: nothing calls them. `fromInt64` returns a buffer as it is, which
  every write uses for its nonce (`blockchain.js:50`); the nonce of the model is
  the number of that buffer. In `crypto.js`, key generation.
- `secureCache`'s `name` entries (`blockTypes.js:226`): nothing reads them.
- `hashTableStorage` without `valueSize`: `readStorage` then allocates `undefined`
  bytes and every read throws.

## 6. Findings

Each is a run that TLC ends with a trace.

- `blockchain_fork`: two `writeBlock` calls with one `prev` both find no
  successor and both store. `test/blockchain/writeBlock.js:76` expects a refusal.
- `blocktree_child_roots`: the cached list of children holds the later blocks of
  child chains as well; `docs/blocktree.md:8` promises their root blocks.
- `storage_records`: the map of serializers has no entry for records
  (`serialization/blockTypes/index.js:7`), so the data `addRecord` is given
  become a null byte, also when they are encrypted. `blockTypes.js:142` and
  `docs/secure-blocktree.md:12` say that collections hold record data.

The fork needs two calls in flight, the others one. The same check-then-act is in
`createRoot` (`blocks.js:31` says "there can only be one root key in the system")
and in the nonce check (`blocks.js:41`, "make sure nonce values are only used
once"): `SingleRoot` and `SiblingNoncesDiffer` hold in `secure_sequential` and
fail in an instance with two calls.

Two smaller disagreements were met while modelling and have no run. The root
block takes any number of zones (`StartChild`, `blocks.js:134`), while
`docs/secure-blocktree.md:19` calls the root zone its only child block. And
`createZone` tests `Buffer.compare(block, rootBlock)` the wrong way round
(`CacheZone`, `blockTypes.js:249`): the cached root zone is never the zone under
the root block, but the last zone created elsewhere. Nothing reads that entry.

## 7. Plan

Done: the three layers, the broker, the hash-table storage, serialization and
encryption as bytes; proofs of every safety property of the passing runs. The
order followed importance: layer 1 first, since all others store through it.

Next: layer 1 over a storage that cuts long values (what a scan for a successor
finds there), and trusted reads over the key entries of a tree instead of
`readers`.
