----------------------------- MODULE SecureReads -----------------------------
(***************************************************************************)
(* The scans of layer 3 for keys and for secrets (keys.js, secrets.js), as *)
(* the loops they are, and the keys that every permission derives from.    *)
(***************************************************************************)
EXTENDS SecureBlocktree, SequencesExt

(***************************************************************************)
(* performKeyScan and performSecretScan with isActive: from the head of a  *)
(* chain back, an entry that is not active hides the older ones about the  *)
(* same key, and the scan ends at the first entry it lists about the key   *)
(* it looks for.  A key scan takes the entries for one action, a secret    *)
(* scan those of every secret.  What a scan returns from a block on is a   *)
(* function of the keys that newer entries have hidden.                    *)
(***************************************************************************)
KeySets == SUBSET (Keys \cup {NoKey})
Nothing == [result |-> <<>>, found |-> FALSE]

(* Mutant: an entry that is not active is skipped, and hides nothing. *)
HiddenNever(hidden, g, now) == IF IsKeyActive(g, now) THEN {} ELSE {g.key}

Hidden(hidden, g, now) == IF IsKeyActive(g, now) THEN hidden ELSE hidden \cup {g.key}

(* Entry n, with what the scan returns from the older blocks.              *)
Look(n, key, hidden, older) ==
    LET g == blocks[n].grant IN
    CASE g.key \in hidden -> older[hidden]
      [] g.key \notin hidden /\ g.key = key -> [result |-> <<n>>, found |-> TRUE]
      [] OTHER -> [older[hidden] EXCEPT !.result = <<n>> \o @]

ChainScan(head, types, actions, key, now) ==
    LET scan[n \in DOMAIN blocks] ==
            LET k == blocks[n]
                older == IF k.prev = 0 THEN [hidden \in KeySets |-> Nothing] ELSE scan[k.prev]
            IN  [hidden \in KeySets |->
                    IF k.type \in types /\ k.grant.action \in actions
                    THEN Look(n, key, Hidden(hidden, k.grant, now), older) ELSE older[hidden]]
    IN  scan[head][{}]

(* With isRecursive, the scan goes on at the head of the parent's chain.   *)
Scan(b, types, actions, key, now) ==
    LET scan[n \in Known] ==
            LET here == ChainScan(headCache[RootOf(n)], types, actions, key, now)
                up   == blocks[RootOf(n)].parent
            IN  IF here.found \/ up = 0 THEN here.result ELSE here.result \o scan[up]
    IN  scan[b]

(* performKeySeek and performSecretSeek: the last entry of the scan, if it *)
(* is about the key.                                                       *)
Seeked(result, key) ==
    IF result # <<>> /\ blocks[Last(result)].grant.key = key THEN Last(result) ELSE 0

KeySeek(b, key, action, now) ==
    Seeked(Scan(b, {"root", "key"}, {action, "*"}, key, now), key)

(* Mutant: a reference is looked for among the keys as well. *)
SecretSeekAnyType(b, ref, now) ==
    Seeked(Scan(b, {"key", "secret"}, {"r", "w", "*"}, ref, now), ref)

SecretSeek(b, ref, now) == Seeked(Scan(b, {"secret"}, {"r", "w", "*"}, ref, now), ref)

(***************************************************************************)
(* Every call that can continue does: an await settles, and the event loop *)
(* runs what is ready.                                                     *)
(***************************************************************************)
Fairness == \A c \in Calls : WF_vars(Continue(c))

(***************************************************************************)
(* What the seeks should find: in the nearest chain, at or above b, whose  *)
(* newest entry about the key is active, that entry.                       *)
(***************************************************************************)
NearestActive(b, EntriesOf(_), now) ==
    LET active == {r \in Above(b) :
                      LET entries == EntriesOf(r) IN
                      entries # {} /\ IsKeyActive(blocks[Max(entries)].grant, now)}
    IN  IF active = {} THEN 0 ELSE Max(EntriesOf(Max(active)))

SecretEntries(head, ref) ==
    {n \in ChainBehind(head) : blocks[n].type = "secret" /\ blocks[n].grant.key = ref}

(* The write entries at or above the place of b, of the blocks before it,  *)
(* that are the newest about their key in their chain and active; and the  *)
(* keys that derive over them from no key: those in every set that holds   *)
(* NoKey and, with the signer of an entry, the key the entry is about.     *)
ActiveBefore(b) ==
    LET above == Above(blocks[b].prev)
        entries == {e \in 1 .. b - 1 :
                       /\ blocks[e].type \in {"root", "key"} /\ blocks[e].grant.action \in {"w", "*"}
                       /\ RootOf(e) \in above}
    IN  {e \in entries :
            /\ EverActive(e)
            /\ \A n \in entries : n > e /\ RootOf(n) = RootOf(e) =>
                   blocks[n].grant.key # blocks[e].grant.key}

Derives(b, key) ==
    LET active == ActiveBefore(b) IN
    \A derived \in KeySets :
        /\ NoKey \in derived
        /\ \A e \in active : blocks[e].signer \in derived => blocks[e].grant.key \in derived
        => key \in derived

(***************************************************************************)
(* Properties.  A scan from a block starts at the head of its chain, so it *)
(* is the same for every block of a chain.  The seeks hold whatever calls  *)
(* interleave; GrantersDerive is a property of callers that await each     *)
(* call before they make the next.                                         *)
(***************************************************************************)
KnownRoots == {b \in Known : blocks[b].prev = 0}

(* The key seek finds the nearest active entry about its key, whatever was *)
(* granted, revoked and granted again in the chains it crosses: an entry   *)
(* that is not active hides older ones, in its own chain only, and entries *)
(* about other keys do not end the scan.                                   *)
KeySeekExact ==
    \A b \in KnownRoots, key \in Keys, action \in {"r", "w"}, now \in Times :
        LET EntriesOf(r) == KeyEntries(headCache[r], key, action) IN
        KeySeek(b, key, action, now) = NearestActive(b, EntriesOf, now)

(* The secret seek finds the nearest active secret of its reference, among *)
(* keys and secrets of other references.                                   *)
SecretSeekExact ==
    \A b \in KnownRoots, ref \in {g.key : g \in Secrets}, now \in Times :
        LET EntriesOf(r) == SecretEntries(headCache[r], ref) IN
        SecretSeek(b, ref, now) = NearestActive(b, EntriesOf, now)

(* A key that grants a key derives, over keys that were all still active,  *)
(* from one that nobody granted: once a key is revoked, the keys it granted*)
(* grant no further key.                                                   *)
GrantersDerive ==
    \A b \in DOMAIN blocks :
        blocks[b].type = "key" /\ blocks[b].parent # 0 => Derives(b, blocks[b].signer)

(* Every call ends: keys may grant each other in a circle, but each step   *)
(* of validateParentKey looks one level further up.                        *)
EveryCallReturns == \A c \in Calls : ~At(c, "idle") ~> At(c, "idle")
=============================================================================
