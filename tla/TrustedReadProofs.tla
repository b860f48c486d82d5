-------------------------- MODULE TrustedReadProofs --------------------------
(***************************************************************************)
(* A token pays for one re-encryption, for any number of reads, keys and   *)
(* tokens.  The argument: a token is spent in the stretch that checks it,  *)
(* so a read that may re-encrypt owns its token alone, and a spent token   *)
(* never becomes ready again.                                              *)
(***************************************************************************)
EXTENDS TrustedRead, SequenceTheorems, TLAPS

(* A read that may re-encrypt has spent its token, for its own key. *)
OwnsToken ==
    \A c \in Calls : calls[c].pc = "reencrypt" =>
        tokens[calls[c].req.token] = [state |-> "spent", key |-> calls[c].req.trusted]

(* It has it alone, and nothing was re-encrypted for that token yet. *)
OwnsTokenAlone ==
    \A c \in Calls : calls[c].pc = "reencrypt" =>
        /\ \A d \in Calls : calls[d].pc = "reencrypt"
                            /\ calls[d].req.token = calls[c].req.token => c = d
        /\ \A i \in DOMAIN released : released[i].token # calls[c].req.token

(* A read in progress has a request. *)
Requested == \A c \in Calls : calls[c].pc # "idle" => calls[c].req \in Request

Inv == TypeOK /\ Requested /\ OwnsToken /\ OwnsTokenAlone
       /\ TokenReleasesOnce /\ ReleasedToTokenKey

LEMMA ReleasedTokens ==
    ASSUME TypeOK
    PROVE  \A i \in DOMAIN released : released[i].token \in Tokens
<1> TAKE i \in DOMAIN released
<1>1. released \in Seq(Release) /\ i \in 1 .. Len(released)
  BY DEF TypeOK
<1>2. released[i] \in Release
  BY <1>1, ElementOfSeq
<1> QED
  BY <1>2 DEF Release

(* What a step that leaves the tokens and the releases alone has to show:  *)
(* the read it moves is typed, and is not moved to the re-encryption.      *)
LEMMA MoveKeeps ==
    ASSUME Inv, NEW c \in Calls, NEW k \in Call,
           k.pc # "reencrypt", k.pc # "idle" => k.req \in Request,
           calls' = [calls EXCEPT ![c] = k],
           UNCHANGED <<readers, managed, tokens, released>>
    PROVE  Inv'
<1>1. TypeOK'
  BY DEF Inv, TypeOK
<1>2. \A d \in Calls : calls'[d] = IF d = c THEN k ELSE calls[d]
  BY DEF Inv, TypeOK
<1>3. Requested'
  BY <1>2 DEF Inv, Requested
<1>4. OwnsToken' /\ OwnsTokenAlone'
  BY <1>2 DEF Inv, OwnsToken, OwnsTokenAlone
<1>5. TokenReleasesOnce' /\ ReleasedToTokenKey'
  BY DEF Inv, TokenReleasesOnce, ReleasedToTokenKey
<1> QED
  BY <1>1, <1>3, <1>4, <1>5 DEF Inv

LEMMA EndKeeps ==
    ASSUME Inv, NEW c \in Calls, NEW e \in Errs, End(c, e),
           UNCHANGED <<readers, managed, tokens, released>>
    PROVE  Inv'
<1> DEFINE k == [pc |-> "idle", req |-> NoRequest, err |-> e]
<1>1. k \in Call
  BY DEF Call, PCs
<1>2. calls' = [calls EXCEPT ![c] = k]
  BY DEF End
<1>3. k.pc = "idle"
  OBVIOUS
<1> HIDE DEF k
<1> QED
  BY <1>1, <1>2, <1>3, MoveKeeps

LEMMA BeginKeeps ==
    ASSUME Inv, NEW c \in Calls, NEW pc \in PCs, pc # "reencrypt",
           NEW r \in Request, Begin(c, pc, r),
           UNCHANGED <<readers, managed, tokens, released>>
    PROVE  Inv'
<1> DEFINE k == [pc |-> pc, req |-> r, err |-> "none"]
<1>1. k \in Call /\ k.req \in Request /\ k.pc # "reencrypt"
  BY DEF Call, Errs
<1>2. calls' = [calls EXCEPT ![c] = k]
  BY DEF Begin
<1> HIDE DEF k
<1> QED
  BY <1>1, <1>2, MoveKeeps

LEMMA GotoKeeps ==
    ASSUME Inv, NEW c \in Calls, NEW pc \in PCs, pc # "reencrypt",
           calls[c].pc # "idle", Goto(c, pc),
           UNCHANGED <<readers, managed, tokens, released>>
    PROVE  Inv'
<1> DEFINE k == [calls[c] EXCEPT !.pc = pc]
<1>1. calls[c] \in Call
  BY DEF Inv, TypeOK
<1>2. k \in Call /\ k.pc = pc /\ k.req = calls[c].req
  BY <1>1 DEF Call
<1>3. k.req \in Request
  BY <1>2 DEF Inv, Requested
<1>4. calls' = [calls EXCEPT ![c] = k]
  BY <1>1 DEF Goto, Call
<1> HIDE DEF k
<1> QED
  BY <1>2, <1>3, <1>4, MoveKeeps

(* A token that becomes ready was absent, so no release and no read that   *)
(* may re-encrypt has it.                                                  *)
LEMMA GenerateKeeps ==
    ASSUME Inv, NEW t \in Tokens, NEW key \in Keys, GenerateRequestToken(t, key)
    PROVE  Inv'
<1>1. tokens[t].state = "absent" /\ UNCHANGED <<readers, managed, released, calls>>
  BY DEF GenerateRequestToken
<1>2. tokens' = [tokens EXCEPT ![t] = [state |-> "ready", key |-> key]]
  BY DEF GenerateRequestToken
<1>3. TypeOK'
  BY <1>1, <1>2 DEF Inv, TypeOK, Token
<1>4. \A u \in Tokens : tokens[u].state = "spent" => tokens'[u] = tokens[u]
  BY <1>1, <1>2 DEF Inv, TypeOK
<1>5. OwnsToken'
  <2> SUFFICES ASSUME NEW c \in Calls, calls[c].pc = "reencrypt"
               PROVE  tokens'[calls[c].req.token]
                        = [state |-> "spent", key |-> calls[c].req.trusted]
    BY <1>1 DEF OwnsToken
  <2>1. calls[c].req.token \in Tokens
    BY DEF Inv, Requested, Request
  <2> QED
    BY <2>1, <1>4 DEF Inv, OwnsToken
<1>6. ReleasedToTokenKey'
  <2>1. \A i \in DOMAIN released : released[i].token \in Tokens
    BY ReleasedTokens DEF Inv
  <2> QED
    BY <2>1, <1>1, <1>4 DEF Inv, ReleasedToTokenKey
<1> QED
  BY <1>1, <1>3, <1>5, <1>6 DEF Inv, Requested, OwnsTokenAlone, TokenReleasesOnce

(* The check spends the token: it was ready, so nobody else has it. *)
LEMMA CheckTokenKeeps ==
    ASSUME Inv, NEW c \in Calls, CheckToken(c)
    PROVE  Inv'
<1> DEFINE r == calls[c].req
<1>1. calls[c] \in Call /\ calls[c].pc = "checkToken"
  BY DEF CheckToken, At, Inv, TypeOK
<1>2. r \in Request
  BY <1>1 DEF Inv, Requested
<1>3. CASE ~TokenAccepted(r)
  BY <1>3, EndKeeps DEF CheckToken, Errs
<1>4. CASE TokenAccepted(r)
  <2>1. tokens[r.token] = [state |-> "ready", key |-> r.trusted] /\ r.token \in Tokens
    BY <1>2, <1>4 DEF TokenAccepted, Request
  <2>2. /\ tokens' = [tokens EXCEPT ![r.token].state = "spent"]
        /\ calls' = [calls EXCEPT ![c].pc = "reencrypt"]
        /\ UNCHANGED <<readers, managed, released>>
    BY <1>4 DEF CheckToken, Goto
  <2>3. tokens' = [tokens EXCEPT ![r.token] = [state |-> "spent", key |-> r.trusted]]
    <3>1. [tokens[r.token] EXCEPT !.state = "spent"] = [state |-> "spent", key |-> r.trusted]
      BY <2>1
    <3> QED
      BY <2>2, <3>1
  <2>4. /\ calls'[c].pc = "reencrypt" /\ calls'[c].req = r /\ calls'[c] \in Call
        /\ \A d \in Calls : d # c => calls'[d] = calls[d]
    BY <1>1, <2>2 DEF Inv, TypeOK, Call, PCs
  <2>5. TypeOK'
    <3>1. tokens' \in [Tokens -> Token]
      BY <1>2, <2>3 DEF Inv, TypeOK, Token, Request
    <3>2. calls' \in [Calls -> Call]
      BY <2>2, <2>4 DEF Inv, TypeOK
    <3> QED
      BY <3>1, <3>2, <2>2 DEF Inv, TypeOK
  <2>6. Requested'
    BY <1>2, <2>4 DEF Inv, Requested
  (* No other read, and no release, has the token: theirs are spent. *)
  <2>7. /\ \A d \in Calls : calls[d].pc = "reencrypt" => calls[d].req.token # r.token
        /\ \A i \in DOMAIN released : released[i].token # r.token
    <3>1. tokens[r.token].state # "spent"
      BY <2>1
    <3>2. ASSUME NEW d \in Calls, calls[d].pc = "reencrypt"
          PROVE  tokens[calls[d].req.token].state = "spent"
      <4>1. tokens[calls[d].req.token] = [state |-> "spent", key |-> calls[d].req.trusted]
        BY <3>2 DEF Inv, OwnsToken
      <4> QED
        BY <4>1
    <3>3. ASSUME NEW i \in DOMAIN released
          PROVE  tokens[released[i].token].state = "spent"
      <4>1. tokens[released[i].token] = [state |-> "spent", key |-> released[i].trusted]
        BY DEF Inv, ReleasedToTokenKey
      <4> QED
        BY <4>1
    <3>4. ASSUME NEW d \in Calls, calls[d].pc = "reencrypt", calls[d].req.token = r.token
          PROVE  FALSE
      BY <3>1, <3>2, <3>4
    <3>5. ASSUME NEW i \in DOMAIN released, released[i].token = r.token PROVE FALSE
      BY <3>1, <3>3, <3>5
    <3> QED
      BY <3>4, <3>5
  <2>8. \A u \in Tokens : u # r.token => tokens'[u] = tokens[u]
    BY <2>3 DEF Inv, TypeOK
  <2>9. tokens'[r.token] = [state |-> "spent", key |-> r.trusted]
    BY <2>1, <2>3 DEF Inv, TypeOK
  <2>10. OwnsToken'
    <3> SUFFICES ASSUME NEW d \in Calls, calls'[d].pc = "reencrypt"
                 PROVE  tokens'[calls'[d].req.token]
                          = [state |-> "spent", key |-> calls'[d].req.trusted]
      BY DEF OwnsToken
    <3>1. CASE d = c
      BY <3>1, <2>4, <2>9
    <3>2. CASE d # c
      <4>1. calls'[d] = calls[d] /\ calls[d].req.token \in Tokens
        BY <3>2, <2>4 DEF Inv, Requested, Request
      <4> QED
        BY <4>1, <2>7, <2>8 DEF Inv, OwnsToken
    <3> QED
      BY <3>1, <3>2
  <2>11. OwnsTokenAlone'
    <3> SUFFICES ASSUME NEW d \in Calls, calls'[d].pc = "reencrypt"
                 PROVE  /\ \A e \in Calls : calls'[e].pc = "reencrypt"
                               /\ calls'[e].req.token = calls'[d].req.token => d = e
                        /\ \A i \in DOMAIN released : released[i].token # calls'[d].req.token
      BY <2>2 DEF OwnsTokenAlone
    <3>1. CASE d = c
      BY <3>1, <2>4, <2>7
    <3>2. CASE d # c
      BY <3>2, <2>4, <2>7 DEF Inv, OwnsTokenAlone
    <3> QED
      BY <3>1, <3>2
  <2>12. ReleasedToTokenKey'
    <3>1. \A i \in DOMAIN released : released[i].token \in Tokens
      BY ReleasedTokens DEF Inv
    <3> QED
      BY <3>1, <2>2, <2>7, <2>8 DEF Inv, ReleasedToTokenKey
  <2> QED
    BY <2>2, <2>5, <2>6, <2>10, <2>11, <2>12 DEF Inv, TokenReleasesOnce
<1> QED
  BY <1>3, <1>4

(* The re-encryption uses up the token the read has alone. *)
LEMMA ReencryptKeeps ==
    ASSUME Inv, NEW c \in Calls, Reencrypt(c)
    PROVE  Inv'
<1> DEFINE r == calls[c].req
           rel == ReleasedAs(r)
<1>1. calls[c].pc = "reencrypt" /\ r \in Request
  BY DEF Reencrypt, At, Inv, Requested
<1>2. CASE UNCHANGED released
  BY <1>2, EndKeeps DEF Reencrypt, Errs
<1>3. CASE released' = Append(released, rel)
  <2>1. rel \in Release /\ rel.token = r.token /\ rel.trusted = r.trusted
    BY <1>1 DEF ReleasedAs, Request, Release
  <2> HIDE DEF rel
  <2>2. released \in Seq(Release)
    BY DEF Inv, TypeOK
  <2>3. /\ released' \in Seq(Release) /\ DOMAIN released' = 1 .. Len(released) + 1
        /\ released'[Len(released) + 1] = rel
        /\ \A i \in DOMAIN released : released'[i] = released[i]
        /\ DOMAIN released = 1 .. Len(released) /\ Len(released) \in Nat
    BY <1>3, <2>1, <2>2
  <2>4. UNCHANGED <<readers, managed, tokens>> /\ \E e \in Errs : End(c, e)
    BY DEF Reencrypt, Errs
  <2>5. /\ calls'[c].pc = "idle" /\ calls' \in [Calls -> Call]
        /\ \A d \in Calls : d # c => calls'[d] = calls[d]
    BY <2>4 DEF End, Inv, TypeOK, Call, PCs
  <2>6. TypeOK' /\ Requested'
    BY <2>3, <2>4, <2>5 DEF Inv, TypeOK, Requested
  <2>7. OwnsToken'
    BY <2>4, <2>5 DEF Inv, OwnsToken
  <2>8. OwnsTokenAlone'
    <3> SUFFICES ASSUME NEW d \in Calls, calls'[d].pc = "reencrypt"
                 PROVE  /\ \A e \in Calls : calls'[e].pc = "reencrypt"
                               /\ calls'[e].req.token = calls'[d].req.token => d = e
                        /\ \A i \in DOMAIN released' : released'[i].token # calls'[d].req.token
      BY DEF OwnsTokenAlone
    <3>1. d # c /\ calls'[d] = calls[d]
      BY <2>5
    <3>2. calls[d].req.token # r.token /\ \A i \in DOMAIN released : released[i].token # calls[d].req.token
      BY <1>1, <3>1 DEF Inv, OwnsTokenAlone
    <3>3. \A i \in DOMAIN released' : i \in DOMAIN released \/ i = Len(released) + 1
      BY <2>3
    <3>4. \A i \in DOMAIN released' : released'[i].token # calls'[d].req.token
      BY <2>1, <2>3, <3>1, <3>2, <3>3
    <3> QED
      BY <2>5, <3>1, <3>4 DEF Inv, OwnsTokenAlone
  <2>9. \A i \in DOMAIN released : released[i].token # r.token
    BY <1>1 DEF Inv, OwnsTokenAlone
  <2>10. TokenReleasesOnce'
    <3>1. \A i \in DOMAIN released' : i \in DOMAIN released \/ i = Len(released) + 1
      BY <2>3
    <3> QED
      BY <2>1, <2>3, <2>9, <3>1 DEF Inv, TokenReleasesOnce
  <2>11. ReleasedToTokenKey'
    <3>1. \A i \in DOMAIN released' : i \in DOMAIN released \/ i = Len(released) + 1
      BY <2>3
    <3>2. tokens[r.token] = [state |-> "spent", key |-> r.trusted]
      BY <1>1 DEF Inv, OwnsToken
    <3> QED
      BY <2>1, <2>3, <2>4, <3>1, <3>2 DEF Inv, ReleasedToTokenKey
  <2> QED
    BY <2>6, <2>7, <2>8, <2>10, <2>11 DEF Inv
<1> QED
  BY <1>2, <1>3 DEF Reencrypt

LEMMA EnterBuildKeeps ==
    ASSUME Inv, NEW c \in Calls, NEW r \in Request, EnterBuild(c, r)
    PROVE  Inv'
<1>1. BuildRefused(r) \in Errs /\ "checkToken" \in PCs
  BY DEF BuildRefused, Errs, PCs
<1> QED
  BY <1>1, EndKeeps, BeginKeeps DEF EnterBuild

LEMMA InitInv == Init => Inv
<1> SUFFICES ASSUME Init PROVE Inv
  OBVIOUS
<1>1. TypeOK
  BY DEF Init, TypeOK, Token, Call, PCs, Errs
<1>2. \A c \in Calls : calls[c].pc = "idle"
  BY DEF Init
<1>3. DOMAIN released = {}
  BY DEF Init
<1> QED
  BY <1>1, <1>2, <1>3 DEF Inv, Requested, OwnsToken, OwnsTokenAlone,
     TokenReleasesOnce, ReleasedToTokenKey

LEMMA NextInv == Inv /\ [Next]_vars => Inv'
<1> SUFFICES ASSUME Inv, [Next]_vars PROVE Inv'
  OBVIOUS
<1>1. CASE UNCHANGED vars
  BY <1>1 DEF vars, Inv, TypeOK, Requested, OwnsToken, OwnsTokenAlone,
     TokenReleasesOnce, ReleasedToTokenKey
<1>2. ASSUME NEW keys \in SUBSET Keys, SetReaders(keys) PROVE Inv'
  BY <1>2 DEF SetReaders, Inv, TypeOK, Requested, OwnsToken, OwnsTokenAlone,
     TokenReleasesOnce, ReleasedToTokenKey
<1>3. ASSUME NEW key \in Keys, AddAuthorizedKey(key) \/ RevokeAuthorizedKey(key)
      PROVE  Inv'
  BY <1>3 DEF AddAuthorizedKey, RevokeAuthorizedKey, Inv, TypeOK, Requested,
     OwnsToken, OwnsTokenAlone, TokenReleasesOnce, ReleasedToTokenKey
<1>4. ASSUME NEW t \in Tokens, NEW key \in Keys, GenerateRequestToken(t, key)
      PROVE  Inv'
  BY <1>4, GenerateKeeps
<1>5. ASSUME NEW c \in Calls, NEW r \in Request, StartRead(c, r) PROVE Inv'
  <2>1. r.signer \in Keys \cup {NoKey}
    BY DEF Request
  <2>2. \/ End(c, "notFound") \/ End(c, "doesNotMatch") \/ Begin(c, "seekTrusted", r)
    BY <1>5, <2>1 DEF StartRead
  <2>3. UNCHANGED <<readers, managed, tokens, released>>
    BY <1>5 DEF StartRead
  <2> QED
    BY <2>2, <2>3, EndKeeps, BeginKeeps DEF Errs, PCs
<1>6. ASSUME NEW c \in Calls, NEW r \in Request, StartBuild(c, r) PROVE Inv'
  BY <1>6, EnterBuildKeeps DEF StartBuild
<1>7. ASSUME NEW c \in Calls, SeekTrusted(c) PROVE Inv'
  BY <1>7, EndKeeps, GotoKeeps DEF SeekTrusted, At, Errs, PCs
<1>8. ASSUME NEW c \in Calls, SeekOwner(c) PROVE Inv'
  BY <1>8, EndKeeps, GotoKeeps DEF SeekOwner, At, Errs, PCs
<1>9. ASSUME NEW c \in Calls, Build(c) PROVE Inv'
  BY <1>9, EnterBuildKeeps DEF Build, At, Inv, Requested
<1>10. ASSUME NEW c \in Calls, CheckToken(c) PROVE Inv'
  BY <1>10, CheckTokenKeeps
<1>11. ASSUME NEW c \in Calls, Reencrypt(c) PROVE Inv'
  BY <1>11, ReencryptKeeps
<1> QED
  BY <1>1, <1>2, <1>3, <1>4, <1>5, <1>6, <1>7, <1>8, <1>9, <1>10, <1>11
     DEF Next, Administer, Read

(* Whatever reads are in flight and whatever is authorised or revoked      *)
(* meanwhile, no token pays for two re-encryptions (inMemoryBroker.js      *)
(* checks and spends it without an await in between).                      *)
THEOREM TokensReleaseOnce == Spec => []TokenReleasesOnce
<1>1. Inv => TokenReleasesOnce
  BY DEF Inv
<1> QED
  BY <1>1, InitInv, NextInv, PTL DEF Spec

(* Data is only ever re-encrypted for the key its token was made for. *)
THEOREM ReleasesReachTokenKey == Spec => []ReleasedToTokenKey
<1>1. Inv => ReleasedToTokenKey
  BY DEF Inv
<1> QED
  BY <1>1, InitInv, NextInv, PTL DEF Spec

(* Reads, builds and revocations in any order leave the broker well typed; *)
(* in particular only known tokens are spent and only known keys answered. *)
THEOREM TrustedReadTypeCorrect == Spec => []TypeOK
<1>1. Inv => TypeOK
  BY DEF Inv
<1> QED
  BY <1>1, InitInv, NextInv, PTL DEF Spec
=============================================================================
