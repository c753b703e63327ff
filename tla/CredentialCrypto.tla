-------------------------- MODULE CredentialCrypto --------------------------
(***************************************************************************)
(* Credentials and presentations as terms.  A signature is its payload and *)
(* the key pair that made it; a digest is the term it was taken of; a      *)
(* disclosure is the claim it discloses.  The operators are the methods of *)
(* CredentialCryptoService; what the SD-JWT library does for them is marked*)
(* external.                                                               *)
(*   packages/crypto/src/credential-crypto-service.ts                      *)
(***************************************************************************)
CONSTANT None

Signed(payload, key) == [payload |-> payload, key |-> key]
SignedBy(jws, key) == jws.key = key

HolderBinding(audience, nonce, issuedAt) ==
    [aud |-> audience, nonce |-> nonce, iat |-> issuedAt]

\* The compact form: the signed digests, the disclosures, the key binding.
SdJwt(jwt, disclosures, kb) == [jwt |-> jwt, disclosures |-> disclosures, kb |-> kb]

\* The key binding hashes what it is appended to.
SdHash(jwt, disclosures) == [jwt |-> jwt, disclosures |-> disclosures]

SdJwtCredential(claims, holderKey, issuerKey) ==
    SdJwt(Signed([cnf |-> holderKey, sd |-> claims], issuerKey), claims, None)

CreatePresentation(sdJwt, frame, holderKey, binding) ==
    LET shown == sdJwt.disclosures \cap frame
        kb == Signed([binding |-> binding, sdHash |-> SdHash(sdJwt.jwt, shown)], holderKey)
    IN  SdJwt(sdJwt.jwt, shown, IF binding = None THEN None ELSE kb)

\* Mutant: the nonce is not compared.
KbVerifiesAnyNonce(kb, payload, binding, holderKey) ==
    /\ binding # None
    /\ kb.payload.binding.aud = binding.aud
    /\ kb.payload.binding.iat = binding.iat
    /\ payload.cnf = holderKey
    /\ SignedBy(kb, holderKey)

\* The binding asked for, a credential bound to this holder, his signature.
KbVerifies(kb, payload, binding, holderKey) ==
    /\ binding # None
    /\ kb.payload.binding = binding
    /\ payload.cnf = holderKey
    /\ SignedBy(kb, holderKey)

VerifyPresentation(p, issuerKey, holderKey, binding, requireHolderBinding) ==
    /\ SignedBy(p.jwt, issuerKey)
    /\ p.disclosures \subseteq p.jwt.payload.sd
    /\ requireHolderBinding =>
          /\ p.kb # None
          /\ KbVerifies(p.kb, p.jwt.payload, binding, holderKey)
          /\ p.kb.payload.sdHash = SdHash(p.jwt, p.disclosures)

PresentationClaims(p) == p.disclosures
=============================================================================
