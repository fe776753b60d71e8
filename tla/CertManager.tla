--------------------------- MODULE CertManager ---------------------------
(***************************************************************************)
(* cert.Manager: Refresh (internal/cert/cert.go), run by the main          *)
(* goroutine at start and on every poll, over files that other programs    *)
(* rewrite while it reads them; and the local CA it generates and signs    *)
(* with (internal/cert/localca.go), whose files survive a crash.           *)
(*                                                                         *)
(* A key pair is a number, a certificate the number of its key with that   *)
(* of its issuer's. 0 stands for a file that is missing or truncated. One  *)
(* LoadX509KeyPair or one fingerprint is a step, and so is one writePEM.   *)
(***************************************************************************)
EXTENDS Integers

CONSTANTS
    CustomPairs,    \* cfg.CertConfigPath names a file of certificates
    Fallback,       \* cfg.FallbackSelf
    AutoTrust,      \* cfg.AutoTrustLocalCA
    ACMEEnabled,    \* cfg.ACME.Enabled
    LeafIssuers,    \* who signs pairs other tools put at selfsigned.crt/.key
    MaxFaults       \* bound on rotations, edits, crashes and failing calls

Public == -1        \* the issuer of a certificate that certbot obtained

ASSUME CertAssumption ==
    /\ {CustomPairs, Fallback, AutoTrust, ACMEEnabled} \subseteq BOOLEAN
    /\ LeafIssuers \subseteq {"local", "public"}
    /\ MaxFaults \in Nat

VARIABLES
    cfgOK,      \* the certificate list parses and has an entry for the host
    cusCrt, cusKey,     \* the custom pair
    caCrt, caKey,       \* local-ca.crt and local-ca.key
    leafCrt, leafKey,   \* selfsigned.crt and selfsigned.key
    store,      \* CA copied into the system's certificate directory
    bundle,     \* CA that the system really trusts
    cur,        \* Manager.cur
    certMap,    \* Manager.certMap, its only entry
    loadedAt,   \* Manager.loadedAt
    trustedCA,  \* Manager.trustedCA
    pc, failed, \* where Refresh is, and whether lastErr is set
    fp,         \* the fingerprint it computed
    ca, signer, \* the CA it signs with: certificate and private key
    got,        \* the leaf it loaded or created
    ret,        \* what the last Refresh returned
    tool,       \* what another program is in the middle of replacing
    pending,    \* the private key it will write
    fresh,      \* last key pair generated
    faults

custom == <<cfgOK, cusCrt, cusKey>>
caFiles == <<caCrt, caKey>>
leafFiles == <<leafCrt, leafKey>>
system == <<store, bundle>>
served == <<cur, certMap, loadedAt>>
locals == <<pc, failed, fp, ca, signer, got, ret>>
outside == <<tool, pending>>
vars == <<custom, caFiles, leafFiles, system, served, trustedCA, locals, outside, fresh, faults>>

NoCert == [from |-> "none", key |-> 0, issuer |-> 0]
NoPrint == [from |-> "none", crt |-> 0, key |-> 0]
NoLeaf == [key |-> 0, issuer |-> 0]

\* LoadX509KeyPair succeeds on a certificate and key file.
PairOK(crt, key) == crt # 0 /\ crt = key
CustomOK == PairOK(cusCrt, cusKey)

\* Mutant: the fingerprint is the path.
PrintOfPath(from, crt, key) == [from |-> from, crt |-> 0, key |-> 0]

\* certFingerprint: content and times of both files, the path if one is missing.
Fingerprint(from, crt, key) ==
    IF crt = 0 \/ key = 0 THEN [from |-> from, crt |-> 0, key |-> 0]
    ELSE [from |-> from, crt |-> crt, key |-> key]

Disturbs == faults < MaxFaults /\ faults' = faults + 1
Returns(r) == ret' = r /\ pc' = "idle" /\ failed' = FALSE

-----------------------------------------------------------------------------
(* Refresh: the configured pair.                                           *)

AfterCustom == IF Fallback THEN "ca" ELSE "finish"

\* loadAllCertEntries: an unreadable or empty list keeps the map, one without an
\* entry for the host empties it, and an unreadable pair drops out of it.
LoadEntries ==
    /\ pc = "idle"
    /\ IF CustomPairs
       THEN /\ certMap' \in IF cfgOK THEN {IF CustomOK THEN cusCrt ELSE 0} ELSE {certMap, 0}
            /\ pc' = "resolve"
       ELSE pc' = AfterCustom /\ UNCHANGED certMap
    /\ ret' = "running"
    /\ UNCHANGED <<custom, caFiles, leafFiles, system, cur, loadedAt, trustedCA,
                   failed, fp, ca, signer, got, outside, fresh, faults>>

Resolve ==
    /\ pc = "resolve"
    /\ IF ~cfgOK
       THEN failed' = TRUE /\ pc' = AfterCustom /\ UNCHANGED <<fp, ret>>
       ELSE /\ fp' = Fingerprint("file", cusCrt, cusKey)
            /\ IF fp' = loadedAt THEN Returns("ok")
               ELSE pc' = "load" /\ UNCHANGED <<ret, failed>>
    /\ UNCHANGED <<custom, caFiles, leafFiles, system, served, trustedCA, ca, signer, got,
                   outside, fresh, faults>>

\* Mutant: the fingerprint is recorded before the pair is loaded.
LoadCustomMarksFirst ==
    /\ pc = "load"
    /\ loadedAt' = fp
    /\ IF CustomOK
       THEN /\ cur' = [from |-> "custom", key |-> cusCrt, issuer |-> Public]
            /\ Returns("ok")
       ELSE failed' = TRUE /\ pc' = AfterCustom /\ UNCHANGED <<cur, ret>>
    /\ UNCHANGED <<custom, caFiles, leafFiles, system, certMap, trustedCA, fp, ca, signer, got,
                   outside, fresh, faults>>

LoadCustom ==
    /\ pc = "load"
    /\ IF CustomOK
       THEN /\ cur' = [from |-> "custom", key |-> cusCrt, issuer |-> Public]
            /\ loadedAt' = fp
            /\ Returns("ok")
       ELSE failed' = TRUE /\ pc' = AfterCustom /\ UNCHANGED <<cur, loadedAt, ret>>
    /\ UNCHANGED <<custom, caFiles, leafFiles, system, certMap, trustedCA, fp, ca, signer, got,
                   outside, fresh, faults>>

-----------------------------------------------------------------------------
(* Refresh: the fallback, loadOrCreateLocalSignedCertificate.              *)

AfterSelf == IF ACMEEnabled THEN "finish" ELSE "return"
SelfFails == failed' = TRUE /\ pc' = "finish"

\* Mutant: a private key that does not parse is not noticed.
CAReadable == caCrt # 0

\* loadOrCreateLocalCA reuses what it finds if both files parse and the
\* certificate is signed with its own key.
CAUsable == caCrt # 0 /\ caKey # 0

LeafOK(issuer) == PairOK(leafCrt.key, leafKey) /\ leafCrt.issuer = issuer

\* Mutant: a leaf that cannot be used renews the CA as well.
LoadCAWithLeaf ==
    /\ pc = "ca"
    /\ IF CAUsable /\ LeafOK(caCrt)
       THEN ca' = caCrt /\ signer' = caKey /\ pc' = "leaf" /\ UNCHANGED fresh
       ELSE ca' = 0 /\ signer' = fresh + 1 /\ fresh' = fresh + 1 /\ pc' = "caCrt"
    /\ UNCHANGED <<custom, caFiles, leafFiles, system, served, trustedCA, failed, fp, got, ret,
                   outside, faults>>

LoadCA ==
    /\ pc = "ca"
    /\ IF CAUsable
       THEN ca' = caCrt /\ signer' = caKey /\ pc' = "leaf" /\ UNCHANGED fresh
       ELSE ca' = 0 /\ signer' = fresh + 1 /\ fresh' = fresh + 1 /\ pc' = "caCrt"
    /\ UNCHANGED <<custom, caFiles, leafFiles, system, served, trustedCA, failed, fp, got, ret,
                   outside, faults>>

\* Mutant: a CA certificate that parses is kept although its key is lost.
WriteCACrtOnce ==
    /\ pc = "caCrt"
    /\ caCrt' = (IF caCrt = 0 THEN signer ELSE caCrt) /\ pc' = "caKey"
    /\ UNCHANGED <<custom, caKey, leafFiles, system, served, trustedCA, failed, fp, ca, signer,
                   got, ret, outside, fresh, faults>>

WriteCACrt ==
    /\ pc = "caCrt"
    /\ caCrt' = signer /\ pc' = "caKey"
    /\ UNCHANGED <<custom, caKey, leafFiles, system, served, trustedCA, failed, fp, ca, signer,
                   got, ret, outside, fresh, faults>>

\* The certificate is parsed again from its file.
WriteCAKey ==
    /\ pc = "caKey"
    /\ caKey' = signer
    /\ ca' = caCrt
    /\ IF caCrt # 0 THEN pc' = "leaf" /\ UNCHANGED failed ELSE SelfFails
    /\ UNCHANGED <<custom, caCrt, leafFiles, system, served, trustedCA, fp, signer, got, ret,
                   outside, fresh, faults>>

\* A pair signed by this CA is reused, whoever wrote it. Any other is replaced,
\* which CreateCertificate refuses when the CA's key is not its certificate's.
LoadLeaf ==
    /\ pc = "leaf"
    /\ \/ /\ LeafOK(ca)
          /\ got' = leafCrt /\ pc' = "print" /\ UNCHANGED <<fresh, failed>>
       \/ /\ ~LeafOK(ca) /\ signer = ca
          /\ fresh' = fresh + 1 /\ got' = [key |-> fresh + 1, issuer |-> ca]
          /\ pc' = "leafCrt" /\ UNCHANGED failed
       \/ /\ ~LeafOK(ca) /\ signer # ca
          /\ SelfFails /\ UNCHANGED <<got, fresh>>
    /\ UNCHANGED <<custom, caFiles, leafFiles, system, served, trustedCA, fp, ca, signer, ret,
                   outside, faults>>

WriteLeafCrt ==
    /\ pc = "leafCrt"
    /\ leafCrt' = got /\ pc' = "leafKey"
    /\ UNCHANGED <<custom, caFiles, leafKey, system, served, trustedCA, failed, fp, ca, signer,
                   got, ret, outside, fresh, faults>>

WriteLeafKey ==
    /\ pc = "leafKey"
    /\ leafKey' = got.key /\ pc' = "reload"
    /\ UNCHANGED <<custom, caFiles, leafCrt, system, served, trustedCA, failed, fp, ca, signer,
                   got, ret, outside, fresh, faults>>

ReloadLeaf ==
    /\ pc = "reload"
    /\ IF PairOK(leafCrt.key, leafKey)
       THEN got' = leafCrt /\ pc' = "print" /\ UNCHANGED failed
       ELSE SelfFails /\ UNCHANGED got
    /\ UNCHANGED <<custom, caFiles, leafFiles, system, served, trustedCA, fp, ca, signer, ret,
                   outside, fresh, faults>>

\* Refresh fingerprints the files after it loaded them.
PrintLeaf ==
    /\ pc = "print"
    /\ fp' = Fingerprint("self", leafCrt.key, leafKey) /\ pc' = "swap"
    /\ UNCHANGED <<custom, caFiles, leafFiles, system, served, trustedCA, failed, ca, signer,
                   got, ret, outside, fresh, faults>>

SwapSelf ==
    /\ pc = "swap"
    /\ IF fp # loadedAt \/ cur.key = 0
       THEN /\ cur' = [from |-> "self", key |-> got.key, issuer |-> got.issuer]
            /\ loadedAt' = fp
       ELSE UNCHANGED <<cur, loadedAt>>
    /\ pc' = IF AutoTrust THEN "trust" ELSE AfterSelf
    /\ UNCHANGED <<custom, caFiles, leafFiles, system, certMap, trustedCA, failed, fp, ca, signer,
                   got, ret, outside, fresh, faults>>

-----------------------------------------------------------------------------
(* ensureLocalCATrusted, and the end of Refresh.                           *)

\* Already recorded, or found in the system's directory by the probe.
TrustKnown ==
    /\ pc = "trust" /\ caCrt # 0 /\ caCrt \in {trustedCA, store}
    /\ trustedCA' = caCrt
    /\ pc' = AfterSelf
    /\ UNCHANGED <<custom, caFiles, leafFiles, system, served, failed, fp, ca, signer, got, ret,
                   outside, fresh, faults>>

\* installLocalCATrust: the copy, then update-ca-certificates.
CopyCA ==
    /\ pc = "trust" /\ caCrt # 0 /\ caCrt \notin {trustedCA, store}
    /\ store' = caCrt
    /\ pc' = "update"
    /\ UNCHANGED <<custom, caFiles, leafFiles, bundle, served, trustedCA, failed, fp, ca, signer,
                   got, ret, outside, fresh, faults>>

UpdateBundle ==
    /\ pc = "update"
    /\ bundle' = store /\ trustedCA' = store
    /\ pc' = AfterSelf
    /\ UNCHANGED <<custom, caFiles, leafFiles, store, served, failed, fp, ca, signer, got, ret,
                   outside, fresh, faults>>

\* The CA file is gone, or a half of the installation failed.
TrustFails ==
    /\ \/ pc = "trust" /\ caCrt = 0 /\ UNCHANGED faults
       \/ /\ pc = "update" \/ (pc = "trust" /\ caCrt \notin {trustedCA, store})
          /\ Disturbs
    /\ failed' = TRUE
    /\ pc' = AfterSelf
    /\ UNCHANGED <<custom, caFiles, leafFiles, system, served, trustedCA, fp, ca, signer, got, ret,
                   outside, fresh>>

ReturnSelf ==
    /\ pc = "return"
    /\ Returns(IF failed THEN "err" ELSE "ok")
    /\ UNCHANGED <<custom, caFiles, leafFiles, system, served, trustedCA, fp, ca, signer, got,
                   outside, fresh, faults>>

\* Errors are swallowed while there is a certificate to serve.
Finish ==
    /\ pc = "finish"
    /\ Returns(IF cur.key # 0 THEN "ok" ELSE "err")
    /\ UNCHANGED <<custom, caFiles, leafFiles, system, served, trustedCA, fp, ca, signer, got,
                   outside, fresh, faults>>

-----------------------------------------------------------------------------
(* Failures: a writePEM that fails or is cut short, and the end of the     *)
(* process. OpenFile truncates, so the file is lost either way; if it is   *)
(* OpenFile that fails the old file stays, if it is Close the new one may. *)

TruncatesTarget ==
    /\ caCrt' = IF pc = "caCrt" THEN 0 ELSE caCrt
    /\ caKey' = IF pc = "caKey" THEN 0 ELSE caKey
    /\ leafCrt' = IF pc = "leafCrt" THEN NoLeaf ELSE leafCrt
    /\ leafKey' = IF pc = "leafKey" THEN 0 ELSE leafKey

FillsTarget ==
    /\ caCrt' = IF pc = "caCrt" THEN signer ELSE caCrt
    /\ caKey' = IF pc = "caKey" THEN signer ELSE caKey
    /\ leafCrt' = IF pc = "leafCrt" THEN got ELSE leafCrt
    /\ leafKey' = IF pc = "leafKey" THEN got.key ELSE leafKey

WriteFails ==
    /\ pc \in {"caCrt", "caKey", "leafCrt", "leafKey"}
    /\ Disturbs
    /\ TruncatesTarget \/ FillsTarget \/ UNCHANGED <<caFiles, leafFiles>>
    /\ SelfFails
    /\ UNCHANGED <<custom, system, served, trustedCA, fp, ca, signer, got, ret, outside, fresh>>

\* A restart runs Refresh from an empty Manager.
Crash ==
    /\ Disturbs
    /\ TruncatesTarget \/ UNCHANGED <<caFiles, leafFiles>>
    /\ cur' = NoCert /\ certMap' = 0 /\ loadedAt' = NoPrint /\ trustedCA' = 0
    /\ pc' = "idle" /\ failed' = FALSE /\ ret' = "running"
    /\ fp' = NoPrint /\ ca' = 0 /\ signer' = 0 /\ got' = NoLeaf
    /\ UNCHANGED <<custom, system, outside, fresh>>

-----------------------------------------------------------------------------
(* Other programs: an ACME client writes the certificate, then the key.    *)

RotateCustom ==
    /\ CustomPairs /\ tool = "none" /\ Disturbs
    /\ fresh' = fresh + 1 /\ cusCrt' = fresh' /\ pending' = fresh'
    /\ tool' = "custom"
    /\ UNCHANGED <<cfgOK, cusKey, caFiles, leafFiles, system, served, trustedCA, locals>>

EditConfig ==
    /\ CustomPairs /\ Disturbs
    /\ cfgOK' = ~cfgOK
    /\ UNCHANGED <<cusCrt, cusKey, caFiles, leafFiles, system, served, trustedCA, locals,
                   outside, fresh>>

RotateLeaf ==
    /\ tool = "none" /\ Disturbs
    /\ \E i \in LeafIssuers :
         /\ i = "local" => CAUsable /\ caCrt = caKey
         /\ leafCrt' = [key |-> fresh + 1, issuer |-> IF i = "local" THEN caCrt ELSE Public]
    /\ fresh' = fresh + 1 /\ pending' = fresh + 1
    /\ tool' = "leaf"
    /\ UNCHANGED <<custom, caFiles, leafKey, system, served, trustedCA, locals>>

ToolFinishes ==
    /\ tool # "none"
    /\ IF tool = "custom"
       THEN cusKey' = pending /\ UNCHANGED leafKey
       ELSE leafKey' = pending /\ UNCHANGED cusKey
    /\ tool' = "none" /\ pending' = 0
    /\ UNCHANGED <<cfgOK, cusCrt, caFiles, leafCrt, system, served, trustedCA, locals, fresh, faults>>

-----------------------------------------------------------------------------
Init ==
    /\ cfgOK = CustomPairs
    /\ cusCrt = (IF CustomPairs THEN 1 ELSE 0) /\ cusKey = cusCrt
    /\ caCrt = 0 /\ caKey = 0 /\ leafCrt = NoLeaf /\ leafKey = 0
    /\ store = 0 /\ bundle = 0
    /\ cur = NoCert /\ certMap = 0 /\ loadedAt = NoPrint /\ trustedCA = 0
    /\ pc = "idle" /\ failed = FALSE /\ ret = "running"
    /\ fp = NoPrint /\ ca = 0 /\ signer = 0 /\ got = NoLeaf
    /\ tool = "none" /\ pending = 0
    /\ fresh = 1 /\ faults = 0

Refresh ==
    \/ LoadEntries \/ Resolve \/ LoadCustom
    \/ LoadCA \/ WriteCACrt \/ WriteCAKey
    \/ LoadLeaf \/ WriteLeafCrt \/ WriteLeafKey \/ ReloadLeaf \/ PrintLeaf \/ SwapSelf
    \/ TrustKnown \/ CopyCA \/ UpdateBundle \/ TrustFails
    \/ ReturnSelf \/ Finish

Disturbance ==
    \/ WriteFails \/ Crash
    \/ RotateCustom \/ EditConfig \/ RotateLeaf

Next == Refresh \/ Disturbance \/ ToolFinishes

Spec == Init /\ [][Next]_vars

\* The poll loop calls Refresh again and again; a tool finishes what it began.
FairSpec == Spec /\ WF_vars(Refresh) /\ WF_vars(ToolFinishes)

-----------------------------------------------------------------------------
(* Properties.                                                             *)

Steps == {"idle", "resolve", "load", "ca", "caCrt", "caKey", "leaf", "leafCrt", "leafKey",
          "reload", "print", "swap", "trust", "update", "return", "finish"}
Certs == [key: Nat, issuer: Int]
Prints == [from: {"none", "file", "self"}, crt: Nat, key: Nat]

TypeOK ==
    /\ cfgOK \in BOOLEAN /\ failed \in BOOLEAN
    /\ {cusCrt, cusKey, caCrt, caKey, leafKey} \subseteq 0..fresh
    /\ {store, bundle, trustedCA, certMap, ca, signer, pending} \subseteq 0..fresh
    /\ leafCrt \in Certs /\ got \in Certs
    /\ cur \in [from: {"none", "custom", "self"}, key: Nat, issuer: Int]
    /\ loadedAt \in Prints /\ fp \in Prints
    /\ pc \in Steps /\ ret \in {"running", "ok", "err"}
    /\ tool \in {"none", "custom", "leaf"}
    /\ fresh \in Nat /\ faults \in 0..MaxFaults
    /\ cur.key = 0 <=> cur.from = "none"
    /\ loadedAt.from # "none" => cur.from # "none"

\* cert.go "Don't mask a total failure": when Refresh returns no error there is a
\* certificate to serve, whichever of its returns it took.
NilMeansServing == ret = "ok" => cur.key # 0

\* What lets the next Refresh return early: the recorded fingerprint is of a configured
\* pair that is being served, or of an older one, so that no rotation that races with the
\* load, and no load that fails, is taken for done.
MarkNotAhead ==
    loadedAt.from = "file" => cur.from = "custom" /\ loadedAt.crt <= cur.key

\* README "3-Tier Resilient Certificate Engine", its third tier: after any crash,
\* failing write or half-written pair, once no configured pair can be used the
\* fallback ends up serving the pair on disk, signed by the CA on disk.
ServesLeafOnDisk == cur.key # 0 /\ cur.key = leafKey /\ cur.issuer = leafCrt.issuer
FallbackRecovers ==
    <>[](pc = "idle" /\ ~(cfgOK /\ CustomOK) => ServesLeafOnDisk /\ LeafOK(caCrt))

\* The two files of the local CA never hold a valid certificate with the valid
\* key of another, however generation is cut short; the code would accept them,
\* and then fail to sign for ever.
CAFilesMatch == CAUsable => caCrt = caKey

\* CHANGELOG "Leaf rotation/reload does not require changing the trusted local
\* CA": a usable CA survives crashes, failing writes and any change of the leaf.
TrustedCAKept == [][CAUsable => UNCHANGED caFiles]_vars

\* CHANGELOG "in-place renewals take effect without a restart": once the files
\* are quiet and good, the pair on disk is served, by name and by default.
RotationApplied ==
    <>[](pc = "idle" /\ cfgOK /\ CustomOK
            => cur.from = "custom" /\ cur.key = cusCrt /\ certMap = cusCrt)

\* cert.go "an external rotation [...] would be served stale until process
\* restart": a pair signed by the local CA is served once it is on disk.
SelfPairServed == <>[](pc = "idle" => ServesLeafOnDisk)

\* cert_test.go "failed local CA installation must not be recorded as trusted".
TrustIsReal == trustedCA # 0 => bundle = trustedCA

=============================================================================
