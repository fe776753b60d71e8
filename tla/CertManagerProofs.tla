------------------------ MODULE CertManagerProofs ------------------------
(***************************************************************************)
(* Theorems about CertManager, for any configuration and any number of     *)
(* crashes, failing writes and replacements.                               *)
(***************************************************************************)
EXTENDS CertManager, TLAPS

\* Keys on disk and in hand were generated before.
KeyInv ==
    /\ leafCrt.key \in 0..fresh /\ got.key \in 0..fresh
    /\ pc \in {"print", "swap"} => got.key # 0

\* What Refresh knows to be served at each place it may return from.
ServedInv ==
    /\ pc \in {"trust", "update", "return"} => cur.key # 0
    /\ ret = "ok" => cur.key # 0

\* A private key of the CA is never on disk without its certificate. Generation
\* writes the certificate first, and starts only when there is no key.
CAInv ==
    /\ caKey # 0 => caCrt = caKey
    /\ pc = "caCrt" => caKey = 0
    /\ pc = "caKey" => caKey = 0 /\ caCrt = signer

IInv == TypeOK /\ KeyInv /\ ServedInv /\ CAInv

LEMMA Bounds ==
  /\ CustomPairs \in BOOLEAN /\ Fallback \in BOOLEAN /\ AutoTrust \in BOOLEAN
  /\ ACMEEnabled \in BOOLEAN
  /\ MaxFaults \in Nat
  BY CertAssumption

ServedCerts == [from: {"none", "custom", "self"}, key: Nat, issuer: Int]

\* The values that stand for nothing.
LEMMA Nothing ==
  /\ NoCert \in ServedCerts /\ NoCert.key = 0 /\ NoCert.from = "none"
  /\ NoPrint \in Prints /\ NoPrint.from = "none"
  /\ NoLeaf \in Certs /\ NoLeaf.key = 0
  BY DEF NoCert, NoPrint, NoLeaf, ServedCerts, Prints, Certs

LEMMA PrintType ==
  ASSUME NEW from \in {"file", "self"}, NEW crt \in Nat, NEW key \in Nat
  PROVE  Fingerprint(from, crt, key) \in Prints /\ Fingerprint(from, crt, key).from = from
<1>1. CASE crt = 0 \/ key = 0
  <2>1. Fingerprint(from, crt, key) = [from |-> from, crt |-> 0, key |-> 0]
    BY <1>1 DEF Fingerprint
  <2> QED
    BY <2>1 DEF Prints
<1>2. CASE ~(crt = 0 \/ key = 0)
  <2>1. Fingerprint(from, crt, key) = [from |-> from, crt |-> crt, key |-> key]
    BY <1>2 DEF Fingerprint
  <2> QED
    BY <2>1 DEF Prints
<1> QED
  BY <1>1, <1>2

LEMMA Initially == Init => IInv
<1> SUFFICES ASSUME Init PROVE IInv
  OBVIOUS
<1>1. TypeOK
  <2>1. {cusCrt, cusKey, caCrt, caKey, leafKey} \subseteq 0..fresh
    BY DEF Init
  <2>2. {store, bundle, trustedCA, certMap, ca, signer, pending} \subseteq 0..fresh
    BY DEF Init
  <2>3. cfgOK \in BOOLEAN /\ failed \in BOOLEAN
    BY Bounds, Zenon DEF Init
  <2> QED
    BY <2>1, <2>2, <2>3, Bounds, Nothing DEF Init, TypeOK, ServedCerts, Steps
<1>2. KeyInv /\ ServedInv /\ CAInv
  BY DEF Init, KeyInv, ServedInv, CAInv, NoLeaf
<1> QED
  BY <1>1, <1>2 DEF IInv

-----------------------------------------------------------------------------
(* CAInv: only generation, its failures and a crash touch the CA's files.  *)

LEMMA CAStep == CAInv /\ [Next]_vars => CAInv'
<1> SUFFICES ASSUME CAInv, [Next]_vars PROVE CAInv'
  OBVIOUS
<1> USE DEF CAInv, caFiles, locals
<1>1. CASE LoadEntries \/ Resolve \/ LoadCustom
  BY <1>1 DEF LoadEntries, Resolve, LoadCustom, AfterCustom, Returns
<1>2. CASE LoadCA
  BY <1>2 DEF LoadCA, CAUsable
<1>3. CASE WriteCACrt \/ WriteCAKey
  BY <1>3 DEF WriteCACrt, WriteCAKey, SelfFails
<1>4. CASE LoadLeaf \/ WriteLeafCrt \/ WriteLeafKey \/ ReloadLeaf \/ PrintLeaf
  BY <1>4 DEF LoadLeaf, WriteLeafCrt, WriteLeafKey, ReloadLeaf, PrintLeaf, SelfFails
<1>5. CASE SwapSelf \/ TrustKnown \/ CopyCA \/ UpdateBundle \/ TrustFails
  BY <1>5 DEF SwapSelf, TrustKnown, CopyCA, UpdateBundle, TrustFails, AfterSelf
<1>6. CASE ReturnSelf \/ Finish
  BY <1>6 DEF ReturnSelf, Finish, Returns
<1>7. CASE WriteFails
  BY <1>7 DEF WriteFails, TruncatesTarget, FillsTarget, SelfFails
<1>8. CASE Crash
  BY <1>8 DEF Crash, TruncatesTarget
<1>9. CASE RotateCustom \/ EditConfig \/ RotateLeaf \/ ToolFinishes \/ UNCHANGED vars
  BY <1>9 DEF RotateCustom, EditConfig, RotateLeaf, ToolFinishes, vars
<1> QED
  BY <1>1, <1>2, <1>3, <1>4, <1>5, <1>6, <1>7, <1>8, <1>9 DEF Next, Refresh, Disturbance

-----------------------------------------------------------------------------
(* The rest, action by action.                                             *)

LEMMA Step ==
  ASSUME IInv, [Next]_vars
  PROVE  TypeOK' /\ KeyInv' /\ ServedInv'
<1> DEFINE Goal == TypeOK' /\ KeyInv' /\ ServedInv'
<1> SUFFICES Goal
  OBVIOUS
<1> USE Bounds DEF IInv, TypeOK, KeyInv, ServedInv, custom, caFiles, leafFiles, system, served,
          locals, outside, Certs, Prints, Steps
<1>1. CASE LoadEntries
  BY <1>1 DEF LoadEntries, AfterCustom, CustomOK, PairOK
<1>2. CASE Resolve
  <2>1. CASE ~cfgOK
    BY <1>2, <2>1 DEF Resolve, AfterCustom
  <2>2. CASE cfgOK
    <3>1. fp' = Fingerprint("file", cusCrt, cusKey)
      BY <1>2, <2>2 DEF Resolve
    <3>2. fp' \in Prints /\ fp'.from = "file"
      <4>1. cusCrt \in Nat /\ cusKey \in Nat /\ "file" \in {"file", "self"}
        OBVIOUS
      <4> HIDE DEF IInv, TypeOK, KeyInv, ServedInv, Prints
      <4> QED
        BY <3>1, <4>1, PrintType, Zenon
    <3>3. CASE fp' = loadedAt
      <4>1. cur.key # 0
        BY <3>2, <3>3
      <4> QED
        BY <1>2, <2>2, <3>2, <3>3, <4>1 DEF Resolve, Returns
    <3>4. CASE fp' # loadedAt
      BY <1>2, <2>2, <3>2, <3>4 DEF Resolve
    <3> QED
      BY <3>3, <3>4
  <2> QED
    BY <2>1, <2>2
<1>3. CASE LoadCustom
  <2>1. CASE CustomOK
    <3>1. cur' = [from |-> "custom", key |-> cusCrt, issuer |-> Public] /\ cusCrt # 0
      BY <1>3, <2>1 DEF LoadCustom, CustomOK, PairOK
    <3>2. cur' \in ServedCerts /\ cur'.key # 0 /\ cur'.from = "custom"
      BY <3>1 DEF ServedCerts, Public
    <3> QED
      BY <1>3, <2>1, <3>2 DEF LoadCustom, Returns, ServedCerts
  <2>2. CASE ~CustomOK
    BY <1>3, <2>2 DEF LoadCustom, AfterCustom
  <2> QED
    BY <2>1, <2>2
<1>4. CASE LoadCA
  BY <1>4 DEF LoadCA, CAUsable
<1>5. CASE WriteCACrt \/ WriteCAKey
  <2>1. CASE WriteCACrt
    BY <2>1 DEF WriteCACrt
  <2>2. CASE WriteCAKey
    <3>1. failed' \in BOOLEAN /\ pc' \in {"leaf", "finish"}
      BY <2>2 DEF WriteCAKey, SelfFails
    <3>2. caKey' = signer /\ ca' = caCrt
      BY <2>2 DEF WriteCAKey
    <3>3. UNCHANGED <<custom, caCrt, leafFiles, system, served, trustedCA, fp, signer, got, ret,
                      outside, fresh, faults>>
      BY <2>2 DEF WriteCAKey
    <3> QED
      BY <3>1, <3>2, <3>3
  <2> QED
    BY <1>5, <2>1, <2>2
<1>6. CASE LoadLeaf
  <2>1. CASE LeafOK(ca)
    BY <1>6, <2>1 DEF LoadLeaf, LeafOK, PairOK
  <2>2. CASE ~LeafOK(ca) /\ signer = ca
    <3>1. got' = [key |-> fresh + 1, issuer |-> ca] /\ fresh' = fresh + 1
      BY <1>6, <2>2 DEF LoadLeaf
    <3>2. got' \in Certs /\ got'.key = fresh'
      BY <3>1
    <3> QED
      BY <1>6, <2>2, <3>1, <3>2 DEF LoadLeaf
  <2>3. CASE ~LeafOK(ca) /\ signer # ca
    <3>1. /\ SelfFails
          /\ UNCHANGED <<got, fresh, custom, caFiles, leafFiles, system, served, trustedCA, fp, ca,
                         signer, ret, outside, faults>>
      BY <1>6, <2>3, Zenon DEF LoadLeaf
    <3> QED
      BY <3>1 DEF SelfFails
  <2> QED
    BY <2>1, <2>2, <2>3
<1>7. CASE WriteLeafCrt \/ WriteLeafKey
  BY <1>7 DEF WriteLeafCrt, WriteLeafKey
<1>8. CASE ReloadLeaf
  <2>1. CASE PairOK(leafCrt.key, leafKey)
    BY <1>8, <2>1 DEF ReloadLeaf, PairOK
  <2>2. CASE ~PairOK(leafCrt.key, leafKey)
    BY <1>8, <2>2 DEF ReloadLeaf, SelfFails
  <2> QED
    BY <2>1, <2>2
<1>9. CASE PrintLeaf
  BY <1>9 DEF PrintLeaf, Fingerprint
<1>10. CASE SwapSelf
  BY <1>10 DEF SwapSelf, AfterSelf
<1>11. CASE TrustKnown \/ CopyCA \/ UpdateBundle
  BY <1>11 DEF TrustKnown, CopyCA, UpdateBundle, AfterSelf
<1>12. CASE TrustFails
  BY <1>12 DEF TrustFails, AfterSelf, Disturbs
<1>13. CASE ReturnSelf \/ Finish
  BY <1>13 DEF ReturnSelf, Finish, Returns
<1>14. CASE WriteFails
  BY <1>14 DEF WriteFails, TruncatesTarget, FillsTarget, SelfFails, Disturbs, NoLeaf
<1>15. CASE Crash
  <2>1. {cusCrt, cusKey, caCrt, caKey, leafKey}' \subseteq 0..fresh'
    BY <1>15 DEF Crash, TruncatesTarget
  <2>2. leafCrt' \in Certs /\ leafCrt'.key \in 0..fresh'
    BY <1>15, Nothing DEF Crash, TruncatesTarget
  <2>3. faults' \in 0..MaxFaults
    BY <1>15 DEF Crash, Disturbs
  <2>4. {store, bundle, trustedCA, certMap, ca, signer, pending}' \subseteq 0..fresh'
    BY <1>15 DEF Crash
  <2>5. /\ cur' \in ServedCerts /\ cur'.key = 0 /\ cur'.from = "none"
        /\ loadedAt' \in Prints /\ loadedAt'.from = "none" /\ fp' \in Prints
        /\ got' \in Certs /\ got'.key = 0
    BY <1>15, Nothing, Zenon DEF Crash
  <2>6. cfgOK' \in BOOLEAN /\ failed' \in BOOLEAN
    BY <1>15, Zenon DEF Crash
  <2>7. TypeOK'
    BY <1>15, <2>1, <2>2, <2>3, <2>4, <2>5, <2>6 DEF Crash, ServedCerts
  <2>8. KeyInv' /\ ServedInv'
    BY <1>15, <2>2, <2>5 DEF Crash
  <2> QED
    BY <2>7, <2>8
<1>16. CASE RotateCustom
  BY <1>16 DEF RotateCustom, Disturbs
<1>20. CASE EditConfig
  <2>1. cfgOK' \in BOOLEAN
    BY <1>20, Zenon DEF EditConfig
  <2>2. faults' \in 0..MaxFaults
    BY <1>20 DEF EditConfig, Disturbs
  <2> QED
    BY <1>20, <2>1, <2>2 DEF EditConfig
<1>17. CASE RotateLeaf
  BY <1>17 DEF RotateLeaf, Disturbs, Public
<1>18. CASE ToolFinishes
  BY <1>18 DEF ToolFinishes
<1>19. CASE UNCHANGED vars
  BY <1>19 DEF vars
<1> QED
  BY <1>1, <1>2, <1>3, <1>4, <1>5, <1>6, <1>7, <1>8, <1>9, <1>10, <1>11, <1>12, <1>13,
     <1>14, <1>15, <1>16, <1>17, <1>18, <1>19, <1>20
  DEF Next, Refresh, Disturbance

LEMMA Inductive == IInv /\ [Next]_vars => IInv'
  BY Step, CAStep DEF IInv

LEMMA Always == Spec => []IInv
  BY Initially, Inductive, PTL DEF Spec

-----------------------------------------------------------------------------
\* Every variable of the manager stays in its domain, and the fingerprint of a
\* certificate is recorded only with a certificate to serve.
THEOREM ManagerTypes == Spec => []TypeOK
  BY Always, PTL DEF IInv

\* When Manager.Refresh returns no error there is a certificate to serve.
THEOREM SuccessMeansServing == Spec => []NilMeansServing
<1>1. IInv => NilMeansServing
  BY DEF IInv, ServedInv, NilMeansServing
<1> QED
  BY <1>1, Always, PTL

\* loadOrCreateLocalCA never leaves a certificate with the key of another,
\* however writes fail and wherever the process ends.
THEOREM CAFilesTheorem == Spec => []CAFilesMatch
<1>1. IInv => CAFilesMatch
  BY DEF IInv, CAInv, CAFilesMatch, CAUsable
<1> QED
  BY <1>1, Always, PTL

\* A usable local CA is never replaced: not by Refresh, a failing write or a crash.
THEOREM CAKeptTheorem == Spec => TrustedCAKept
<1>1. ASSUME CAInv, CAUsable, [Next]_vars PROVE UNCHANGED caFiles
  <2> USE <1>1 DEF CAInv, CAUsable, caFiles, leafFiles
  <2>1. CASE LoadEntries \/ Resolve \/ LoadCustom \/ LoadCA
    BY <2>1 DEF LoadEntries, Resolve, LoadCustom, LoadCA
  <2>2. CASE WriteCACrt \/ WriteCAKey
    BY <2>2 DEF WriteCACrt, WriteCAKey
  <2>3. CASE LoadLeaf \/ WriteLeafCrt \/ WriteLeafKey \/ ReloadLeaf \/ PrintLeaf
    BY <2>3 DEF LoadLeaf, WriteLeafCrt, WriteLeafKey, ReloadLeaf, PrintLeaf
  <2>4. CASE SwapSelf \/ TrustKnown \/ CopyCA \/ UpdateBundle \/ TrustFails \/ ReturnSelf \/ Finish
    BY <2>4 DEF SwapSelf, TrustKnown, CopyCA, UpdateBundle, TrustFails, ReturnSelf, Finish
  <2>5. CASE WriteFails \/ Crash
    BY <2>5 DEF WriteFails, Crash, TruncatesTarget, FillsTarget
  <2>6. CASE RotateCustom \/ EditConfig \/ RotateLeaf \/ ToolFinishes \/ UNCHANGED vars
    BY <2>6 DEF RotateCustom, EditConfig, RotateLeaf, ToolFinishes, vars
  <2> QED
    BY <1>1, <2>1, <2>2, <2>3, <2>4, <2>5, <2>6 DEF Next, Refresh, Disturbance
<1>2. IInv /\ [Next]_vars => [CAUsable => UNCHANGED caFiles]_vars
  BY <1>1 DEF IInv
<1> QED
  BY <1>2, Always, PTL DEF Spec, TrustedCAKept

-----------------------------------------------------------------------------
(* What the recorded fingerprint says of the pair that is served.          *)

\* Strengthening of MarkNotAhead: a fingerprint of the configured pair is taken before the
\* pair is loaded, and certificates on disk only get newer; the fallback's is its own.
MarkInv ==
    /\ MarkNotAhead
    /\ pc = "load" => fp.crt <= cusCrt
    /\ pc = "swap" => fp.from = "self"

LEMMA MarkStep ==
  ASSUME TypeOK, MarkInv, [Next]_vars
  PROVE  MarkInv'
<1>1. cusCrt \in Nat /\ cusKey \in Nat /\ fresh \in Nat /\ cusCrt <= fresh
  BY DEF TypeOK
<1>2. fp.crt \in Nat /\ loadedAt.crt \in Nat /\ cur.key \in Nat
  BY DEF TypeOK, Prints
<1>3. cusCrt' \in Nat /\ cusCrt <= cusCrt'
  <2>1. CASE RotateCustom
    BY <1>1, <2>1 DEF RotateCustom
  <2>2. CASE ~RotateCustom
    <3>1. UNCHANGED cusCrt
      BY <2>2 DEF Next, Refresh, Disturbance, LoadEntries, Resolve, LoadCustom, LoadCA,
         WriteCACrt, WriteCAKey, LoadLeaf, WriteLeafCrt, WriteLeafKey, ReloadLeaf, PrintLeaf,
         SwapSelf, TrustKnown, CopyCA, UpdateBundle, TrustFails, ReturnSelf, Finish, WriteFails,
         Crash, EditConfig, RotateLeaf, ToolFinishes, custom, vars
    <3> QED
      BY <1>1, <3>1
  <2> QED
    BY <2>1, <2>2
<1>4. ASSUME UNCHANGED <<cur, loadedAt>> PROVE MarkNotAhead'
  BY <1>4 DEF MarkInv, MarkNotAhead
<1>5. CASE Resolve
  <2>1. MarkNotAhead'
    BY <1>4, <1>5 DEF Resolve, served
  <2>2. pc' = "load" => fp' = Fingerprint("file", cusCrt, cusKey) /\ cusCrt' = cusCrt
    BY <1>5 DEF Resolve, AfterCustom, Returns, custom
  <2>3. Fingerprint("file", cusCrt, cusKey).crt <= cusCrt
    BY <1>1, SMT DEF Fingerprint
  <2>4. pc' # "swap"
    BY <1>5 DEF Resolve, AfterCustom, Returns
  <2> QED
    BY <2>1, <2>2, <2>3, <2>4 DEF MarkInv
<1>6. CASE LoadCustom
  <2>1. pc' \notin {"load", "swap"}
    BY <1>6 DEF LoadCustom, AfterCustom, Returns
  <2>2. CASE CustomOK
    <3>1. pc = "load" /\ loadedAt' = fp /\ cur' = [from |-> "custom", key |-> cusCrt, issuer |-> Public]
      BY <1>6, <2>2 DEF LoadCustom
    <3>2. cur'.from = "custom" /\ cur'.key = cusCrt
      BY <3>1
    <3> QED
      BY <2>1, <3>1, <3>2 DEF MarkInv, MarkNotAhead
  <2>3. CASE ~CustomOK
    BY <1>4, <1>6, <2>1, <2>3 DEF LoadCustom, MarkInv
  <2> QED
    BY <2>2, <2>3
<1>7. CASE SwapSelf
  <2>1. pc = "swap" /\ pc' \notin {"load", "swap"}
    BY <1>7 DEF SwapSelf, AfterSelf
  <2>2. UNCHANGED <<cur, loadedAt>> \/ loadedAt' = fp
    BY <1>7 DEF SwapSelf
  <2> QED
    BY <1>4, <2>1, <2>2 DEF MarkInv, MarkNotAhead
<1>8. CASE Crash
  BY <1>8 DEF Crash, MarkInv, MarkNotAhead, NoPrint
<1>9. CASE PrintLeaf
  <2>1. pc' = "swap" /\ fp' = Fingerprint("self", leafCrt.key, leafKey)
    BY <1>9 DEF PrintLeaf
  <2>2. fp'.from = "self"
    BY <2>1 DEF Fingerprint
  <2> QED
    BY <1>4, <1>9, <2>1, <2>2 DEF PrintLeaf, MarkInv, served
<1>10. CASE LoadEntries \/ LoadCA \/ WriteCACrt \/ WriteCAKey \/ LoadLeaf \/ WriteLeafCrt
            \/ WriteLeafKey \/ ReloadLeaf \/ TrustKnown \/ CopyCA \/ UpdateBundle
            \/ TrustFails \/ ReturnSelf \/ Finish \/ WriteFails
  <2>1. UNCHANGED <<cur, loadedAt>> /\ pc' \notin {"load", "swap"}
    BY <1>10 DEF LoadEntries, LoadCA, WriteCACrt, WriteCAKey, LoadLeaf, WriteLeafCrt,
       WriteLeafKey, ReloadLeaf, TrustKnown, CopyCA, UpdateBundle, TrustFails, ReturnSelf, Finish,
       WriteFails, AfterCustom, AfterSelf, SelfFails, Returns, served
  <2> QED
    BY <1>4, <2>1 DEF MarkInv
<1>11. CASE RotateCustom \/ EditConfig \/ RotateLeaf \/ ToolFinishes \/ UNCHANGED vars
  <2>1. UNCHANGED <<cur, loadedAt, pc, fp>>
    BY <1>11 DEF RotateCustom, EditConfig, RotateLeaf, ToolFinishes, served, locals, vars
  <2> QED
    BY <1>2, <1>1, <1>3, <1>4, <2>1 DEF MarkInv
<1> QED
  BY <1>5, <1>6, <1>7, <1>8, <1>9, <1>10, <1>11 DEF Next, Refresh, Disturbance

\* A fingerprint recorded for the configured pair is that of the pair being served, or of
\* an older one: Refresh returns early only when there is nothing newer to load.
THEOREM MarkTheorem == Spec => []MarkNotAhead
<1>1. Init => MarkInv
  BY DEF Init, MarkInv, MarkNotAhead, NoPrint
<1>2. TypeOK /\ MarkInv /\ [Next]_vars => MarkInv'
  BY MarkStep
<1>3. MarkInv => MarkNotAhead
  BY DEF MarkInv
<1> QED
  BY <1>1, <1>2, <1>3, ManagerTypes, PTL DEF Spec
=============================================================================
