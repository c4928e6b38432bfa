--------------------------- MODULE AccountExport ---------------------------
(***************************************************************************)
(* An account travels between devices in `.scexport` files: encrypt and    *)
(* decrypt (crypto.rs), the renaming of Apple's credentials on the way     *)
(* (frb_api.rs) and connect, which needs them all (service/registry.rs).   *)
(* Flutter hosts run this code; iOS writes and reads the same files with   *)
(* its own, in its past versions too; whether that knows the scope, the    *)
(* apps an export is restricted to, is open.                               *)
(*                                                                         *)
(* A file opens with the key it was sealed with.  Of a key only what it is *)
(* derived from is kept: the derivation, the password and the number of    *)
(* iterations.                                                             *)
(*                                                                         *)
(* A definition named D_Mistake, before D, is D with a plausible mistake.  *)
(***************************************************************************)
EXTENDS Naturals, FiniteSets, Functions

CONSTANTS
  Passwords,
  Iterations,         \* iteration counts iOS may write
  PBKDF2_ITERATIONS,  \* the count this code writes, and v2 implies
  Apps,               \* the apps an export may be restricted to
  MaxFiles            \* bound: files written

ASSUME ExportAssumption ==
  PBKDF2_ITERATIONS \in Iterations /\ MaxFiles \in Nat

VARIABLES
  oldIos,   \* the iOS build is one that does not know appsBundles
  origin,   \* the account as it was first entered, in iOS's form
  account,  \* account[d]: the account on device d
  files,    \* the files written so far
  outcome   \* the last import or connect, and what came of it
exportVars == <<oldIos, origin, account, files, outcome>>

Devices == {"ios", "flutter"}

\* Apple's credentials: the name on iOS, in the files, and in the schema
IosToSchema ==
  {<<"issuerID", "issuerId">>, <<"privateKeyID", "keyId">>, <<"privateKey", "privateKeyP8">>}
SchemaToIos == {<<p[2], p[1]>> : p \in IosToSchema}

\* a secret is told apart by the credential it is; an account may lack some
Credentials(keys) == [k \in keys |-> k]
AllOf(provider) ==
  IF provider = "apple" THEN {p[1] : p \in IosToSchema} ELSE {"serviceAccountJSON"}

\* the optional fields besides the scope; id and createdAt are made anew for
\* each file and left out
Extras == {"role", "rules", "expirationDate"}

\* scope: nothing, or one set of apps
NoAccount ==
  [name |-> "", provider |-> "", scope |-> {}, extras |-> {}, credentials |-> << >>]
Scopes == {{}} \cup {{S} : S \in SUBSET Apps}
Accounts ==
  UNION {[name : {"", "a name"}, provider : {p}, scope : Scopes, extras : {{}, Extras},
          credentials : {Credentials(K) : K \in SUBSET AllOf(p)}] : p \in {"apple", "firebase"}}

remap_OneOnly(source, mapping) ==
  LET p == CHOOSE q \in mapping : TRUE
      renamed(k) == IF p[1] = k THEN p[2] ELSE k
  IN [r \in {renamed(k) : k \in DOMAIN source} |->
        source[CHOOSE k \in DOMAIN source : renamed(k) = r]]

\* the name that a mapping gives to a key
NewName(mapping, k) ==
  IF \E p \in mapping : p[1] = k THEN (CHOOSE p \in mapping : p[1] = k)[2] ELSE k

remap(source, mapping) ==
  [r \in {NewName(mapping, k) : k \in DOMAIN source} |->
     source[CHOOSE k \in DOMAIN source : NewName(mapping, k) = r]]

Renamed(a, mapping) ==
  IF a.provider = "apple" THEN [a EXCEPT !.credentials = remap(@, mapping)]
  ELSE a

\* AccountExport, the struct that Dart sees, has no extras
NoExtras(a) == [a EXCEPT !.extras = {}]

KnownToIos(a) == IF oldIos THEN [a EXCEPT !.scope = {}] ELSE a

validate(payload) ==
  payload.name # "" /\ payload.provider # "" /\ payload.credentials # << >>

-----------------------------------------------------------------------------
Derived(derivation, password, iterations) ==
  [derivation |-> derivation, password |-> password, iterations |-> iterations]

Key_CountIgnored(version, password, header) ==
  CASE version = 1 -> Derived("HKDF", password, 0)
    [] version \in {2, 3} -> Derived("PBKDF2", password, PBKDF2_ITERATIONS)

\* header: the count in the header of a v3 file
Key(version, password, header) ==
  CASE version = 1 -> Derived("HKDF", password, 0)
    [] version = 2 -> Derived("PBKDF2", password, PBKDF2_ITERATIONS)
    [] version = 3 -> Derived("PBKDF2", password, header)

File(version, header, key, payload) ==
  [version |-> version, header |-> header, key |-> key, payload |-> payload]

ExportInit ==
  /\ oldIos \in BOOLEAN
  /\ origin = NoAccount
  /\ account = [d \in Devices |-> NoAccount]
  /\ files = {}
  /\ outcome = [of |-> "nothing", right |-> FALSE, version |-> 0, result |-> "none"]

\* the account is entered on a device, with what can be entered there
EnterAccount ==
  /\ origin = NoAccount
  /\ \E a \in Accounts, d \in Devices :
       /\ d = "ios" => a = KnownToIos(a)
       /\ d = "flutter" => a = NoExtras(a)
       /\ origin' = a
       /\ account' = [account EXCEPT ![d] = IF d = "ios" THEN a ELSE Renamed(a, IosToSchema)]
  /\ UNCHANGED <<oldIos, files, outcome>>

encrypt_scexport_NotRenamed(password) ==
  LET payload == NoExtras(account["flutter"]) IN
  /\ account["flutter"] # NoAccount /\ Cardinality(files) < MaxFiles
  /\ validate(payload)
  /\ files' = files \cup
       {File(3, PBKDF2_ITERATIONS, Derived("PBKDF2", password, PBKDF2_ITERATIONS), payload)}
  /\ UNCHANGED <<oldIos, origin, account, outcome>>

encrypt_scexport(password) ==
  LET payload == NoExtras(Renamed(account["flutter"], SchemaToIos)) IN
  /\ account["flutter"] # NoAccount /\ Cardinality(files) < MaxFiles
  /\ validate(payload)  \* otherwise nothing is written
  /\ files' = files \cup
       {File(3, PBKDF2_ITERATIONS, Derived("PBKDF2", password, PBKDF2_ITERATIONS), payload)}
  /\ UNCHANGED <<oldIos, origin, account, outcome>>

\* iOS writes, as it did in one of its versions
IosExport(password) ==
  /\ account["ios"] # NoAccount /\ Cardinality(files) < MaxFiles
  /\ validate(account["ios"])
  /\ \E n \in Iterations, derivation \in {"HKDF", "PBKDF2"}, version \in 1..3 :
       /\ version = 1 <=> derivation = "HKDF"
       /\ version # 3 => n = PBKDF2_ITERATIONS
       /\ files' = files \cup
            {File(version, n, Derived(derivation, password, IF version = 1 THEN 0 ELSE n),
                  account["ios"])}
  /\ UNCHANGED <<oldIos, origin, account, outcome>>

\* decrypt, then map_crypto_error: a wrong key is Auth, all else is Decode
decrypt(file, password) ==
  IF file.version \notin 1..3 THEN "Decode"
  ELSE IF file.key # Key(file.version, password, file.header) THEN "Auth"
  ELSE IF ~validate(file.payload) THEN "Decode"
  ELSE "Ok"

decrypt_scexport(file, password) ==
  LET result == decrypt(file, password) IN
  /\ account' = IF result = "Ok"
             THEN [account EXCEPT !["flutter"] = NoExtras(Renamed(file.payload, IosToSchema))]
             ELSE account
  /\ outcome' = [of |-> "import", right |-> file.key.password = password,
                 version |-> file.version, result |-> result]
  /\ UNCHANGED <<oldIos, origin, files>>

\* a file of a version to come
IosExportNewer(password) ==
  /\ account["ios"] # NoAccount /\ Cardinality(files) < MaxFiles
  /\ files' = files \cup
       {File(4, 0, Derived("another", password, 0), account["ios"])}
  /\ UNCHANGED <<oldIos, origin, account, outcome>>

\* iOS reads a file, as its format says
IosImport(file) ==
  /\ file.version \in 1..3
  /\ account' = [account EXCEPT !["ios"] = KnownToIos(file.payload)]
  /\ UNCHANGED <<oldIos, origin, files, outcome>>

\* connect on Flutter: registry::build requires the secrets in this order
Required_Swapped == <<"keyId", "issuerId", "privateKeyP8">>
Required == <<"issuerId", "keyId", "privateKeyP8">>

connect ==
  LET secrets == account["flutter"].credentials
      missing == {i \in 1..3 : Required[i] \notin DOMAIN secrets}
  IN /\ account["flutter"].provider = "apple"
     /\ outcome' = [of |-> "connect", right |-> TRUE, version |-> 0,
          result |-> IF missing = {} THEN "Ok"
                     ELSE Required[CHOOSE i \in missing : \A j \in missing : i <= j]]
     /\ UNCHANGED <<oldIos, origin, account, files>>

ExportNext ==
  \/ EnterAccount
  \/ \E p \in Passwords : encrypt_scexport(p) \/ IosExport(p) \/ IosExportNewer(p)
  \/ \E f \in files, p \in Passwords : decrypt_scexport(f, p)
  \/ \E f \in files : IosImport(f)
  \/ connect

ExportSpec == ExportInit /\ [][ExportNext]_exportVars

ExportTypeOK ==
  /\ oldIos \in BOOLEAN /\ origin \in Accounts \cup {NoAccount}
  /\ Cardinality(files) <= MaxFiles
  /\ outcome.of \in {"nothing", "import", "connect"}

-----------------------------------------------------------------------------
(* Properties.                                                             *)

\* Whatever way an account takes, from device to device and back, through files of
\* any version, it arrives with the name and the secrets that were entered, under
\* the keys the device knows.  It arrives with its scope, unless an iOS build that
\* knows none had it on the way; and with its extras on iOS, unless it has been on
\* Flutter, which has none.
ArrivesAsEntered ==
  \A d \in Devices : account[d] # NoAccount =>
    LET a == account[d]
        named(k) == IF d = "ios" THEN k ELSE NewName(IosToSchema, k)
    IN /\ a.name = origin.name /\ a.provider = origin.provider
       /\ DOMAIN a.credentials = {named(k) : k \in DOMAIN origin.credentials}
       /\ \A k \in DOMAIN origin.credentials : a.credentials[named(k)] = origin.credentials[k]
       /\ a.scope = origin.scope \/ (oldIos /\ a.scope = {})
       /\ a.extras # origin.extras => a.extras = {} /\ account["flutter"] # NoAccount

\* The right password opens every file of a known version, whatever iteration
\* count it was written with; a wrong one is Auth, an unknown version Decode.
RightPasswordOpens ==
  outcome.of = "import" =>
    outcome.result = IF outcome.version \notin 1..3 THEN "Decode"
                     ELSE IF outcome.right THEN "Ok" ELSE "Auth"

\* What was entered complete connects wherever it went, and the first secret that
\* was not entered, in the order issuer, key id, key, is the one the error names.
ConnectsIfComplete ==
  LET missing == AllOf("apple") \ DOMAIN origin.credentials IN
  outcome.of = "connect" =>
    outcome.result = IF "issuerID" \in missing THEN "issuerId"
                     ELSE IF "privateKeyID" \in missing THEN "keyId"
                     ELSE IF "privateKey" \in missing THEN "privateKeyP8"
                     ELSE "Ok"
=============================================================================
