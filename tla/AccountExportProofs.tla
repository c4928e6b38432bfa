------------------------- MODULE AccountExportProofs -------------------------
(***************************************************************************)
(* Proofs about AccountExport, for any passwords, iteration counts, apps   *)
(* and number of files.                                                    *)
(***************************************************************************)
EXTENDS AccountExport, FiniteSetTheorems, TLAPS

-----------------------------------------------------------------------------
(* Renaming keys.                                                          *)

\* A mapping that gives no two keys of the source one name loses nothing: the
\* value of every key is there, under its new name, and nothing else is.
LEMMA RemapKeepsValues ==
  ASSUME NEW source, NEW mapping,
         \A j, k \in DOMAIN source : NewName(mapping, j) = NewName(mapping, k) => j = k
  PROVE  /\ DOMAIN remap(source, mapping) = {NewName(mapping, k) : k \in DOMAIN source}
         /\ \A k \in DOMAIN source :
              remap(source, mapping)[NewName(mapping, k)] = source[k]
<1>1. DOMAIN remap(source, mapping) = {NewName(mapping, k) : k \in DOMAIN source}
  BY DEF remap
<1>2. ASSUME NEW k \in DOMAIN source
      PROVE  remap(source, mapping)[NewName(mapping, k)] = source[k]
  <2> DEFINE r == NewName(mapping, k)
             back == CHOOSE j \in DOMAIN source : NewName(mapping, j) = r
  <2>1. r \in {NewName(mapping, j) : j \in DOMAIN source}
    OBVIOUS
  <2>2. back \in DOMAIN source /\ NewName(mapping, back) = r
    OBVIOUS
  <2>3. back = k
    BY <2>2
  <2>4. remap(source, mapping)[r] = source[back]
    BY <2>1 DEF remap
  <2> QED
    BY <2>3, <2>4
<1> QED
  BY <1>1, <1>2

\* A second mapping that takes every name back undoes the first.
LEMMA RemapBack ==
  ASSUME NEW source, source = [k \in DOMAIN source |-> source[k]], NEW there, NEW back,
         \A k \in DOMAIN source : NewName(back, NewName(there, k)) = k
  PROVE  remap(remap(source, there), back) = source
<1> DEFINE renamed == remap(source, there)
<1>1. \A j, k \in DOMAIN source : NewName(there, j) = NewName(there, k) => j = k
  <2> TAKE j, k \in DOMAIN source
  <2> HAVE NewName(there, j) = NewName(there, k)
  <2>1. NewName(back, NewName(there, j)) = j /\ NewName(back, NewName(there, k)) = k
    OBVIOUS
  <2> QED
    BY <2>1
<1>2. /\ DOMAIN renamed = {NewName(there, k) : k \in DOMAIN source}
      /\ \A k \in DOMAIN source : renamed[NewName(there, k)] = source[k]
  BY <1>1, RemapKeepsValues
<1> HIDE DEF renamed
<1>3. \A r \in DOMAIN renamed : NewName(back, r) \in DOMAIN source
                             /\ r = NewName(there, NewName(back, r))
  BY <1>2
<1>4. \A q, r \in DOMAIN renamed : NewName(back, q) = NewName(back, r) => q = r
  BY <1>3
<1>5. /\ DOMAIN remap(renamed, back) = {NewName(back, r) : r \in DOMAIN renamed}
      /\ \A r \in DOMAIN renamed : remap(renamed, back)[NewName(back, r)] = renamed[r]
  BY <1>4, RemapKeepsValues
<1>6. {NewName(back, r) : r \in DOMAIN renamed} = DOMAIN source
  <2>1. \A r \in DOMAIN renamed : NewName(back, r) \in DOMAIN source
    BY <1>3
  <2>2. \A k \in DOMAIN source : NewName(there, k) \in DOMAIN renamed
                              /\ NewName(back, NewName(there, k)) = k
    BY <1>2
  <2> QED
    BY <2>1, <2>2
<1>7. \A k \in DOMAIN source : remap(renamed, back)[k] = source[k]
  <2> TAKE k \in DOMAIN source
  <2>1. NewName(there, k) \in DOMAIN renamed /\ NewName(back, NewName(there, k)) = k
    BY <1>2
  <2>2. remap(renamed, back)[k] = renamed[NewName(there, k)]
    BY <1>5, <2>1
  <2> QED
    BY <1>2, <2>2
<1>8. remap(renamed, back) = [k \in DOMAIN source |-> remap(renamed, back)[k]]
  <2>1. remap(renamed, back) = [k \in DOMAIN remap(renamed, back) |-> remap(renamed, back)[k]]
    BY DEF remap
  <2> QED
    BY <1>5, <1>6, <2>1
<1>9. remap(renamed, back) = source
  BY <1>7, <1>8
<1> QED
  BY <1>9 DEF renamed

-----------------------------------------------------------------------------
(* Apple's credentials.                                                    *)

\* The three pairs of names, each way.
LEMMA AppleNames ==
  /\ NewName(IosToSchema, "issuerID") = "issuerId"
  /\ NewName(IosToSchema, "privateKeyID") = "keyId"
  /\ NewName(IosToSchema, "privateKey") = "privateKeyP8"
  /\ NewName(SchemaToIos, "issuerId") = "issuerID"
  /\ NewName(SchemaToIos, "keyId") = "privateKeyID"
  /\ NewName(SchemaToIos, "privateKeyP8") = "privateKey"
<1>1. ASSUME NEW p \in IosToSchema
      PROVE  NewName(IosToSchema, p[1]) = p[2] /\ NewName(SchemaToIos, p[2]) = p[1]
  <2>1. (CHOOSE q \in IosToSchema : q[1] = p[1]) = p
    BY DEF IosToSchema
  <2>2. \A q \in SchemaToIos : q[1] = p[2] => q[2] = p[1]
    BY DEF IosToSchema, SchemaToIos
  <2>3. \E q \in SchemaToIos : q[1] = p[2]
    <3>1. <<p[2], p[1]>> \in SchemaToIos /\ <<p[2], p[1]>>[1] = p[2]
      BY DEF SchemaToIos
    <3> QED
      BY <3>1
  <2>4. (CHOOSE q \in SchemaToIos : q[1] = p[2])[2] = p[1]
    BY <2>2, <2>3
  <2> QED
    BY <2>1, <2>3, <2>4 DEF NewName
<1> QED
  BY <1>1 DEF IosToSchema

LEMMA AppleKeys == AllOf("apple") = {"issuerID", "privateKeyID", "privateKey"}
<1>1. AllOf("apple") = {p[1] : p \in IosToSchema}
  BY DEF AllOf
<1> QED
  BY <1>1 DEF IosToSchema

\* What the two functions of the code do to each other.
LEMMA ThereAndBack ==
  ASSUME NEW K \in SUBSET AllOf("apple")
  PROVE  remap(remap(Credentials(K), IosToSchema), SchemaToIos) = Credentials(K)
<1> DEFINE c == Credentials(K)
<1>1. DOMAIN c = K /\ c = [k \in DOMAIN c |-> c[k]]
  BY DEF Credentials
<1>2. \A k \in K : NewName(SchemaToIos, NewName(IosToSchema, k)) = k
  BY AppleKeys, AppleNames
<1> HIDE DEF c
<1>3. remap(remap(c, IosToSchema), SchemaToIos) = c
  BY <1>1, <1>2, RemapBack
<1> QED
  BY <1>3 DEF c

-----------------------------------------------------------------------------
(* The inductive invariant: what a device or a file has is a copy of what  *)
(* was entered, in its form, perhaps without its scope or its extras; a    *)
(* file is sealed as its version says; and nothing happens before an       *)
(* account is entered.  Extras are lost only if Flutter has a copy, and it *)
(* never loses that, so a file may outlive the device that wrote it.       *)

\* a: what o, the account entered, became in files or on iOS
CopyOf(a, o, old, onFlutter) ==
  /\ o \in Accounts
  /\ a = [name |-> o.name, provider |-> o.provider, scope |-> a.scope, extras |-> a.extras,
          credentials |-> o.credentials]
  /\ a.scope = o.scope \/ (old /\ a.scope = {})
  /\ a.extras # o.extras => a.extras = {} /\ onFlutter

Copy(a) == CopyOf(a, origin, oldIos, account["flutter"] # NoAccount)

\* an account in the form it has on Flutter
FlutterForm(a) == NoExtras(Renamed(a, IosToSchema))

DevicesAgree ==
  /\ oldIos \in BOOLEAN /\ origin \in Accounts \cup {NoAccount}
  /\ account = [d \in Devices |-> account[d]]
  /\ account["ios"] # NoAccount => Copy(account["ios"])
  /\ account["flutter"] # NoAccount => \E a : Copy(a) /\ account["flutter"] = FlutterForm(a)
  /\ origin = NoAccount => files = {} /\ outcome.of = "nothing"

FilesSealed ==
  /\ IsFiniteSet(files) /\ Cardinality(files) <= MaxFiles
  /\ \A f \in files :
       /\ Copy(f.payload)
       /\ f.version \in 1..3 =>
            validate(f.payload) /\ f.key = Key(f.version, f.key.password, f.header)

OutcomeExplained ==
  /\ outcome.of \in {"nothing", "import", "connect"}
  /\ RightPasswordOpens
  /\ ConnectsIfComplete

ExportInv == DevicesAgree /\ FilesSealed /\ OutcomeExplained

-----------------------------------------------------------------------------
(* Copies.                                                                 *)

LEMMA AccountForm ==
  ASSUME NEW a \in Accounts
  PROVE  /\ a.provider \in {"apple", "firebase"} /\ a # NoAccount
         /\ a = [name |-> a.name, provider |-> a.provider, scope |-> a.scope,
                 extras |-> a.extras, credentials |-> a.credentials]
         /\ \E K \in SUBSET AllOf(a.provider) : a.credentials = Credentials(K)
<1>1. PICK p \in {"apple", "firebase"} :
        a \in [name : {"", "a name"}, provider : {p}, scope : Scopes, extras : {{}, Extras},
               credentials : {Credentials(K) : K \in SUBSET AllOf(p)}]
  BY DEF Accounts
<1>2. a.provider = p /\ a.credentials \in {Credentials(K) : K \in SUBSET AllOf(p)}
  BY <1>1
<1>3. a = [name |-> a.name, provider |-> a.provider, scope |-> a.scope,
           extras |-> a.extras, credentials |-> a.credentials]
  BY <1>1
<1>4. a # NoAccount
  <2>1. NoAccount.provider = "" /\ a.provider # ""
    BY <1>2 DEF NoAccount
  <2> QED
    BY <2>1
<1> QED
  BY <1>2, <1>3, <1>4

\* What was entered is a copy of itself.
LEMMA OriginIsCopy ==
  ASSUME NEW o \in Accounts, NEW old, NEW onFlutter
  PROVE  CopyOf(o, o, old, onFlutter)
BY AccountForm DEF CopyOf

\* A copy has the name, the provider and the credentials that were entered; it is
\* not nothing, and stays a copy without its extras, once Flutter has one, and as
\* an iOS build reads it.
LEMMA CopyFields ==
  ASSUME NEW a, NEW o, NEW old \in BOOLEAN, NEW onFlutter \in BOOLEAN,
         CopyOf(a, o, old, onFlutter)
  PROVE  /\ o \in Accounts
         /\ a.name = o.name /\ a.provider = o.provider /\ a.credentials = o.credentials
         /\ a.provider \in {"apple", "firebase"} /\ a # NoAccount
         /\ CopyOf(NoExtras(a), o, old, TRUE)
         /\ old => CopyOf([a EXCEPT !.scope = {}], o, old, onFlutter)
<1>1. o \in Accounts /\ o.provider \in {"apple", "firebase"}
  BY AccountForm DEF CopyOf
<1>2. a = [name |-> o.name, provider |-> o.provider, scope |-> a.scope, extras |-> a.extras,
           credentials |-> o.credentials]
  BY DEF CopyOf
<1>3. a.name = o.name /\ a.provider = o.provider /\ a.credentials = o.credentials
  BY <1>2
<1>4. a # NoAccount
  <2>1. NoAccount.provider = ""
    BY DEF NoAccount
  <2> QED
    BY <1>1, <1>3, <2>1
<1>5. CopyOf(NoExtras(a), o, old, TRUE)
  <2>1. NoExtras(a) = [name |-> o.name, provider |-> o.provider, scope |-> a.scope,
                       extras |-> {}, credentials |-> o.credentials]
    BY <1>2 DEF NoExtras
  <2> QED
    BY <1>1, <2>1 DEF CopyOf
<1>6. ASSUME old PROVE CopyOf([a EXCEPT !.scope = {}], o, old, onFlutter)
  <2>1. [a EXCEPT !.scope = {}] =
          [name |-> o.name, provider |-> o.provider, scope |-> {}, extras |-> a.extras,
           credentials |-> o.credentials]
    BY <1>2
  <2> QED
    BY <1>1, <1>6, <2>1 DEF CopyOf
<1> QED
  BY <1>1, <1>3, <1>4, <1>5, <1>6

\* What a copy is on Flutter.
LEMMA FormFields ==
  ASSUME NEW a, NEW o, NEW old, NEW onFlutter, CopyOf(a, o, old, onFlutter)
  PROVE  /\ FlutterForm(a) =
              [name |-> o.name, provider |-> o.provider, scope |-> a.scope, extras |-> {},
               credentials |-> IF o.provider = "apple" THEN remap(o.credentials, IosToSchema)
                               ELSE o.credentials]
         /\ FlutterForm(a) # NoAccount
<1> DEFINE c == remap(o.credentials, IosToSchema)
<1>0. o.provider \in {"apple", "firebase"} /\ NoAccount.provider = ""
  BY AccountForm DEF CopyOf, NoAccount
<1>1. a = [name |-> o.name, provider |-> o.provider, scope |-> a.scope,
           extras |-> a.extras, credentials |-> o.credentials]
  BY DEF CopyOf
<1>2. a.provider = o.provider /\ a.credentials = o.credentials
  BY <1>1
<1>3. CASE o.provider = "apple"
  <2>1. Renamed(a, IosToSchema) = [a EXCEPT !.credentials = c]
    BY <1>2, <1>3 DEF Renamed
  <2> HIDE DEF c
  <2>2. Renamed(a, IosToSchema) =
          [name |-> o.name, provider |-> o.provider, scope |-> a.scope,
           extras |-> a.extras, credentials |-> c]
    BY <1>1, <2>1
  <2>3. FlutterForm(a) =
          [name |-> o.name, provider |-> o.provider, scope |-> a.scope,
           extras |-> {}, credentials |-> c]
    BY <2>2 DEF FlutterForm, NoExtras
  <2>4. FlutterForm(a).provider = "apple"
    BY <1>3, <2>3
  <2> QED
    BY <1>0, <1>3, <2>3, <2>4 DEF c
<1>4. CASE o.provider # "apple"
  <2>1. Renamed(a, IosToSchema) = a
    BY <1>2, <1>4 DEF Renamed
  <2>2. FlutterForm(a) =
          [name |-> o.name, provider |-> o.provider, scope |-> a.scope,
           extras |-> {}, credentials |-> o.credentials]
    BY <1>1, <2>1 DEF FlutterForm, NoExtras
  <2>3. FlutterForm(a).provider = o.provider
    BY <2>2
  <2> QED
    BY <1>0, <1>4, <2>2, <2>3
<1> QED
  BY <1>3, <1>4

\* A copy that goes to Flutter's form and back has lost its extras and no more.
LEMMA RenamedThereAndBack ==
  ASSUME NEW a, NEW o, NEW old, NEW onFlutter, CopyOf(a, o, old, onFlutter)
  PROVE  NoExtras(Renamed(FlutterForm(a), SchemaToIos)) = NoExtras(a)
<1> DEFINE r == FlutterForm(a)
           c == remap(o.credentials, IosToSchema)
<1>1. /\ o \in Accounts
      /\ a = [name |-> o.name, provider |-> o.provider, scope |-> a.scope,
              extras |-> a.extras, credentials |-> o.credentials]
  BY DEF CopyOf
<1>2. r = [name |-> o.name, provider |-> o.provider, scope |-> a.scope, extras |-> {},
           credentials |-> IF o.provider = "apple" THEN c ELSE o.credentials]
  BY FormFields
<1>3. NoExtras(a) = [name |-> o.name, provider |-> o.provider, scope |-> a.scope,
                     extras |-> {}, credentials |-> o.credentials]
  BY <1>1 DEF NoExtras
<1>4. remap(c, SchemaToIos) = o.credentials \/ o.provider # "apple"
  BY <1>1, AccountForm, ThereAndBack
<1> HIDE DEF r, c
<1>5. CASE o.provider = "apple"
  <2>1. r.provider = "apple" /\ r.credentials = c
    BY <1>2, <1>5
  <2>2. Renamed(r, SchemaToIos) = [r EXCEPT !.credentials = o.credentials]
    BY <1>4, <1>5, <2>1 DEF Renamed
  <2>3. Renamed(r, SchemaToIos) = NoExtras(a)
    BY <1>2, <1>3, <2>2
  <2>4. NoExtras(Renamed(r, SchemaToIos)) = NoExtras(a)
    BY <1>3, <2>3 DEF NoExtras
  <2> QED
    BY <2>4 DEF r
<1>6. CASE o.provider # "apple"
  <2>1. r.provider # "apple" /\ r = NoExtras(a)
    BY <1>2, <1>3, <1>6
  <2>2. Renamed(r, SchemaToIos) = NoExtras(a)
    BY <2>1 DEF Renamed
  <2>3. NoExtras(Renamed(r, SchemaToIos)) = NoExtras(a)
    BY <1>3, <2>2 DEF NoExtras
  <2> QED
    BY <2>3 DEF r
<1> QED
  BY <1>5, <1>6

\* A key tells the password it was derived from.
LEMMA KeyTellsPassword ==
  ASSUME NEW v \in 1..3, NEW p, NEW q, NEW h
  PROVE  Key(v, p, h).password = p /\ (Key(v, p, h) = Key(v, q, h) <=> p = q)
BY DEF Key, Derived

-----------------------------------------------------------------------------
(* The steps.                                                              *)

\* What a device writes is a copy.
LEMMA WhatIsWritten ==
  ASSUME DevicesAgree
  PROVE  /\ account["ios"] # NoAccount => Copy(account["ios"])
         /\ account["flutter"] # NoAccount =>
              Copy(NoExtras(Renamed(account["flutter"], SchemaToIos)))
<1>1. ASSUME account["flutter"] # NoAccount
      PROVE  Copy(NoExtras(Renamed(account["flutter"], SchemaToIos)))
  <2>1. PICK a : Copy(a) /\ account["flutter"] = FlutterForm(a)
    BY <1>1 DEF DevicesAgree
  <2>2. CopyOf(a, origin, oldIos, TRUE) /\ oldIos \in BOOLEAN
    BY <1>1, <2>1 DEF Copy, CopyOf, DevicesAgree
  <2>3. CopyOf(NoExtras(a), origin, oldIos, TRUE)
    BY <2>2, CopyFields
  <2>4. NoExtras(Renamed(account["flutter"], SchemaToIos)) = NoExtras(a)
    BY <2>1, <2>2, RenamedThereAndBack
  <2> HIDE <2>1
  <2> QED
    BY <1>1, <2>3, <2>4 DEF Copy, CopyOf
<1> QED
  BY <1>1 DEF DevicesAgree

\* A copy stays one while Flutter does not lose what it has.
LEMMA CopiesStay ==
  ASSUME UNCHANGED <<oldIos, origin>>,
         account["flutter"] # NoAccount => account'["flutter"] # NoAccount
  PROVE  \A a : Copy(a) => Copy(a)'
BY DEF Copy, CopyOf

\* Nothing is a copy before an account is entered.
LEMMA CopyMeansEntered ==
  ASSUME NEW a, Copy(a) PROVE origin \in Accounts /\ origin # NoAccount
BY AccountForm DEF Copy, CopyOf

\* A file more: it holds a copy, and is sealed as its version says.
LEMMA Written ==
  ASSUME ExportInv, UNCHANGED <<oldIos, origin, account, outcome>>,
         Cardinality(files) < MaxFiles, NEW payload, Copy(payload),
         NEW v, NEW h, NEW key, files' = files \cup {File(v, h, key, payload)},
         v \in 1..3 => validate(payload) /\ key = Key(v, key.password, h)
  PROVE  ExportInv'
<1> DEFINE f == File(v, h, key, payload)
<1>1. f.version = v /\ f.header = h /\ f.key = key /\ f.payload = payload
  BY DEF File
<1>2. IsFiniteSet(files') /\ Cardinality(files') <= MaxFiles
  <2>1. IsFiniteSet(files) /\ Cardinality(files) \in Nat
    BY FS_CardinalityType DEF ExportInv, FilesSealed
  <2>2. /\ IsFiniteSet(files \cup {f})
        /\ Cardinality(files \cup {f}) = Cardinality(files)
             \/ Cardinality(files \cup {f}) = Cardinality(files) + 1
    BY <2>1, FS_AddElement
  <2> QED
    BY <2>1, <2>2, ExportAssumption
<1>3. origin # NoAccount /\ \A a : Copy(a) => Copy(a)'
  BY CopyMeansEntered, CopiesStay
<1> HIDE DEF f
<1>4. FilesSealed'
  <2>1. \A g \in files' : g \in files \/ g = f
    BY DEF f
  <2> QED
    BY <1>1, <1>2, <1>3, <2>1 DEF ExportInv, FilesSealed, validate, Key, Derived
<1>5. DevicesAgree'
  BY <1>3 DEF ExportInv, DevicesAgree, Copy
<1>6. OutcomeExplained'
  BY DEF ExportInv, OutcomeExplained, RightPasswordOpens, ConnectsIfComplete
<1> QED
  BY <1>4, <1>5, <1>6 DEF ExportInv

\* What is entered on Flutter, without extras, has none in Flutter's form either.
LEMMA EnteredOnFlutter ==
  ASSUME NEW a \in Accounts, a = NoExtras(a)
  PROVE  Renamed(a, IosToSchema) = NoExtras(Renamed(a, IosToSchema))
<1> DEFINE c == IF a.provider = "apple" THEN remap(a.credentials, IosToSchema) ELSE a.credentials
<1>1. a = [name |-> a.name, provider |-> a.provider, scope |-> a.scope, extras |-> a.extras,
           credentials |-> a.credentials]
  BY AccountForm
<1>2. a.extras = {}
  BY <1>1 DEF NoExtras
<1>3. Renamed(a, IosToSchema) = [a EXCEPT !.credentials = c]
  BY <1>1 DEF Renamed
<1> HIDE DEF c
<1>4. Renamed(a, IosToSchema) = [name |-> a.name, provider |-> a.provider, scope |-> a.scope,
                                 extras |-> {}, credentials |-> c]
  BY <1>1, <1>2, <1>3
<1> QED
  BY <1>4 DEF NoExtras

LEMMA EnterKeeps ==
  ASSUME ExportInv, EnterAccount PROVE ExportInv'
<1> USE DEF ExportInv
<1>1. PICK a \in Accounts, d \in Devices :
        /\ d = "flutter" => a = NoExtras(a)
        /\ origin' = a
        /\ account' = [account EXCEPT ![d] = IF d = "ios" THEN a ELSE Renamed(a, IosToSchema)]
  BY DEF EnterAccount
<1>2. /\ origin = NoAccount /\ files = {} /\ outcome.of = "nothing"
      /\ UNCHANGED <<oldIos, files, outcome>>
  BY DEF EnterAccount, DevicesAgree
<1>3. account["ios"] = NoAccount /\ account["flutter"] = NoAccount
  <2>1. \A b : ~Copy(b)
    BY <1>2, CopyMeansEntered
  <2> QED
    BY <2>1 DEF DevicesAgree
<1>4. \A old, onFlutter : CopyOf(a, a, old, onFlutter)
  BY OriginIsCopy
<1>5. DevicesAgree'
  <2>1. a # NoAccount
    BY AccountForm
  <2>2. account = [e \in Devices |-> account[e]]
    BY DEF DevicesAgree
  <2>3. account' = [e \in Devices |-> account'[e]]
    BY <1>1, <2>2
  <2>4. account'["ios"] # NoAccount => account'["ios"] = a
    BY <1>1, <1>3, <2>2 DEF Devices
  <2>5. account'["flutter"] # NoAccount => account'["flutter"] = FlutterForm(a)
    <3>1. CASE d = "ios"
      BY <1>1, <1>3, <2>2, <3>1 DEF Devices
    <3>2. CASE d = "flutter"
      <4>1. account'["flutter"] = Renamed(a, IosToSchema)
        BY <1>1, <2>2, <3>2 DEF Devices
      <4>2. Renamed(a, IosToSchema) = NoExtras(Renamed(a, IosToSchema))
        BY <1>1, <3>2, EnteredOnFlutter
      <4> QED
        BY <4>1, <4>2 DEF FlutterForm
    <3> QED
      BY <3>1, <3>2 DEF Devices
  <2>6. Copy(a)'
    BY <1>1, <1>4 DEF Copy
  <2> QED
    BY <1>1, <1>2, <2>1, <2>3, <2>4, <2>5, <2>6 DEF DevicesAgree, Copy
<1>6. FilesSealed'
  BY <1>2 DEF FilesSealed
<1>7. OutcomeExplained'
  BY <1>2 DEF OutcomeExplained, RightPasswordOpens, ConnectsIfComplete
<1> QED
  BY <1>5, <1>6, <1>7

LEMMA EncryptKeeps ==
  ASSUME ExportInv, NEW p \in Passwords, encrypt_scexport(p) PROVE ExportInv'
<1> DEFINE key == Derived("PBKDF2", p, PBKDF2_ITERATIONS)
           payload == NoExtras(Renamed(account["flutter"], SchemaToIos))
<1>1. Copy(payload)
  BY WhatIsWritten DEF ExportInv, encrypt_scexport
<1>2. /\ Cardinality(files) < MaxFiles /\ validate(payload)
      /\ files' = files \cup {File(3, PBKDF2_ITERATIONS, key, payload)}
      /\ UNCHANGED <<oldIos, origin, account, outcome>>
  BY DEF encrypt_scexport
<1>3. key = Key(3, key.password, PBKDF2_ITERATIONS)
  BY DEF Key, Derived
<1> HIDE DEF key, payload
<1> QED
  BY <1>1, <1>2, <1>3, Written

LEMMA IosExportKeeps ==
  ASSUME ExportInv, NEW p \in Passwords, IosExport(p) \/ IosExportNewer(p) PROVE ExportInv'
<1>1. Copy(account["ios"])
  BY WhatIsWritten DEF ExportInv, IosExport, IosExportNewer
<1>2. CASE IosExport(p)
  <2>1. PICK n \in Iterations, derivation \in {"HKDF", "PBKDF2"}, version \in 1..3 :
          /\ version = 1 <=> derivation = "HKDF"
          /\ version # 3 => n = PBKDF2_ITERATIONS
          /\ files' = files \cup
               {File(version, n, Derived(derivation, p, IF version = 1 THEN 0 ELSE n),
                     account["ios"])}
    BY <1>2 DEF IosExport
  <2> DEFINE key == Derived(derivation, p, IF version = 1 THEN 0 ELSE n)
  <2>2. key = Key(version, key.password, n)
    BY <2>1 DEF Key, Derived
  <2>3. /\ Cardinality(files) < MaxFiles /\ validate(account["ios"])
        /\ UNCHANGED <<oldIos, origin, account, outcome>>
    BY <1>2 DEF IosExport
  <2>4. files' = files \cup {File(version, n, key, account["ios"])}
    BY <2>1
  <2> HIDE DEF key
  <2> QED
    BY <1>1, <2>2, <2>3, <2>4, Written
<1>3. CASE IosExportNewer(p)
  BY <1>1, <1>3, Written DEF IosExportNewer
<1> QED
  BY <1>2, <1>3

LEMMA DecryptKeeps ==
  ASSUME ExportInv, NEW f \in files, NEW p \in Passwords, decrypt_scexport(f, p)
  PROVE  ExportInv'
<1> DEFINE result == decrypt(f, p)
<1>1. /\ Copy(f.payload)
      /\ f.version \in 1..3 =>
           validate(f.payload) /\ f.key = Key(f.version, f.key.password, f.header)
  BY DEF ExportInv, FilesSealed
<1>2. result = IF f.version \notin 1..3 THEN "Decode"
               ELSE IF f.key.password = p THEN "Ok" ELSE "Auth"
  <2>1. f.version \in 1..3 => (f.key = Key(f.version, p, f.header) <=> f.key.password = p)
    BY <1>1, KeyTellsPassword
  <2> QED
    BY <1>1, <2>1 DEF decrypt
<1> HIDE DEF result
<1>3. /\ account' = IF result = "Ok"
                    THEN [account EXCEPT !["flutter"] = FlutterForm(f.payload)]
                    ELSE account
      /\ outcome' = [of |-> "import", right |-> f.key.password = p,
                     version |-> f.version, result |-> result]
      /\ UNCHANGED <<oldIos, origin, files>>
  BY DEF decrypt_scexport, result, FlutterForm
<1>4. /\ account = [e \in Devices |-> account[e]] /\ "ios" \in Devices /\ "flutter" \in Devices
      /\ origin # NoAccount /\ FlutterForm(f.payload) # NoAccount
  BY <1>1, CopyMeansEntered, FormFields DEF ExportInv, DevicesAgree, Devices, Copy
<1>5. /\ account' = [e \in Devices |-> account'[e]] /\ account'["ios"] = account["ios"]
      /\ account'["flutter"] \in {account["flutter"], FlutterForm(f.payload)}
  BY <1>3, <1>4
<1>6. \A a : Copy(a) => Copy(a)'
  BY <1>3, <1>4, <1>5, CopiesStay
<1>7. DevicesAgree'
  BY <1>1, <1>3, <1>4, <1>5, <1>6 DEF ExportInv, DevicesAgree, Copy
<1>8. FilesSealed'
  BY <1>3, <1>6 DEF ExportInv, FilesSealed, validate, Key, Derived
<1>9. /\ outcome'.of = "import" /\ outcome'.version = f.version
      /\ outcome'.result = result /\ (outcome'.right <=> f.key.password = p)
  BY <1>3
<1>10. OutcomeExplained'
  BY <1>2, <1>9 DEF OutcomeExplained, RightPasswordOpens, ConnectsIfComplete
<1> QED
  BY <1>7, <1>8, <1>10 DEF ExportInv

LEMMA IosImportKeeps ==
  ASSUME ExportInv, NEW f \in files, IosImport(f) PROVE ExportInv'
<1>1. /\ account' = [account EXCEPT !["ios"] = KnownToIos(f.payload)]
      /\ UNCHANGED <<oldIos, origin, files, outcome>>
  BY DEF IosImport
<1>2. Copy(f.payload) /\ Copy(KnownToIos(f.payload))
  BY CopyFields DEF ExportInv, FilesSealed, DevicesAgree, Copy, KnownToIos
<1>3. /\ account' = [e \in Devices |-> account'[e]] /\ account'["flutter"] = account["flutter"]
      /\ account'["ios"] = KnownToIos(f.payload) /\ origin # NoAccount
  BY <1>1, <1>2, CopyMeansEntered DEF ExportInv, DevicesAgree, Devices
<1>4. \A a : Copy(a) => Copy(a)'
  BY <1>1, <1>3, CopiesStay
<1>5. DevicesAgree'
  BY <1>1, <1>2, <1>3, <1>4 DEF ExportInv, DevicesAgree, Copy
<1>6. FilesSealed' /\ OutcomeExplained'
  BY <1>1, <1>4 DEF ExportInv, FilesSealed, validate, Key, Derived, OutcomeExplained,
                    RightPasswordOpens, ConnectsIfComplete
<1> QED
  BY <1>5, <1>6 DEF ExportInv

\* Which of the secrets that connect requires are there tells which were entered.
LEMMA RequiredAreThere ==
  ASSUME NEW a \in Accounts, a.provider = "apple"
  PROVE  LET there == DOMAIN remap(a.credentials, IosToSchema)
             entered == DOMAIN a.credentials
         IN /\ Required[1] \in there <=> "issuerID" \in entered
            /\ Required[2] \in there <=> "privateKeyID" \in entered
            /\ Required[3] \in there <=> "privateKey" \in entered
<1>1. PICK K \in SUBSET AllOf("apple") : a.credentials = Credentials(K)
  BY AccountForm
<1>2. DOMAIN a.credentials = K
  BY <1>1 DEF Credentials
<1>3. DOMAIN remap(a.credentials, IosToSchema) = {NewName(IosToSchema, k) : k \in K}
  BY <1>2 DEF remap
<1>4. /\ "issuerId" \in {NewName(IosToSchema, k) : k \in K} <=> "issuerID" \in K
      /\ "keyId" \in {NewName(IosToSchema, k) : k \in K} <=> "privateKeyID" \in K
      /\ "privateKeyP8" \in {NewName(IosToSchema, k) : k \in K} <=> "privateKey" \in K
  BY AppleKeys, AppleNames
<1>5. Required[1] = "issuerId" /\ Required[2] = "keyId" /\ Required[3] = "privateKeyP8"
  BY DEF Required
<1> QED
  BY <1>2, <1>3, <1>4, <1>5

LEMMA ConnectKeeps ==
  ASSUME ExportInv, connect PROVE ExportInv'
<1> DEFINE missing == {i \in 1..3 : Required[i] \notin DOMAIN account["flutter"].credentials}
           first == CHOOSE i \in missing : \A j \in missing : i <= j
           entered == DOMAIN origin.credentials
<1>1. /\ account["flutter"].provider = "apple"
      /\ outcome' = [of |-> "connect", right |-> TRUE, version |-> 0,
           result |-> IF missing = {} THEN "Ok" ELSE Required[first]]
      /\ UNCHANGED <<oldIos, origin, account, files>>
  BY DEF connect
<1>2. /\ origin \in Accounts /\ origin # NoAccount /\ origin.provider = "apple"
      /\ account["flutter"].credentials = remap(origin.credentials, IosToSchema)
  <2>0. NoAccount.provider = ""
    BY DEF NoAccount
  <2>1. account["flutter"] # NoAccount
    BY <1>1, <2>0
  <2>2. PICK a : Copy(a) /\ account["flutter"] = FlutterForm(a)
    BY <2>1 DEF ExportInv, DevicesAgree
  <2>3. origin \in Accounts /\ origin # NoAccount
    BY <2>2, CopyMeansEntered
  <2>4. account["flutter"] =
          [name |-> origin.name, provider |-> origin.provider, scope |-> a.scope, extras |-> {},
           credentials |-> IF origin.provider = "apple"
                           THEN remap(origin.credentials, IosToSchema)
                           ELSE origin.credentials]
    BY <2>2, FormFields DEF Copy
  <2>5. origin.provider = "apple"
    BY <1>1, <2>4
  <2> QED
    BY <2>3, <2>4, <2>5
<1>3. /\ 1 \in missing <=> "issuerID" \notin entered
      /\ 2 \in missing <=> "privateKeyID" \notin entered
      /\ 3 \in missing <=> "privateKey" \notin entered
  BY <1>2, RequiredAreThere
<1>4. Required[1] = "issuerId" /\ Required[2] = "keyId" /\ Required[3] = "privateKeyP8"
  BY DEF Required
<1>5. missing \subseteq 1..3
  OBVIOUS
<1> HIDE DEF missing
<1>6. /\ 1 \in missing => first = 1
      /\ 1 \notin missing /\ 2 \in missing => first = 2
      /\ 1 \notin missing /\ 2 \notin missing /\ 3 \in missing => first = 3
      /\ 1 \notin missing /\ 2 \notin missing /\ 3 \notin missing => missing = {}
  <2>1. ASSUME NEW i \in missing, \A j \in missing : i <= j PROVE first = i
    <3>1. first \in missing /\ \A j \in missing : first <= j
      BY <2>1
    <3> HIDE DEF first
    <3>2. first \in 1..3 /\ i \in 1..3 /\ first <= i /\ i <= first
      BY <1>5, <2>1, <3>1
    <3> QED
      BY <3>2
  <2> QED
    BY <1>5, <2>1
<1> HIDE DEF first
<1>7. OutcomeExplained'
  <2>1. outcome'.of = "connect" /\ outcome'.result = IF missing = {} THEN "Ok" ELSE Required[first]
    BY <1>1
  <2>2. outcome'.result = IF "issuerID" \notin entered THEN "issuerId"
                          ELSE IF "privateKeyID" \notin entered THEN "keyId"
                          ELSE IF "privateKey" \notin entered THEN "privateKeyP8"
                          ELSE "Ok"
    BY <1>3, <1>4, <1>6, <2>1
  <2> QED
    BY <1>1, <2>1, <2>2, AppleKeys DEF OutcomeExplained, RightPasswordOpens, ConnectsIfComplete
<1>8. DevicesAgree'
  BY <1>1, <1>2 DEF ExportInv, DevicesAgree, Copy
<1>9. FilesSealed'
  BY <1>1 DEF ExportInv, FilesSealed, validate, Key, Derived, Copy
<1> QED
  BY <1>7, <1>8, <1>9 DEF ExportInv

LEMMA ExportInvariant == ExportSpec => []ExportInv
<1>1. ExportInit => ExportInv
  <2> SUFFICES ASSUME ExportInit PROVE ExportInv
    OBVIOUS
  <2>1. DevicesAgree
    BY DEF ExportInit, DevicesAgree, Devices
  <2>2. FilesSealed
    BY FS_EmptySet, ExportAssumption DEF ExportInit, FilesSealed
  <2>3. OutcomeExplained
    BY DEF ExportInit, OutcomeExplained, RightPasswordOpens, ConnectsIfComplete
  <2> QED
    BY <2>1, <2>2, <2>3 DEF ExportInv
<1>2. ExportInv /\ [ExportNext]_exportVars => ExportInv'
  <2> SUFFICES ASSUME ExportInv, [ExportNext]_exportVars PROVE ExportInv'
    OBVIOUS
  <2>1. CASE UNCHANGED exportVars
    BY <2>1 DEF exportVars, ExportInv, DevicesAgree, FilesSealed, OutcomeExplained, Copy,
                RightPasswordOpens, ConnectsIfComplete, validate, Key, Derived
  <2> QED
    BY <2>1, EnterKeeps, EncryptKeeps, IosExportKeeps, DecryptKeeps, IosImportKeeps,
       ConnectKeeps DEF ExportNext
<1> QED
  BY <1>1, <1>2, PTL DEF ExportSpec

-----------------------------------------------------------------------------
(* What follows.                                                           *)

\* Every variable keeps its type, and no more files are written than the bound.
THEOREM ExportTypeCorrect == ExportSpec => []ExportTypeOK
<1>1. ExportInv => ExportTypeOK
  BY DEF ExportInv, DevicesAgree, FilesSealed, OutcomeExplained, ExportTypeOK
<1> QED
  BY ExportInvariant, <1>1, PTL

\* The keys of an entered account, and their values, on Flutter.
LEMMA CredentialsArrive ==
  ASSUME NEW o \in Accounts
  PROVE  LET c == IF o.provider = "apple" THEN remap(o.credentials, IosToSchema)
                  ELSE o.credentials
         IN /\ DOMAIN c = {NewName(IosToSchema, k) : k \in DOMAIN o.credentials}
            /\ \A k \in DOMAIN o.credentials :
                 c[NewName(IosToSchema, k)] = o.credentials[k]
<1> DEFINE source == o.credentials
<1>1. PICK K \in SUBSET AllOf(o.provider) : source = Credentials(K)
  BY AccountForm
<1>2. DOMAIN source = K
  BY <1>1 DEF Credentials
<1>3. CASE o.provider = "apple"
  <2>1. \A j, k \in DOMAIN source :
          NewName(IosToSchema, j) = NewName(IosToSchema, k) => j = k
    BY <1>2, <1>3, AppleKeys, AppleNames
  <2> HIDE DEF source
  <2>2. LET c == remap(source, IosToSchema) IN
        /\ DOMAIN c = {NewName(IosToSchema, k) : k \in DOMAIN source}
        /\ \A k \in DOMAIN source : c[NewName(IosToSchema, k)] = source[k]
    BY <2>1, RemapKeepsValues
  <2> QED
    BY <1>3, <2>2 DEF source
<1>4. CASE o.provider # "apple"
  <2>1. K \subseteq {"serviceAccountJSON"}
    BY <1>4 DEF AllOf
  <2>2. NewName(IosToSchema, "serviceAccountJSON") = "serviceAccountJSON"
    BY DEF NewName, IosToSchema
  <2>3. \A k \in K : NewName(IosToSchema, k) = k
    BY <2>1, <2>2
  <2> QED
    BY <1>2, <1>4, <2>3
<1> QED
  BY <1>3, <1>4

\* Whatever way an account takes between the devices, its name and its secrets
\* arrive as entered; its scope may get lost in an iOS build that knows none, its
\* extras on Flutter, and nowhere else.
THEOREM AccountsArriveAsEntered == ExportSpec => []ArrivesAsEntered
<1>1. ExportInv => ArrivesAsEntered
  <2> SUFFICES ASSUME ExportInv, NEW d \in Devices, account[d] # NoAccount
               PROVE  LET a == account[d]
                          named(k) == IF d = "ios" THEN k ELSE NewName(IosToSchema, k)
                      IN /\ a.name = origin.name /\ a.provider = origin.provider
                         /\ DOMAIN a.credentials = {named(k) : k \in DOMAIN origin.credentials}
                         /\ \A k \in DOMAIN origin.credentials :
                              a.credentials[named(k)] = origin.credentials[k]
                         /\ a.scope = origin.scope \/ (oldIos /\ a.scope = {})
                         /\ a.extras # origin.extras =>
                              a.extras = {} /\ account["flutter"] # NoAccount
    BY DEF ArrivesAsEntered
  <2>1. CASE d = "ios"
    <3>1. Copy(account["ios"]) /\ oldIos \in BOOLEAN
      BY <2>1 DEF ExportInv, DevicesAgree
    <3>2. /\ account["ios"].name = origin.name /\ account["ios"].provider = origin.provider
          /\ account["ios"].credentials = origin.credentials
      <4> DEFINE a == account["ios"]
      <4>1. a = [name |-> origin.name, provider |-> origin.provider, scope |-> a.scope,
                 extras |-> a.extras, credentials |-> origin.credentials]
        BY <3>1 DEF Copy, CopyOf
      <4> HIDE DEF a
      <4>2. /\ a.name = origin.name /\ a.provider = origin.provider
            /\ a.credentials = origin.credentials
        BY <4>1
      <4> QED
        BY <4>2 DEF a
    <3>3. /\ account["ios"].scope = origin.scope \/ (oldIos /\ account["ios"].scope = {})
          /\ account["ios"].extras # origin.extras =>
               account["ios"].extras = {} /\ account["flutter"] # NoAccount
      BY <3>1 DEF Copy, CopyOf
    <3> QED
      BY <2>1, <3>2, <3>3
  <2>2. CASE d = "flutter"
    <3> DEFINE c == IF origin.provider = "apple" THEN remap(origin.credentials, IosToSchema)
                    ELSE origin.credentials
    <3>1. PICK a : Copy(a) /\ account["flutter"] = FlutterForm(a)
      BY <2>2 DEF ExportInv, DevicesAgree
    <3>2. origin \in Accounts /\ (a.scope = origin.scope \/ (oldIos /\ a.scope = {}))
      BY <3>1 DEF Copy, CopyOf
    <3>3. /\ DOMAIN c = {NewName(IosToSchema, k) : k \in DOMAIN origin.credentials}
          /\ \A k \in DOMAIN origin.credentials :
               c[NewName(IosToSchema, k)] = origin.credentials[k]
      BY <3>2, CredentialsArrive
    <3> HIDE DEF c
    <3>4. account["flutter"] = [name |-> origin.name, provider |-> origin.provider,
                                scope |-> a.scope, extras |-> {}, credentials |-> c]
      BY <3>1, FormFields DEF Copy, c
    <3> QED
      BY <2>2, <3>2, <3>3, <3>4
  <2> QED
    BY <2>1, <2>2 DEF Devices
<1> QED
  BY ExportInvariant, <1>1, PTL

\* The right password, and only it, opens every file of a known version.
THEOREM OnlyTheRightPasswordOpens == ExportSpec => []RightPasswordOpens
<1>1. ExportInv => RightPasswordOpens
  BY DEF ExportInv, OutcomeExplained
<1> QED
  BY ExportInvariant, <1>1, PTL

\* An account connects if it was entered complete, wherever it went, and otherwise
\* the error names the first secret that was not entered.
THEOREM CompleteAccountsConnect == ExportSpec => []ConnectsIfComplete
<1>1. ExportInv => ConnectsIfComplete
  BY DEF ExportInv, OutcomeExplained
<1> QED
  BY ExportInvariant, <1>1, PTL
=============================================================================
