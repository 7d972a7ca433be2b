--------------------------- MODULE RegistryProofs ---------------------------
(***************************************************************************)
(* Theorems about corporations, ecosystems and governance frameworks, for  *)
(* any DIDs, languages, contents and bounds.                               *)
(*                                                                         *)
(* The state falls into three parts, as the code does.  What x/gf keeps is *)
(* right as long as the owners of frameworks keep their language and move  *)
(* their active version only with it; so the steps of x/co and x/ec have   *)
(* to say no more of x/gf's state than what becomes of the owners.         *)
(***************************************************************************)
EXTENDS Registry, LedgerLemmas

-----------------------------------------------------------------------------
(* The inductive invariant.                                                *)

CoInv ==
  /\ corporations \in
       [1 .. counters.co -> [did : Dids, language : Languages, activeVersion : Nat]]
  /\ corporationByDid \in [DOMAIN corporationByDid -> DOMAIN corporations]
  /\ \A did \in DOMAIN corporationByDid : corporations[corporationByDid[did]].did = did
  /\ \A id \in DOMAIN corporations :
       /\ corporations[id].did \in DOMAIN corporationByDid
       /\ corporationByDid[corporations[id].did] = id

EcInv ==
  /\ ecosystems \in
       [1 .. counters.ec -> [did : Dids, corporation : DOMAIN corporations,
                             language : Languages, archived : BOOLEAN,
                             activeVersion : Nat]]
  /\ ecosystemByDidCorp \in [DOMAIN ecosystemByDidCorp -> DOMAIN ecosystems]
  /\ \A key \in DOMAIN ecosystemByDidCorp :
       LET e == ecosystems[ecosystemByDidCorp[key]]
       IN  <<e.did, e.corporation>> = key

SubjectVersion(v) == <<v.subject, v.version>>

VersionIndexAgrees ==
  /\ gfVersionBySubject \in [DOMAIN gfVersionBySubject -> DOMAIN gfVersions]
  /\ \A key \in DOMAIN gfVersionBySubject :
       SubjectVersion(gfVersions[gfVersionBySubject[key]]) = key
  /\ \A id \in DOMAIN gfVersions :
       /\ SubjectVersion(gfVersions[id]) \in DOMAIN gfVersionBySubject
       /\ gfVersionBySubject[SubjectVersion(gfVersions[id])] = id

DocumentsUnique ==
  \A p, q \in DOMAIN gfDocuments :
    /\ gfDocuments[p].gfv = gfDocuments[q].gfv
    /\ gfDocuments[p].language = gfDocuments[q].language
    => p = q

\* x/gf's rows, whose subjects are among those that S lists.
GfTyped(S) ==
  /\ gfVersions \in
       [1 .. counters.gfv -> [subject : S, version : 1 .. MaxVersions,
                              activeSince : BOOLEAN]]
  /\ gfDocuments \in
       [1 .. counters.gfd -> [gfv : DOMAIN gfVersions, language : Languages,
                              content : Contents]]

\* The framework of a subject, whose owner has this active version and language.
InForce(subject, active, language) ==
  /\ \E n \in Nat : VersionsOf(subject) = 1 .. n
  /\ active \in VersionsOf(subject)
  /\ \A v \in VersionsOf(subject) :
       /\ gfVersions[gfVersionBySubject[<<subject, v>>]].activeSince <=> v <= active
       /\ v <= active => DocumentIds(gfVersionBySubject[<<subject, v>>], language) # {}

GfInv ==
  /\ GfTyped(Subjects)
  /\ VersionIndexAgrees
  /\ DocumentsUnique
  /\ \A subject \in Subjects :
       InForce(subject, Owner(subject).activeVersion, Owner(subject).language)

CountersTyped == counters \in [{"co", "ec", "gfv", "gfd"} -> Nat]

RegistryInv == CountersTyped /\ CoInv /\ EcInv /\ GfInv

-----------------------------------------------------------------------------
(* Indexes.                                                                *)

\* The index of rows leads to rows that have the key.
LEMMA IndexLeadsToRows ==
  ASSUME NEW n \in Nat, NEW keyOf, DOMAIN keyOf = 1 .. n
  PROVE  /\ Index(keyOf) \in [DOMAIN Index(keyOf) -> 1 .. n]
         /\ DOMAIN Index(keyOf) = {keyOf[id] : id \in 1 .. n}
         /\ \A k \in DOMAIN Index(keyOf) : keyOf[Index(keyOf)[k]] = k
<1>1. DOMAIN Index(keyOf) = {keyOf[id] : id \in 1 .. n}
  BY DEF Index
<1>2. ASSUME NEW k \in DOMAIN Index(keyOf)
      PROVE  Index(keyOf)[k] \in 1 .. n /\ keyOf[Index(keyOf)[k]] = k
  <2> DEFINE S == {id \in 1 .. n : keyOf[id] = k}
  <2>1. S \subseteq Nat /\ S # {} /\ \A x \in S : x <= n
    BY <1>1
  <2>2. Index(keyOf)[k] = Largest(S)
    BY <1>1 DEF Index
  <2>3. Largest(S) \in S
    <3> HIDE DEF S
    <3> QED BY <2>1, LargestExists
  <2> QED BY <2>2, <2>3
<1>3. Index(keyOf) = [k \in DOMAIN Index(keyOf) |-> Index(keyOf)[k]]
  BY DEF Index
<1> HIDE DEF Index
<1> QED BY <1>1, <1>2, <1>3

\* An index that finds every row is the one that a restart builds.
LEMMA IndexRebuilt ==
  ASSUME NEW n \in Nat, NEW keyOf, DOMAIN keyOf = 1 .. n,
         NEW index, index \in [DOMAIN index -> 1 .. n],
         \A k \in DOMAIN index : keyOf[index[k]] = k,
         \A id \in 1 .. n : keyOf[id] \in DOMAIN index /\ index[keyOf[id]] = id
  PROVE  Index(keyOf) = index
<1>1. /\ Index(keyOf) \in [DOMAIN Index(keyOf) -> 1 .. n]
      /\ DOMAIN Index(keyOf) = {keyOf[id] : id \in 1 .. n}
      /\ \A k \in DOMAIN Index(keyOf) : keyOf[Index(keyOf)[k]] = k
  BY IndexLeadsToRows
<1>2. DOMAIN Index(keyOf) = DOMAIN index
  BY <1>1
<1>3. \A k \in DOMAIN index : Index(keyOf)[k] = index[k]
  BY <1>1, <1>2
<1> QED BY <1>1, <1>2, <1>3

-----------------------------------------------------------------------------
(* The owners of frameworks.                                               *)

LEMMA SubjectsDistinct ==
  /\ \A i, j : CorporationSubject(i) = CorporationSubject(j) => i = j
  /\ \A i, j : EcosystemSubject(i) = EcosystemSubject(j) => i = j
  /\ \A i, j : CorporationSubject(i) # EcosystemSubject(j)
BY DEF CorporationSubject, EcosystemSubject

LEMMA OwnerOf ==
  /\ \A i : Owner(CorporationSubject(i)) = corporations[i]
  /\ \A i : Owner(EcosystemSubject(i)) = ecosystems[i]
BY DEF CorporationSubject, EcosystemSubject, Owner

LEMMA OwnerAfter ==
  /\ \A i : Owner(CorporationSubject(i))' = corporations'[i]
  /\ \A i : Owner(EcosystemSubject(i))' = ecosystems'[i]
BY DEF CorporationSubject, EcosystemSubject, Owner

\* The owners that are there stay, with their language and active version.
OwnersKept ==
  \A s \in Subjects :
    /\ s \in Subjects'
    /\ Owner(s)'.activeVersion = Owner(s).activeVersion
    /\ Owner(s)'.language = Owner(s).language

\* A step of x/co or x/ec that leaves x/gf's state alone.
LEMMA GfUntouched ==
  ASSUME GfInv, OwnersKept, Subjects' = Subjects, UNCHANGED gfVars,
         counters'.gfv = counters.gfv, counters'.gfd = counters.gfd
  PROVE  GfInv'
<1>1. GfTyped(Subjects)'
  BY DEF GfInv, GfTyped, gfVars
<1>2. VersionIndexAgrees' /\ DocumentsUnique'
  BY DEF GfInv, VersionIndexAgrees, DocumentsUnique, SubjectVersion, gfVars
<1>3. ASSUME NEW s \in Subjects'
      PROVE  InForce(s, Owner(s).activeVersion, Owner(s).language)'
  <2>1. InForce(s, Owner(s).activeVersion, Owner(s).language)
    BY DEF GfInv
  <2>2. /\ Owner(s)'.activeVersion = Owner(s).activeVersion
        /\ Owner(s)'.language = Owner(s).language
    BY DEF OwnersKept
  <2>3. VersionsOf(s)' = VersionsOf(s) /\ \A g, l : DocumentIds(g, l)' = DocumentIds(g, l)
    BY DEF VersionsOf, DocumentIds, gfVars
  <2> QED BY <2>1, <2>2, <2>3 DEF InForce, gfVars
<1> QED BY <1>1, <1>2, <1>3 DEF GfInv

LEMMA OwnersKeptWhen ==
  ASSUME \A i \in DOMAIN corporations :
           /\ i \in DOMAIN corporations'
           /\ corporations'[i].activeVersion = corporations[i].activeVersion
           /\ corporations'[i].language = corporations[i].language,
         \A i \in DOMAIN ecosystems :
           /\ i \in DOMAIN ecosystems'
           /\ ecosystems'[i].activeVersion = ecosystems[i].activeVersion
           /\ ecosystems'[i].language = ecosystems[i].language
  PROVE  OwnersKept
<1> SUFFICES ASSUME NEW s \in Subjects
             PROVE  /\ s \in Subjects'
                    /\ Owner(s)'.activeVersion = Owner(s).activeVersion
                    /\ Owner(s)'.language = Owner(s).language
  BY DEF OwnersKept
<1>1. CASE \E i \in DOMAIN corporations : s = CorporationSubject(i)
  <2>1. PICK i \in DOMAIN corporations : s = CorporationSubject(i)
    BY <1>1
  <2>2. s \in Subjects'
    BY <2>1 DEF Subjects
  <2>3. Owner(s) = corporations[i] /\ Owner(s)' = corporations'[i]
    BY <2>1, OwnerOf, OwnerAfter
  <2> QED BY <2>2, <2>3
<1>2. CASE \E i \in DOMAIN ecosystems : s = EcosystemSubject(i)
  <2>1. PICK i \in DOMAIN ecosystems : s = EcosystemSubject(i)
    BY <1>2
  <2>2. s \in Subjects'
    BY <2>1 DEF Subjects
  <2>3. Owner(s) = ecosystems[i] /\ Owner(s)' = ecosystems'[i]
    BY <2>1, OwnerOf, OwnerAfter
  <2> QED BY <2>2, <2>3
<1> QED BY <1>1, <1>2 DEF Subjects

LEMMA SubjectsKeptWhen ==
  ASSUME DOMAIN corporations' = DOMAIN corporations, DOMAIN ecosystems' = DOMAIN ecosystems
  PROVE  Subjects' = Subjects
BY DEF Subjects, CorporationSubject, EcosystemSubject

\* A new owner, and with it version 1 of its framework.
LEMMA SeedKeeps ==
  ASSUME GfInv, CountersTyped,
         counters'.gfv = counters.gfv + 1, counters'.gfd = counters.gfd + 1,
         NEW subject, subject \notin Subjects, Subjects' = Subjects \cup {subject}, OwnersKept,
         NEW language \in Languages, NEW content \in Contents,
         Owner(subject)'.activeVersion = 1, Owner(subject)'.language = language,
         SeedFramework(subject, language, content)
  PROVE  GfInv'
<1> DEFINE gfv == counters.gfv + 1
           gfd == counters.gfd + 1
           row == [subject |-> subject, version |-> 1, activeSince |-> TRUE]
           doc == [gfv |-> gfv, language |-> language, content |-> content]
           key == <<subject, 1>>
<1>1. /\ ~Has(gfVersionBySubject, key)
      /\ gfv <= MaxVersions
      /\ gfVersions' = Put(gfVersions, gfv, row)
      /\ gfVersionBySubject' = Put(gfVersionBySubject, key, gfv)
      /\ gfDocuments' = Put(gfDocuments, gfd, doc)
  BY DEF SeedFramework
<1>2. counters.gfv \in Nat /\ counters.gfd \in Nat /\ MaxVersions \in Nat
  BY RegistryAssumption DEF CountersTyped
<1>3. counters'.gfv = gfv /\ counters'.gfd = gfd /\ gfv \in Nat /\ gfd \in Nat
  BY <1>2
<1>4. /\ DOMAIN gfVersions = 1 .. counters.gfv
      /\ DOMAIN gfDocuments = 1 .. counters.gfd
      /\ gfv \notin DOMAIN gfVersions /\ gfd \notin DOMAIN gfDocuments
      /\ DOMAIN gfVersions \cup {gfv} = 1 .. gfv
      /\ DOMAIN gfDocuments \cup {gfd} = 1 .. gfd
      /\ 1 \in 1 .. MaxVersions
  BY <1>1, <1>2 DEF GfInv, GfTyped
<1>5. /\ DOMAIN gfVersions' = 1 .. gfv
      /\ gfVersions'[gfv] = row
      /\ \A i \in DOMAIN gfVersions : gfVersions'[i] = gfVersions[i]
  BY <1>1, <1>4 DEF Put
<1>6. /\ DOMAIN gfDocuments' = 1 .. gfd
      /\ gfDocuments'[gfd] = doc
      /\ \A i \in DOMAIN gfDocuments : gfDocuments'[i] = gfDocuments[i]
  BY <1>1, <1>4 DEF Put
<1>7. /\ DOMAIN gfVersionBySubject' = DOMAIN gfVersionBySubject \cup {key}
      /\ key \notin DOMAIN gfVersionBySubject
      /\ gfVersionBySubject'[key] = gfv
      /\ \A k \in DOMAIN gfVersionBySubject : gfVersionBySubject'[k] = gfVersionBySubject[k]
  BY <1>1 DEF Put, Has
<1>8. \A v : <<subject, v>> \notin DOMAIN gfVersionBySubject
  BY DEF GfInv, GfTyped, VersionIndexAgrees, SubjectVersion
<1>9. /\ row \in [subject : Subjects', version : 1 .. MaxVersions, activeSince : BOOLEAN]
      /\ row.subject = subject /\ row.version = 1 /\ row.activeSince = TRUE
  BY <1>4
<1>10. /\ doc \in [gfv : 1 .. gfv, language : Languages, content : Contents]
       /\ doc.gfv = gfv /\ doc.language = language
  BY <1>2
<1>11. /\ gfVersions' = [i \in DOMAIN gfVersions' |-> gfVersions'[i]]
       /\ gfDocuments' = [i \in DOMAIN gfDocuments' |-> gfDocuments'[i]]
       /\ gfVersionBySubject' = [i \in DOMAIN gfVersionBySubject' |-> gfVersionBySubject'[i]]
  BY <1>1 DEF Put
<1> HIDE DEF row, doc, key, gfv, gfd
<1>12. GfTyped(Subjects)'
  <2>1. \A i \in 1 .. gfv :
          gfVersions'[i] \in [subject : Subjects', version : 1 .. MaxVersions,
                              activeSince : BOOLEAN]
    BY <1>4, <1>5, <1>9 DEF GfInv, GfTyped
  <2>2. \A i \in 1 .. gfd :
          gfDocuments'[i] \in [gfv : 1 .. gfv, language : Languages, content : Contents]
    BY <1>4, <1>6, <1>10 DEF GfInv, GfTyped
  <2> QED BY <1>3, <1>5, <1>6, <1>11, <2>1, <2>2 DEF GfTyped
<1>13. VersionIndexAgrees'
  <2>1. SubjectVersion(row) = key
    BY <1>9 DEF SubjectVersion, key
  <2>2. \A k \in DOMAIN gfVersionBySubject' :
          /\ gfVersionBySubject'[k] \in DOMAIN gfVersions'
          /\ SubjectVersion(gfVersions'[gfVersionBySubject'[k]]) = k
    BY <1>4, <1>5, <1>7, <2>1 DEF GfInv, VersionIndexAgrees
  <2>3. \A i \in DOMAIN gfVersions' :
          /\ SubjectVersion(gfVersions'[i]) \in DOMAIN gfVersionBySubject'
          /\ gfVersionBySubject'[SubjectVersion(gfVersions'[i])] = i
    BY <1>4, <1>5, <1>7, <2>1 DEF GfInv, VersionIndexAgrees
  <2> QED BY <1>11, <2>2, <2>3 DEF VersionIndexAgrees, SubjectVersion
<1>14. DocumentsUnique'
  <2>1. \A i \in DOMAIN gfDocuments : gfDocuments[i].gfv # gfv
    BY <1>4 DEF GfInv, GfTyped
  <2> QED BY <1>4, <1>6, <1>10, <2>1 DEF GfInv, DocumentsUnique
<1>15. ASSUME NEW s \in Subjects
       PROVE  InForce(s, Owner(s).activeVersion, Owner(s).language)'
  <2>1. InForce(s, Owner(s).activeVersion, Owner(s).language)
    BY DEF GfInv
  <2>2. /\ Owner(s)'.activeVersion = Owner(s).activeVersion
        /\ Owner(s)'.language = Owner(s).language
    BY DEF OwnersKept
  <2>3. VersionsOf(s)' = VersionsOf(s)
    BY <1>7 DEF VersionsOf, Has, key
  <2>4. ASSUME NEW v \in VersionsOf(s)
        PROVE  /\ gfVersionBySubject'[<<s, v>>] = gfVersionBySubject[<<s, v>>]
               /\ gfVersionBySubject[<<s, v>>] \in DOMAIN gfVersions
    BY <1>7 DEF VersionsOf, Has, GfInv, VersionIndexAgrees
  <2>5. \A g \in DOMAIN gfVersions : \A l : DocumentIds(g, l)' = DocumentIds(g, l)
    BY <1>4, <1>6, <1>10 DEF DocumentIds
  <2> QED BY <1>5, <2>1, <2>2, <2>3, <2>4, <2>5 DEF InForce
<1>16. InForce(subject, Owner(subject).activeVersion, Owner(subject).language)'
  <2>1. VersionsOf(subject)' = {1}
    BY <1>4, <1>7, <1>8 DEF VersionsOf, Has, key
  <2>2. gfVersions'[gfVersionBySubject'[<<subject, 1>>]].activeSince
    BY <1>5, <1>7, <1>9 DEF key
  <2>3. gfd \in DocumentIds(gfVersionBySubject[<<subject, 1>>], language)'
    BY <1>4, <1>6, <1>7, <1>10 DEF DocumentIds, key
  <2>4. {1} = 1 .. 1
    OBVIOUS
  <2> QED BY <2>1, <2>2, <2>3, <2>4 DEF InForce
<1> QED BY <1>12, <1>13, <1>14, <1>15, <1>16 DEF GfInv

-----------------------------------------------------------------------------
(* x/co: its corporations.                                                 *)

\* The steps that leave corporations and ecosystems to their parts.
LEMMA EcUntouched ==
  ASSUME EcInv, UNCHANGED ecVars, counters'.ec = counters.ec,
         DOMAIN corporations \subseteq DOMAIN corporations'
  PROVE  EcInv'
<1>1. /\ UNCHANGED <<ecosystems, ecosystemByDidCorp>>
      /\ ecosystems \in [1 .. counters.ec ->
                           [did : Dids, corporation : DOMAIN corporations,
                            language : Languages, archived : BOOLEAN,
                            activeVersion : Nat]]
  BY DEF EcInv, ecVars
<1>2. ecosystems' \in [1 .. counters'.ec ->
                         [did : Dids, corporation : DOMAIN corporations',
                          language : Languages, archived : BOOLEAN,
                          activeVersion : Nat]]
  BY <1>1
<1> QED BY <1>1, <1>2 DEF EcInv

LEMMA CountersWithCorporation ==
  ASSUME CountersTyped,
         counters' = [counters EXCEPT !.co = @ + 1, !.gfv = @ + 1, !.gfd = @ + 1]
  PROVE  /\ CountersTyped'
         /\ counters.co \in Nat /\ counters'.co = counters.co + 1
         /\ counters'.ec = counters.ec
         /\ counters'.gfv = counters.gfv + 1 /\ counters'.gfd = counters.gfd + 1
<1>1. DOMAIN counters = {"co", "ec", "gfv", "gfd"}
  BY DEF CountersTyped
<1>2. /\ counters'.co = counters.co + 1 /\ counters'.ec = counters.ec
      /\ counters'.gfv = counters.gfv + 1 /\ counters'.gfd = counters.gfd + 1
  BY <1>1
<1>3. /\ counters.co \in Nat /\ counters.ec \in Nat
      /\ counters.gfv \in Nat /\ counters.gfd \in Nat
  BY DEF CountersTyped
<1>4. /\ counters'["co"] \in Nat /\ counters'["ec"] \in Nat
      /\ counters'["gfv"] \in Nat /\ counters'["gfd"] \in Nat
  BY <1>2, <1>3
<1>5. counters' \in [DOMAIN counters -> {counters'[f] : f \in DOMAIN counters}]
  OBVIOUS
<1> QED BY <1>1, <1>2, <1>3, <1>4, <1>5 DEF CountersTyped

LEMMA CreateCorporationKeeps ==
  ASSUME RegistryInv, NEW did \in Dids, NEW language \in Languages,
         NEW content \in Contents, CreateCorporation(did, language, content)
  PROVE  RegistryInv' /\ OwnersKept
<1> PICK id : id = counters.co + 1
  OBVIOUS
<1> DEFINE row == [did |-> did, language |-> language, activeVersion |-> 1]
<1>1. /\ ~Has(corporationByDid, did)
      /\ corporations' = Put(corporations, id, row)
      /\ corporationByDid' = Put(corporationByDid, did, id)
      /\ SeedFramework(CorporationSubject(id), language, content)
      /\ UNCHANGED ecVars
  BY DEF CreateCorporation
<1>2. /\ CountersTyped'
      /\ counters'.co = id /\ counters'.ec = counters.ec
      /\ counters'.gfv = counters.gfv + 1 /\ counters'.gfd = counters.gfd + 1
      /\ counters.co \in Nat /\ id \in Nat
  <2>1. counters' = [counters EXCEPT !.co = @ + 1, !.gfv = @ + 1, !.gfd = @ + 1]
    BY DEF CreateCorporation
  <2>2. CountersTyped
    BY DEF RegistryInv
  <2> QED BY <2>1, <2>2, CountersWithCorporation
<1>3. /\ DOMAIN corporations = 1 .. counters.co
      /\ id \notin DOMAIN corporations
      /\ DOMAIN corporations \cup {id} = 1 .. id
  BY <1>2 DEF RegistryInv, CoInv
<1>4. /\ DOMAIN corporations' = 1 .. id
      /\ corporations' = [i \in DOMAIN corporations' |-> corporations'[i]]
      /\ corporations'[id] = row
      /\ \A i \in DOMAIN corporations : corporations'[i] = corporations[i]
  BY <1>1, <1>3 DEF Put
<1>5. /\ DOMAIN corporationByDid' = DOMAIN corporationByDid \cup {did}
      /\ did \notin DOMAIN corporationByDid
      /\ corporationByDid' = [i \in DOMAIN corporationByDid' |-> corporationByDid'[i]]
      /\ corporationByDid'[did] = id
      /\ \A k \in DOMAIN corporationByDid : corporationByDid'[k] = corporationByDid[k]
  BY <1>1 DEF Put, Has
<1>6. /\ row \in [did : Dids, language : Languages, activeVersion : Nat]
      /\ row.did = did /\ row.activeVersion = 1 /\ row.language = language
  OBVIOUS
<1> HIDE DEF row
<1>7. CoInv'
  <2>1. \A i \in 1 .. id :
          corporations'[i] \in [did : Dids, language : Languages, activeVersion : Nat]
    BY <1>3, <1>4, <1>6 DEF RegistryInv, CoInv
  <2>2. \A k \in DOMAIN corporationByDid' :
          /\ corporationByDid'[k] \in DOMAIN corporations'
          /\ corporations'[corporationByDid'[k]].did = k
    BY <1>3, <1>4, <1>5, <1>6 DEF RegistryInv, CoInv
  <2>3. \A i \in DOMAIN corporations' :
          /\ corporations'[i].did \in DOMAIN corporationByDid'
          /\ corporationByDid'[corporations'[i].did] = i
    BY <1>3, <1>4, <1>5, <1>6 DEF RegistryInv, CoInv
  <2> QED BY <1>2, <1>4, <1>5, <2>1, <2>2, <2>3 DEF CoInv
<1>8. EcInv'
  BY <1>1, <1>2, <1>3, <1>4, EcUntouched DEF RegistryInv
<1>9. OwnersKept
  <2>1. UNCHANGED ecosystems
    BY <1>1 DEF ecVars
  <2> QED BY <1>3, <1>4, <2>1, OwnersKeptWhen
<1>10. GfInv'
  <2>1. CorporationSubject(id) \notin Subjects
    BY <1>3, SubjectsDistinct DEF Subjects
  <2>2. Subjects' = Subjects \cup {CorporationSubject(id)}
    <3>1. UNCHANGED ecosystems
      BY <1>1 DEF ecVars
    <3>2. DOMAIN corporations' = DOMAIN corporations \cup {id}
      BY <1>3, <1>4
    <3> QED BY <3>1, <3>2 DEF Subjects, CorporationSubject, EcosystemSubject
  <2>3. /\ Owner(CorporationSubject(id))'.activeVersion = 1
        /\ Owner(CorporationSubject(id))'.language = language
    <3>1. corporations'[id].activeVersion = 1 /\ corporations'[id].language = language
      BY <1>4, <1>6
    <3>2. id \in Nat
      BY <1>2
    <3>3. ASSUME NEW i \in Nat, corporations'[i].activeVersion = 1,
                 corporations'[i].language = language
          PROVE  /\ Owner(CorporationSubject(i))'.activeVersion = 1
                 /\ Owner(CorporationSubject(i))'.language = language
      BY <3>3, OwnerAfter
    <3> QED BY <3>1, <3>2, <3>3
  <2> QED BY <1>1, <1>2, <1>9, <2>1, <2>2, <2>3, SeedKeeps DEF RegistryInv
<1> QED BY <1>2, <1>7, <1>8, <1>9, <1>10 DEF RegistryInv

LEMMA UpdateCorporationKeeps ==
  ASSUME RegistryInv, NEW id \in DOMAIN corporations, NEW did \in Dids,
         UpdateCorporation(id, did)
  PROVE  RegistryInv' /\ OwnersKept
<1> PICK row : row = [corporations[id] EXCEPT !.did = did]
  OBVIOUS
<1> PICK old : old = corporations[id].did
  OBVIOUS
<1>1. /\ did \notin DOMAIN corporationByDid
      /\ corporations' = [corporations EXCEPT ![id] = row]
      /\ corporationByDid' = Put(Remove(corporationByDid, old), did, id)
      /\ UNCHANGED <<ecVars, gfVars, counters>>
  BY DEF UpdateCorporation, DidIndexAfter, Has
<1>2. /\ corporations \in
           [1 .. counters.co -> [did : Dids, language : Languages, activeVersion : Nat]]
      /\ row \in [did : Dids, language : Languages, activeVersion : Nat]
      /\ row.did = did
      /\ row.language = corporations[id].language
      /\ row.activeVersion = corporations[id].activeVersion
  BY DEF RegistryInv, CoInv
<1>3. /\ DOMAIN corporations' = DOMAIN corporations
      /\ corporations' \in
           [1 .. counters.co -> [did : Dids, language : Languages, activeVersion : Nat]]
      /\ corporations'[id] = row
      /\ \A i \in DOMAIN corporations : i # id => corporations'[i] = corporations[i]
  BY <1>1, <1>2
<1>4. /\ DOMAIN corporationByDid' = (DOMAIN corporationByDid \ {old}) \cup {did}
      /\ corporationByDid' = [i \in DOMAIN corporationByDid' |-> corporationByDid'[i]]
      /\ corporationByDid'[did] = id
      /\ \A k \in DOMAIN corporationByDid \ {old} :
           corporationByDid'[k] = corporationByDid[k]
  BY <1>1 DEF Put, Remove
<1>5. CoInv'
  <2>1. \A k \in DOMAIN corporationByDid' :
          /\ corporationByDid'[k] \in DOMAIN corporations'
          /\ corporations'[corporationByDid'[k]].did = k
    <3>1. corporations'[corporationByDid'[did]].did = did
      BY <1>2, <1>3, <1>4
    <3>2. ASSUME NEW k \in DOMAIN corporationByDid \ {old}
          PROVE  /\ corporationByDid'[k] \in DOMAIN corporations'
                 /\ corporations'[corporationByDid'[k]].did = k
      <4>1. corporationByDid[k] \in DOMAIN corporations
        BY DEF RegistryInv, CoInv
      <4>2. corporations[corporationByDid[k]].did = k
        BY DEF RegistryInv, CoInv
      <4> QED BY <1>3, <1>4, <4>1, <4>2
    <3> QED BY <1>3, <1>4, <3>1, <3>2
  <2>2. \A i \in DOMAIN corporations' :
          /\ corporations'[i].did \in DOMAIN corporationByDid'
          /\ corporationByDid'[corporations'[i].did] = i
    BY <1>1, <1>2, <1>3, <1>4 DEF RegistryInv, CoInv
  <2> QED BY <1>1, <1>3, <1>4, <2>1, <2>2 DEF CoInv
<1>6. EcInv'
  BY <1>1, <1>3, EcUntouched DEF RegistryInv
<1>7. UNCHANGED ecosystems
  BY <1>1 DEF ecVars
<1>8. OwnersKept
  <2>1. \A i \in DOMAIN corporations :
          /\ corporations'[i].activeVersion = corporations[i].activeVersion
          /\ corporations'[i].language = corporations[i].language
    BY <1>2, <1>3
  <2> QED BY <1>3, <1>7, <2>1, OwnersKeptWhen
<1>9. GfInv'
  BY <1>1, <1>3, <1>7, <1>8, SubjectsKeptWhen, GfUntouched DEF RegistryInv
<1>10. CountersTyped'
  BY <1>1 DEF RegistryInv, CountersTyped
<1> QED BY <1>5, <1>6, <1>8, <1>9, <1>10 DEF RegistryInv

-----------------------------------------------------------------------------
(* x/ec: its ecosystems.                                                   *)

LEMMA CoUntouched ==
  ASSUME CoInv, UNCHANGED coVars, counters'.co = counters.co
  PROVE  CoInv'
BY DEF CoInv, coVars

LEMMA CountersWithEcosystem ==
  ASSUME CountersTyped,
         counters' = [counters EXCEPT !.ec = @ + 1, !.gfv = @ + 1, !.gfd = @ + 1]
  PROVE  /\ CountersTyped'
         /\ counters.ec \in Nat /\ counters'.ec = counters.ec + 1
         /\ counters'.co = counters.co
         /\ counters'.gfv = counters.gfv + 1 /\ counters'.gfd = counters.gfd + 1
<1>1. DOMAIN counters = {"co", "ec", "gfv", "gfd"}
  BY DEF CountersTyped
<1>2. /\ counters'.ec = counters.ec + 1 /\ counters'.co = counters.co
      /\ counters'.gfv = counters.gfv + 1 /\ counters'.gfd = counters.gfd + 1
  BY <1>1
<1>3. /\ counters.co \in Nat /\ counters.ec \in Nat
      /\ counters.gfv \in Nat /\ counters.gfd \in Nat
  BY DEF CountersTyped
<1>4. /\ counters'["co"] \in Nat /\ counters'["ec"] \in Nat
      /\ counters'["gfv"] \in Nat /\ counters'["gfd"] \in Nat
  BY <1>2, <1>3
<1>5. counters' \in [DOMAIN counters -> {counters'[f] : f \in DOMAIN counters}]
  OBVIOUS
<1> QED BY <1>1, <1>2, <1>3, <1>4, <1>5 DEF CountersTyped

EcosystemRows(corps) ==
  [did : Dids, corporation : corps, language : Languages, archived : BOOLEAN,
   activeVersion : Nat]

LEMMA CreateEcosystemKeeps ==
  ASSUME RegistryInv, NEW corp \in DOMAIN corporations, NEW did \in Dids,
         NEW language \in Languages, NEW content \in Contents,
         CreateEcosystem(corp, did, language, content)
  PROVE  RegistryInv' /\ OwnersKept
<1> PICK id : id = counters.ec + 1
  OBVIOUS
<1> DEFINE row == [did |-> did, corporation |-> corp, language |-> language,
                   archived |-> FALSE, activeVersion |-> 1]
           key == <<did, corp>>
<1>1. /\ ecosystems' = Put(ecosystems, id, row)
      /\ ecosystemByDidCorp' = Put(ecosystemByDidCorp, key, id)
      /\ SeedFramework(EcosystemSubject(id), language, content)
      /\ UNCHANGED coVars
  BY DEF CreateEcosystem
<1>2. /\ CountersTyped'
      /\ counters'.ec = id /\ counters'.co = counters.co
      /\ counters'.gfv = counters.gfv + 1 /\ counters'.gfd = counters.gfd + 1
      /\ counters.ec \in Nat /\ id \in Nat
  <2>1. counters' = [counters EXCEPT !.ec = @ + 1, !.gfv = @ + 1, !.gfd = @ + 1]
    BY DEF CreateEcosystem
  <2>2. CountersTyped
    BY DEF RegistryInv
  <2> QED BY <2>1, <2>2, CountersWithEcosystem
<1>3. /\ ecosystems \in [1 .. counters.ec -> EcosystemRows(DOMAIN corporations)]
      /\ DOMAIN ecosystems = 1 .. counters.ec
      /\ id \notin DOMAIN ecosystems
      /\ DOMAIN ecosystems \cup {id} = 1 .. id
  BY <1>2 DEF RegistryInv, EcInv, EcosystemRows
<1>4. /\ DOMAIN ecosystems' = 1 .. id
      /\ ecosystems' = [i \in DOMAIN ecosystems' |-> ecosystems'[i]]
      /\ ecosystems'[id] = row
      /\ \A i \in DOMAIN ecosystems : ecosystems'[i] = ecosystems[i]
  BY <1>1, <1>3 DEF Put
<1>5. /\ DOMAIN ecosystemByDidCorp' = DOMAIN ecosystemByDidCorp \cup {key}
      /\ ecosystemByDidCorp' = [i \in DOMAIN ecosystemByDidCorp' |-> ecosystemByDidCorp'[i]]
      /\ ecosystemByDidCorp'[key] = id
      /\ \A k \in DOMAIN ecosystemByDidCorp \ {key} :
           ecosystemByDidCorp'[k] = ecosystemByDidCorp[k]
  BY <1>1 DEF Put
<1>6. /\ row \in EcosystemRows(DOMAIN corporations)
      /\ <<row.did, row.corporation>> = key
      /\ row.activeVersion = 1 /\ row.language = language
  BY DEF EcosystemRows
<1> HIDE DEF row, key
<1>7. UNCHANGED corporations
  BY <1>1 DEF coVars
<1>8. EcInv'
  <2>1. \A i \in 1 .. id : ecosystems'[i] \in EcosystemRows(DOMAIN corporations)
    BY <1>3, <1>4, <1>6
  <2>2. ecosystems' \in [1 .. counters'.ec -> EcosystemRows(DOMAIN corporations')]
    BY <1>2, <1>4, <1>7, <2>1
  <2>3. \A k \in DOMAIN ecosystemByDidCorp' :
          /\ ecosystemByDidCorp'[k] \in DOMAIN ecosystems'
          /\ LET e == ecosystems'[ecosystemByDidCorp'[k]]
             IN  <<e.did, e.corporation>> = k
    BY <1>3, <1>4, <1>5, <1>6 DEF RegistryInv, EcInv
  <2> QED BY <1>5, <2>2, <2>3 DEF EcInv, EcosystemRows
<1>9. OwnersKept
  BY <1>3, <1>4, <1>7, OwnersKeptWhen
<1>10. GfInv'
  <2>1. EcosystemSubject(id) \notin Subjects
    BY <1>3, SubjectsDistinct DEF Subjects
  <2>2. Subjects' = Subjects \cup {EcosystemSubject(id)}
    <3>1. DOMAIN ecosystems' = DOMAIN ecosystems \cup {id}
      BY <1>3, <1>4
    <3> QED BY <1>7, <3>1 DEF Subjects, CorporationSubject, EcosystemSubject
  <2>3. /\ Owner(EcosystemSubject(id))'.activeVersion = 1
        /\ Owner(EcosystemSubject(id))'.language = language
    <3>1. ecosystems'[id].activeVersion = 1 /\ ecosystems'[id].language = language
      BY <1>4, <1>6
    <3> QED BY <3>1, OwnerAfter
  <2> QED BY <1>1, <1>2, <1>9, <2>1, <2>2, <2>3, SeedKeeps DEF RegistryInv
<1>11. CoInv'
  BY <1>1, <1>2, CoUntouched DEF RegistryInv
<1> QED BY <1>2, <1>8, <1>9, <1>10, <1>11 DEF RegistryInv

\* The active version and the language of an ecosystem that changes stay.
LEMMA ChangeEcosystemKeeps ==
  ASSUME RegistryInv, NEW id \in DOMAIN ecosystems,
         NEW row \in EcosystemRows(DOMAIN corporations),
         row.language = ecosystems[id].language,
         row.activeVersion = ecosystems[id].activeVersion,
         ecosystems' = [ecosystems EXCEPT ![id] = row],
         UNCHANGED <<coVars, gfVars, counters>>
  PROVE  /\ ecosystems' \in [1 .. counters.ec -> EcosystemRows(DOMAIN corporations')]
         /\ OwnersKept /\ CountersTyped' /\ CoInv' /\ GfInv'
<1>1. ecosystems \in [1 .. counters.ec -> EcosystemRows(DOMAIN corporations)]
  BY DEF RegistryInv, EcInv, EcosystemRows
<1>2. UNCHANGED corporations
  BY DEF coVars
<1>3. /\ ecosystems' \in [1 .. counters.ec -> EcosystemRows(DOMAIN corporations')]
      /\ DOMAIN ecosystems' = DOMAIN ecosystems
  BY <1>1, <1>2
<1>4. OwnersKept
  BY <1>1, <1>2, <1>3, OwnersKeptWhen
<1>5. CountersTyped' /\ CoInv'
  BY CoUntouched DEF RegistryInv, CountersTyped
<1>6. GfInv'
  BY <1>2, <1>3, <1>4, SubjectsKeptWhen, GfUntouched DEF RegistryInv
<1> QED BY <1>3, <1>4, <1>5, <1>6

LEMMA UpdateEcosystemKeeps ==
  ASSUME RegistryInv, NEW corp, NEW id \in DOMAIN ecosystems, NEW did \in Dids,
         UpdateEcosystem(corp, id, did)
  PROVE  RegistryInv' /\ OwnersKept
<1> PICK row : row = [ecosystems[id] EXCEPT !.did = did]
  OBVIOUS
<1> PICK old : old = <<ecosystems[id].did, corp>>
  OBVIOUS
<1> PICK key : key = <<did, corp>>
  OBVIOUS
<1>1. /\ ecosystems[id].corporation = corp
      /\ ecosystems' = [ecosystems EXCEPT ![id] = row]
      /\ ecosystemByDidCorp' = Put(Remove(ecosystemByDidCorp, old), key, id)
      /\ UNCHANGED <<coVars, gfVars, counters>>
  BY DEF UpdateEcosystem
<1>2. /\ ecosystems \in [1 .. counters.ec -> EcosystemRows(DOMAIN corporations)]
      /\ row \in EcosystemRows(DOMAIN corporations)
      /\ <<row.did, row.corporation>> = key
      /\ row.language = ecosystems[id].language
      /\ row.activeVersion = ecosystems[id].activeVersion
  BY <1>1 DEF RegistryInv, EcInv, EcosystemRows
<1>3. /\ ecosystems' \in [1 .. counters.ec -> EcosystemRows(DOMAIN corporations')]
      /\ OwnersKept /\ CountersTyped' /\ CoInv' /\ GfInv'
  BY <1>1, <1>2, ChangeEcosystemKeeps
<1>4. /\ DOMAIN ecosystems' = DOMAIN ecosystems
      /\ ecosystems'[id] = row
      /\ \A i \in DOMAIN ecosystems : i # id => ecosystems'[i] = ecosystems[i]
  BY <1>1, <1>2
<1>5. /\ DOMAIN ecosystemByDidCorp' = (DOMAIN ecosystemByDidCorp \ {old}) \cup {key}
      /\ ecosystemByDidCorp' = [i \in DOMAIN ecosystemByDidCorp' |-> ecosystemByDidCorp'[i]]
      /\ ecosystemByDidCorp'[key] = id
      /\ \A k \in DOMAIN ecosystemByDidCorp \ {old} :
           k # key => ecosystemByDidCorp'[k] = ecosystemByDidCorp[k]
  BY <1>1 DEF Put, Remove
<1>6. EcInv'
  <2>1. ASSUME NEW k \in DOMAIN ecosystemByDidCorp \ {old}, k # key
        PROVE  /\ ecosystemByDidCorp'[k] \in DOMAIN ecosystems'
               /\ LET e == ecosystems'[ecosystemByDidCorp'[k]]
                  IN  <<e.did, e.corporation>> = k
    <3>1. /\ ecosystemByDidCorp[k] \in DOMAIN ecosystems
          /\ LET e == ecosystems[ecosystemByDidCorp[k]]
             IN  <<e.did, e.corporation>> = k
      BY DEF RegistryInv, EcInv
    <3>2. ecosystemByDidCorp[k] # id
      BY <1>1, <3>1
    <3> QED BY <1>4, <1>5, <2>1, <3>1, <3>2
  <2>2. /\ ecosystemByDidCorp'[key] \in DOMAIN ecosystems'
        /\ LET e == ecosystems'[ecosystemByDidCorp'[key]]
           IN  <<e.did, e.corporation>> = key
    BY <1>2, <1>4, <1>5
  <2>3. \A k \in DOMAIN ecosystemByDidCorp' :
          /\ ecosystemByDidCorp'[k] \in DOMAIN ecosystems'
          /\ LET e == ecosystems'[ecosystemByDidCorp'[k]]
             IN  <<e.did, e.corporation>> = k
    BY <1>5, <2>1, <2>2
  <2> QED BY <1>1, <1>3, <1>5, <2>3 DEF EcInv, EcosystemRows
<1> QED BY <1>3, <1>6 DEF RegistryInv

LEMMA ArchiveEcosystemKeeps ==
  ASSUME RegistryInv, NEW corp, NEW id \in DOMAIN ecosystems, NEW archive \in BOOLEAN,
         ArchiveEcosystem(corp, id, archive)
  PROVE  RegistryInv' /\ OwnersKept
<1> PICK row : row = [ecosystems[id] EXCEPT !.archived = archive]
  OBVIOUS
<1>1. /\ ecosystems' = [ecosystems EXCEPT ![id] = row]
      /\ UNCHANGED <<coVars, ecosystemByDidCorp, gfVars, counters>>
  BY DEF ArchiveEcosystem
<1>2. /\ ecosystems \in [1 .. counters.ec -> EcosystemRows(DOMAIN corporations)]
      /\ row \in EcosystemRows(DOMAIN corporations)
      /\ row.did = ecosystems[id].did
      /\ row.corporation = ecosystems[id].corporation
      /\ row.language = ecosystems[id].language
      /\ row.activeVersion = ecosystems[id].activeVersion
  BY DEF RegistryInv, EcInv, EcosystemRows
<1>3. /\ ecosystems' \in [1 .. counters.ec -> EcosystemRows(DOMAIN corporations')]
      /\ OwnersKept /\ CountersTyped' /\ CoInv' /\ GfInv'
  BY <1>1, <1>2, ChangeEcosystemKeeps
<1>4. /\ DOMAIN ecosystems' = DOMAIN ecosystems
      /\ \A i \in DOMAIN ecosystems :
           /\ ecosystems'[i].did = ecosystems[i].did
           /\ ecosystems'[i].corporation = ecosystems[i].corporation
  BY <1>1, <1>2
<1>5. EcInv'
  BY <1>1, <1>3, <1>4 DEF RegistryInv, EcInv, EcosystemRows
<1> QED BY <1>3, <1>5 DEF RegistryInv

-----------------------------------------------------------------------------
(* x/gf: documents and active versions.                                    *)

LEMMA LargestOfInterval ==
  ASSUME NEW n \in Nat \ {0}
  PROVE  Largest(1 .. n) = n
<1>1. n \in 1 .. n /\ \A y \in 1 .. n : y <= n
  OBVIOUS
<1> QED BY <1>1 DEF Largest

\* A version that is to be active or to have a document, and the framework it is of.
LEMMA FrameworkOf ==
  ASSUME RegistryInv, NEW subject \in Subjects
  PROVE  \E n \in Nat \ {0} :
           /\ VersionsOf(subject) = 1 .. n
           /\ n <= MaxVersions
           /\ Largest(VersionsOf(subject)) = n
           /\ Owner(subject).activeVersion \in 1 .. n
<1>1. PICK n \in Nat : VersionsOf(subject) = 1 .. n
  BY DEF RegistryInv, GfInv, InForce
<1>2. Owner(subject).activeVersion \in 1 .. n
  BY <1>1 DEF RegistryInv, GfInv, InForce
<1>3. n \in Nat \ {0} /\ n \in 1 .. n
  BY <1>2
<1>4. n <= MaxVersions
  <2>1. n \in 1 .. MaxVersions /\ MaxVersions \in Nat
    BY <1>1, <1>3, RegistryAssumption DEF VersionsOf
  <2> QED BY <2>1
<1>5. Largest(1 .. n) = n
  BY <1>3, LargestOfInterval
<1>6. /\ VersionsOf(subject) = 1 .. n
      /\ n <= MaxVersions
      /\ Largest(VersionsOf(subject)) = n
      /\ Owner(subject).activeVersion \in 1 .. n
  BY <1>1, <1>2, <1>4, <1>5
<1> QED BY <1>3, <1>6, Zenon

LEMMA CountersWithDocument ==
  ASSUME CountersTyped, NEW gfv \in Nat, NEW gfd \in Nat,
         counters' = [counters EXCEPT !.gfv = gfv, !.gfd = gfd]
  PROVE  /\ CountersTyped'
         /\ counters'.co = counters.co /\ counters'.ec = counters.ec
         /\ counters'.gfv = gfv /\ counters'.gfd = gfd
<1>1. DOMAIN counters = {"co", "ec", "gfv", "gfd"}
  BY DEF CountersTyped
<1>2. /\ counters'.ec = counters.ec /\ counters'.co = counters.co
      /\ counters'.gfv = gfv /\ counters'.gfd = gfd
  BY <1>1
<1>3. counters.co \in Nat /\ counters.ec \in Nat
  BY DEF CountersTyped
<1>4. /\ counters'["co"] \in Nat /\ counters'["ec"] \in Nat
      /\ counters'["gfv"] \in Nat /\ counters'["gfd"] \in Nat
  BY <1>2, <1>3
<1>5. counters' \in [DOMAIN counters -> {counters'[f] : f \in DOMAIN counters}]
  OBVIOUS
<1> QED BY <1>1, <1>2, <1>3, <1>4, <1>5 DEF CountersTyped

(***************************************************************************)
(* What a document does to x/gf's state: the row gfv of its version is     *)
(* there afterwards and not active, and the document gfd is the only one   *)
(* of that row in its language.                                            *)
(***************************************************************************)
DocumentAdded(subject, version, language, content, gfv, gfd) ==
  /\ version \in Nat
  /\ version > Owner(subject).activeVersion
  /\ version - 1 \in VersionsOf(subject) \cup {0}
  /\ CountersTyped' /\ counters'.co = counters.co /\ counters'.ec = counters.ec
  /\ DOMAIN gfVersions' = DOMAIN gfVersions \cup {gfv}
  /\ DOMAIN gfVersions' = 1 .. counters'.gfv
  /\ gfVersions'[gfv] \in [subject : Subjects, version : 1 .. MaxVersions,
                           activeSince : {FALSE}]
  /\ SubjectVersion(gfVersions'[gfv]) = <<subject, version>>
  /\ \A i \in DOMAIN gfVersions : gfVersions'[i] = gfVersions[i]
  /\ gfVersions' = [i \in DOMAIN gfVersions' |-> gfVersions'[i]]
  /\ DOMAIN gfVersionBySubject' = DOMAIN gfVersionBySubject \cup {<<subject, version>>}
  /\ gfVersionBySubject'[<<subject, version>>] = gfv
  /\ \A k \in DOMAIN gfVersionBySubject :
       /\ gfVersionBySubject'[k] = gfVersionBySubject[k]
       /\ k # <<subject, version>> => gfVersionBySubject[k] # gfv
  /\ gfVersionBySubject' = [k \in DOMAIN gfVersionBySubject' |-> gfVersionBySubject'[k]]
  /\ DOMAIN gfDocuments' = DOMAIN gfDocuments \cup {gfd}
  /\ DOMAIN gfDocuments' = 1 .. counters'.gfd
  /\ gfDocuments'[gfd] = [gfv |-> gfv, language |-> language, content |-> content]
  /\ \A i \in DOMAIN gfDocuments :
       /\ i # gfd => gfDocuments'[i] = gfDocuments[i]
       /\ i = gfd => gfDocuments[i].gfv = gfv
       /\ gfDocuments[i].gfv = gfv /\ gfDocuments[i].language = language => i = gfd
  /\ gfDocuments' = [i \in DOMAIN gfDocuments' |-> gfDocuments'[i]]

LEMMA AddDocumentDoes ==
  ASSUME RegistryInv, NEW corp, NEW subject \in Subjects, NEW version \in 1 .. MaxVersions,
         NEW language \in Languages, NEW content \in Contents,
         AddGovernanceFrameworkDocument(corp, subject, version, language, content)
  PROVE  \E gfv, gfd : DocumentAdded(subject, version, language, content, gfv, gfd)
<1> DEFINE known == version \in VersionsOf(subject)
<1>1. PICK key : key = <<subject, version>>
  OBVIOUS
<1>2. PICK gfv : gfv = IF known THEN gfVersionBySubject[key] ELSE counters.gfv + 1
  OBVIOUS
<1>3. PICK existing : existing = DocumentIds(gfv, language)
  OBVIOUS
<1>4. PICK gfd : gfd = IF existing # {} THEN CHOOSE id \in existing : TRUE ELSE counters.gfd + 1
  OBVIOUS
<1>5. PICK created : created = [subject |-> subject, version |-> version, activeSince |-> FALSE]
  OBVIOUS
<1>6. PICK doc : doc = [gfv |-> gfv, language |-> language, content |-> content]
  OBVIOUS
<1>7. /\ MayAdd(subject, version)
      /\ gfVersions' = IF known THEN gfVersions ELSE Put(gfVersions, gfv, created)
      /\ gfVersionBySubject' = Put(gfVersionBySubject, key, gfv)
      /\ gfDocuments' = Put(gfDocuments, gfd, doc)
  BY <1>1, <1>2, <1>3, <1>4, <1>5, <1>6, Zenon DEF AddGovernanceFrameworkDocument
<1>8. counters' = [counters EXCEPT !.gfv = IF known THEN counters.gfv ELSE gfv,
                                   !.gfd = IF existing # {} THEN counters.gfd ELSE gfd]
  BY <1>1, <1>2, <1>3, <1>4, <1>5, <1>6, Zenon DEF AddGovernanceFrameworkDocument
<1>9. /\ counters.gfv \in Nat /\ counters.gfd \in Nat
      /\ DOMAIN gfVersions = 1 .. counters.gfv /\ DOMAIN gfDocuments = 1 .. counters.gfd
  BY DEF RegistryInv, CountersTyped, GfInv, GfTyped
<1>10. /\ version \in Nat /\ version > Owner(subject).activeVersion
       /\ version - 1 \in VersionsOf(subject) \cup {0}
  <2>1. PICK n \in Nat \ {0} :
          /\ VersionsOf(subject) = 1 .. n
          /\ Largest(VersionsOf(subject)) = n
    BY FrameworkOf
  <2>2. version \in 1 .. n \/ version - 1 = n
    BY <1>7, <2>1 DEF MayAdd
  <2>3. version > Owner(subject).activeVersion
    BY <1>7 DEF MayAdd
  <2> QED BY <2>1, <2>2, <2>3
<1>11. known <=> key \in DOMAIN gfVersionBySubject
  BY <1>1 DEF VersionsOf, Has
<1>12. /\ gfv \in Nat /\ counters.gfv + 1 \in Nat
       /\ known => gfv = gfVersionBySubject[key] /\ gfv \in DOMAIN gfVersions
       /\ ~known => gfv = counters.gfv + 1 /\ gfv \notin DOMAIN gfVersions
  BY <1>2, <1>9, <1>11 DEF RegistryInv, GfInv, VersionIndexAgrees
<1>13. /\ created \in [subject : Subjects, version : 1 .. MaxVersions, activeSince : {FALSE}]
       /\ SubjectVersion(created) = key
  BY <1>1, <1>5 DEF SubjectVersion
<1>14. ASSUME known
      PROVE  /\ gfVersions[gfv] \in [subject : Subjects, version : 1 .. MaxVersions,
                                     activeSince : {FALSE}]
             /\ SubjectVersion(gfVersions[gfv]) = key
  <2>1. SubjectVersion(gfVersions[gfv]) = key
    <3>1. key \in DOMAIN gfVersionBySubject
      BY <1>11, <1>14
    <3>2. gfv = gfVersionBySubject[key]
      BY <1>12, <1>14
    <3>3. SubjectVersion(gfVersions[gfVersionBySubject[key]]) = key
      BY <3>1 DEF RegistryInv, GfInv, VersionIndexAgrees
    <3> QED BY <3>2, <3>3
  <2>2. version \in VersionsOf(subject)
    BY <1>14
  <2>3. gfVersions[gfv].activeSince <=> version <= Owner(subject).activeVersion
    BY <1>1, <1>12, <1>14, <2>2 DEF RegistryInv, GfInv, InForce
  <2>4. Owner(subject).activeVersion \in Nat
    BY FrameworkOf
  <2>5. ~(version <= Owner(subject).activeVersion)
    BY <1>10, <2>4
  <2>6. gfVersions[gfv] \in [subject : Subjects, version : 1 .. MaxVersions,
                             activeSince : BOOLEAN]
    BY <1>12, <1>14 DEF RegistryInv, GfInv, GfTyped
  <2> QED BY <2>1, <2>3, <2>5, <2>6
<1>15. \A i \in existing : /\ i \in DOMAIN gfDocuments
                          /\ gfDocuments[i].gfv = gfv
                          /\ gfDocuments[i].language = language
  BY <1>3 DEF DocumentIds
<1>16. /\ gfd \in Nat /\ counters.gfd + 1 \in Nat
       /\ existing # {} => gfd \in existing
       /\ existing = {} => gfd = counters.gfd + 1 /\ gfd \notin DOMAIN gfDocuments
  <2>1. CASE existing = {}
    <3>1. gfd = counters.gfd + 1
      BY <1>4, <2>1
    <3> QED BY <1>9, <2>1, <3>1
  <2>2. CASE existing # {}
    <3>1. gfd = CHOOSE i \in existing : TRUE
      BY <1>4, <2>2
    <3>2. gfd \in existing
      BY <2>2, <3>1
    <3> QED BY <1>9, <1>15, <2>2, <3>2
  <2> QED BY <2>1, <2>2
<1>17. /\ CountersTyped' /\ counters'.co = counters.co /\ counters'.ec = counters.ec
       /\ counters'.gfv = IF known THEN counters.gfv ELSE gfv
       /\ counters'.gfd = IF existing # {} THEN counters.gfd ELSE gfd
  <2>1. CountersTyped
    BY DEF RegistryInv
  <2> DEFINE a == IF known THEN counters.gfv ELSE gfv
             b == IF existing # {} THEN counters.gfd ELSE gfd
  <2>2. a \in Nat /\ b \in Nat
    BY <1>9, <1>12, <1>16
  <2>3. counters' = [counters EXCEPT !.gfv = a, !.gfd = b]
    BY <1>8
  <2> HIDE DEF a, b
  <2>4. /\ CountersTyped' /\ counters'.co = counters.co /\ counters'.ec = counters.ec
        /\ counters'.gfv = a /\ counters'.gfd = b
    BY <2>1, <2>2, <2>3, CountersWithDocument
  <2> QED BY <2>4 DEF a, b
<1>18. /\ DOMAIN gfVersions' = DOMAIN gfVersions \cup {gfv}
       /\ DOMAIN gfVersions' = 1 .. counters'.gfv
       /\ \A i \in DOMAIN gfVersions : gfVersions'[i] = gfVersions[i]
       /\ gfVersions' = [i \in DOMAIN gfVersions' |-> gfVersions'[i]]
       /\ gfVersions'[gfv] \in [subject : Subjects, version : 1 .. MaxVersions,
                                activeSince : {FALSE}]
       /\ SubjectVersion(gfVersions'[gfv]) = key
  <2>1. CASE known
    <3>1. gfVersions' = gfVersions /\ counters'.gfv = counters.gfv
      BY <1>7, <1>17, <2>1
    <3>2. gfVersions = [i \in DOMAIN gfVersions |-> gfVersions[i]]
      BY DEF RegistryInv, GfInv, GfTyped
    <3> QED BY <1>9, <1>12, <1>14, <2>1, <3>1, <3>2
  <2>2. CASE ~known
    <3>1. gfVersions' = Put(gfVersions, gfv, created) /\ counters'.gfv = gfv
      BY <1>7, <1>17, <2>2
    <3>2. DOMAIN gfVersions \cup {gfv} = 1 .. gfv
      BY <1>9, <1>12, <2>2
    <3> QED BY <1>12, <1>13, <2>2, <3>1, <3>2 DEF Put
  <2> QED BY <1>11, <2>1, <2>2
<1>19. /\ DOMAIN gfVersionBySubject' = DOMAIN gfVersionBySubject \cup {key}
       /\ gfVersionBySubject'[key] = gfv
       /\ \A k \in DOMAIN gfVersionBySubject :
            /\ gfVersionBySubject'[k] = gfVersionBySubject[k]
            /\ k # key => gfVersionBySubject[k] # gfv
       /\ gfVersionBySubject' = [k \in DOMAIN gfVersionBySubject' |-> gfVersionBySubject'[k]]
  <2>1. \A k \in DOMAIN gfVersionBySubject : k # key => gfVersionBySubject[k] # gfv
    <3>1. \A k \in DOMAIN gfVersionBySubject :
            /\ gfVersionBySubject[k] \in DOMAIN gfVersions
            /\ SubjectVersion(gfVersions[gfVersionBySubject[k]]) = k
      BY DEF RegistryInv, GfInv, VersionIndexAgrees
    <3> QED BY <1>11, <1>12, <1>14, <3>1
  <2> QED BY <1>7, <1>11, <1>12, <2>1 DEF Put
<1>20. /\ DOMAIN gfDocuments' = DOMAIN gfDocuments \cup {gfd}
       /\ gfDocuments'[gfd] = doc
       /\ \A i \in DOMAIN gfDocuments : i # gfd => gfDocuments'[i] = gfDocuments[i]
       /\ gfDocuments' = [i \in DOMAIN gfDocuments' |-> gfDocuments'[i]]
  BY <1>7 DEF Put
<1>21. DOMAIN gfDocuments' = 1 .. counters'.gfd
  <2>1. CASE existing = {}
    <3>1. counters'.gfd = gfd /\ gfd = counters.gfd + 1
      BY <1>16, <1>17, <2>1
    <3> QED BY <1>9, <1>20, <3>1
  <2>2. CASE existing # {}
    BY <1>9, <1>15, <1>16, <1>17, <1>20, <2>2
  <2> QED BY <2>1, <2>2
<1>22. \A i \in DOMAIN gfDocuments :
         /\ i = gfd => gfDocuments[i].gfv = gfv
         /\ gfDocuments[i].gfv = gfv /\ gfDocuments[i].language = language => i = gfd
  <2>1. \A i \in DOMAIN gfDocuments :
          gfDocuments[i].gfv = gfv /\ gfDocuments[i].language = language => i \in existing
    BY <1>3 DEF DocumentIds
  <2>2. \A i, j \in existing : i = j
    BY <1>15 DEF RegistryInv, GfInv, DocumentsUnique
  <2> QED BY <1>15, <1>16, <2>1, <2>2
<1>23. DocumentAdded(subject, version, language, content, gfv, gfd)
  BY <1>1, <1>6, <1>10, <1>17, <1>18, <1>19, <1>20, <1>21, <1>22 DEF DocumentAdded
<1> QED BY <1>23

LEMMA AddDocumentKeeps ==
  ASSUME RegistryInv, NEW corp, NEW subject \in Subjects, NEW version \in 1 .. MaxVersions,
         NEW language \in Languages, NEW content \in Contents,
         AddGovernanceFrameworkDocument(corp, subject, version, language, content)
  PROVE  RegistryInv' /\ OwnersKept
<1>1. PICK gfv, gfd : DocumentAdded(subject, version, language, content, gfv, gfd)
  BY AddDocumentDoes
<1>2. UNCHANGED <<coVars, ecVars>>
  BY DEF AddGovernanceFrameworkDocument
<1>3. CountersTyped' /\ counters'.co = counters.co /\ counters'.ec = counters.ec
  BY <1>1 DEF DocumentAdded
<1>4. UNCHANGED <<corporations, ecosystems>>
  BY <1>2 DEF coVars, ecVars
<1>5. CoInv' /\ EcInv'
  BY <1>2, <1>3, <1>4, CoUntouched, EcUntouched DEF RegistryInv
<1>6. OwnersKept
  BY <1>4, OwnersKeptWhen
<1>7. Subjects' = Subjects
  BY <1>4, SubjectsKeptWhen
<1>8. PICK key : key = <<subject, version>>
  OBVIOUS
<1>9. PICK doc : doc = [gfv |-> gfv, language |-> language, content |-> content]
  OBVIOUS
<1>10. /\ DOMAIN gfVersions' = DOMAIN gfVersions \cup {gfv}
       /\ DOMAIN gfVersions' = 1 .. counters'.gfv
       /\ gfVersions'[gfv] \in [subject : Subjects, version : 1 .. MaxVersions,
                                activeSince : {FALSE}]
       /\ SubjectVersion(gfVersions'[gfv]) = key
       /\ \A i \in DOMAIN gfVersions : gfVersions'[i] = gfVersions[i]
       /\ gfVersions' = [i \in DOMAIN gfVersions' |-> gfVersions'[i]]
  BY <1>1, <1>8 DEF DocumentAdded
<1>11. /\ DOMAIN gfVersionBySubject' = DOMAIN gfVersionBySubject \cup {key}
       /\ gfVersionBySubject'[key] = gfv
       /\ \A k \in DOMAIN gfVersionBySubject :
            /\ gfVersionBySubject'[k] = gfVersionBySubject[k]
            /\ k # key => gfVersionBySubject[k] # gfv
       /\ gfVersionBySubject' = [k \in DOMAIN gfVersionBySubject' |-> gfVersionBySubject'[k]]
  BY <1>1, <1>8 DEF DocumentAdded
<1>12. /\ DOMAIN gfDocuments' = DOMAIN gfDocuments \cup {gfd}
       /\ DOMAIN gfDocuments' = 1 .. counters'.gfd
       /\ gfDocuments'[gfd] = doc
       /\ \A i \in DOMAIN gfDocuments :
            /\ i # gfd => gfDocuments'[i] = gfDocuments[i]
            /\ i = gfd => gfDocuments[i].gfv = gfv
            /\ gfDocuments[i].gfv = gfv /\ gfDocuments[i].language = language => i = gfd
       /\ gfDocuments' = [i \in DOMAIN gfDocuments' |-> gfDocuments'[i]]
  BY <1>1, <1>9 DEF DocumentAdded
<1>13. doc.gfv = gfv /\ doc.language = language /\ doc.content = content
  BY <1>9
<1>14. GfTyped(Subjects)'
  <2>1. \A i \in DOMAIN gfVersions' :
          gfVersions'[i] \in [subject : Subjects', version : 1 .. MaxVersions,
                              activeSince : BOOLEAN]
    BY <1>7, <1>10 DEF RegistryInv, GfInv, GfTyped
  <2>2. doc \in [gfv : DOMAIN gfVersions', language : Languages, content : Contents]
    BY <1>9, <1>10
  <2>3. \A i \in DOMAIN gfDocuments' :
          gfDocuments'[i] \in [gfv : DOMAIN gfVersions', language : Languages,
                               content : Contents]
    BY <1>10, <1>12, <2>2 DEF RegistryInv, GfInv, GfTyped
  <2> QED BY <1>10, <1>12, <2>1, <2>3 DEF GfTyped
<1>15. VersionIndexAgrees'
  <2>1. \A k \in DOMAIN gfVersionBySubject' :
          /\ gfVersionBySubject'[k] \in DOMAIN gfVersions'
          /\ SubjectVersion(gfVersions'[gfVersionBySubject'[k]]) = k
    BY <1>10, <1>11 DEF RegistryInv, GfInv, VersionIndexAgrees
  <2>2. \A i \in DOMAIN gfVersions' :
          /\ SubjectVersion(gfVersions'[i]) \in DOMAIN gfVersionBySubject'
          /\ gfVersionBySubject'[SubjectVersion(gfVersions'[i])] = i
    BY <1>10, <1>11 DEF RegistryInv, GfInv, VersionIndexAgrees
  <2> QED BY <1>11, <2>1, <2>2 DEF VersionIndexAgrees, SubjectVersion
<1>16. DocumentsUnique'
  BY <1>12, <1>13 DEF RegistryInv, GfInv, DocumentsUnique
<1>17. ASSUME NEW s \in Subjects
       PROVE  InForce(s, Owner(s).activeVersion, Owner(s).language)'
  <2>1. InForce(s, Owner(s).activeVersion, Owner(s).language)
    BY DEF RegistryInv, GfInv
  <2>2. /\ Owner(s)'.activeVersion = Owner(s).activeVersion
        /\ Owner(s)'.language = Owner(s).language
    BY <1>6 DEF OwnersKept
  <2>3. ASSUME NEW v \in VersionsOf(s), <<s, v>> # key
        PROVE  /\ <<s, v>> \in DOMAIN gfVersionBySubject
               /\ gfVersionBySubject'[<<s, v>>] = gfVersionBySubject[<<s, v>>]
               /\ gfVersionBySubject[<<s, v>>] \in DOMAIN gfVersions
               /\ gfVersionBySubject[<<s, v>>] # gfv
    BY <1>11, <2>3 DEF VersionsOf, Has, RegistryInv, GfInv, VersionIndexAgrees
  <2>4. \A g, l : g # gfv => DocumentIds(g, l)' = DocumentIds(g, l)
    BY <1>12, <1>13 DEF DocumentIds
  <2>5. CASE s # subject
    <3>1. \A v : <<s, v>> # key
      BY <1>8, <2>5
    <3>2. VersionsOf(s)' = VersionsOf(s)
      BY <1>11, <3>1 DEF VersionsOf, Has
    <3> QED BY <1>10, <2>1, <2>2, <2>3, <2>4, <3>1, <3>2 DEF InForce
  <2>6. CASE s = subject
    <3>1. PICK n \in Nat \ {0} :
            VersionsOf(s) = 1 .. n /\ Owner(s).activeVersion \in 1 .. n
      BY FrameworkOf
    <3>2. /\ version \in Nat /\ version > Owner(s).activeVersion
          /\ version - 1 \in VersionsOf(s) \cup {0}
      BY <1>1, <2>6 DEF DocumentAdded
    <3>3. VersionsOf(s)' = VersionsOf(s) \cup {version}
      BY <1>8, <1>11, <2>6 DEF VersionsOf, Has
    <3>4. \E m \in Nat : VersionsOf(s)' = 1 .. m
      <4>1. CASE version \in 1 .. n
        BY <3>1, <3>3, <4>1
      <4>2. CASE version = n + 1
        <5>1. (1 .. n) \cup {version} = 1 .. version
          BY <4>2
        <5> QED BY <3>1, <3>2, <3>3, <5>1
      <4> QED BY <3>1, <3>2, <4>1, <4>2
    <3>5. Owner(s).activeVersion \in VersionsOf(s)'
      BY <3>1, <3>3
    <3>6. ASSUME NEW v \in VersionsOf(s)'
          PROVE  /\ gfVersions'[gfVersionBySubject'[<<s, v>>]].activeSince
                      <=> v <= Owner(s).activeVersion
                 /\ v <= Owner(s).activeVersion =>
                      DocumentIds(gfVersionBySubject[<<s, v>>], Owner(s).language)' # {}
      <4>1. CASE v = version
        <5>1. ~(v <= Owner(s).activeVersion)
          BY <3>1, <3>2, <4>1
        <5>2. ~gfVersions'[gfVersionBySubject'[<<s, v>>]].activeSince
          BY <1>8, <1>10, <1>11, <2>6, <4>1
        <5> QED BY <5>1, <5>2
      <4>2. CASE v # version
        <5>1. v \in VersionsOf(s) /\ <<s, v>> # key
          BY <1>8, <3>3, <4>2
        <5> QED BY <1>10, <2>1, <2>2, <2>3, <2>4, <5>1 DEF InForce
      <4> QED BY <4>1, <4>2
    <3> QED BY <2>2, <3>4, <3>5, <3>6 DEF InForce
  <2> QED BY <2>5, <2>6
<1>18. GfInv'
  BY <1>7, <1>14, <1>15, <1>16, <1>17 DEF GfInv
<1> QED BY <1>3, <1>5, <1>6, <1>18 DEF RegistryInv

\* The owner of a framework takes the version; the other owners stay as they are.
LEMMA SetActiveVersionDoes ==
  ASSUME RegistryInv, NEW subject \in Subjects, NEW version \in Nat,
         SetActiveVersion(subject, version),
         UNCHANGED <<corporationByDid, ecosystemByDidCorp, counters>>
  PROVE  /\ CountersTyped' /\ CoInv' /\ EcInv'
         /\ Subjects' = Subjects
         /\ Owner(subject)'.activeVersion = version
         /\ Owner(subject)'.language = Owner(subject).language
         /\ \A s \in Subjects : s # subject => Owner(s)' = Owner(s)
<1>1. CountersTyped'
  BY DEF RegistryInv, CountersTyped
<1>2. CASE \E i \in DOMAIN corporations : subject = CorporationSubject(i)
  <2>1. PICK i \in DOMAIN corporations : subject = CorporationSubject(i)
    BY <1>2
  <2>2. PICK row : row = [corporations[i] EXCEPT !.activeVersion = version]
    OBVIOUS
  <2>3. corporations' = [corporations EXCEPT ![i] = row] /\ UNCHANGED ecosystems
    BY <2>1, <2>2 DEF SetActiveVersion, CorporationSubject
  <2>4. /\ corporations \in
             [1 .. counters.co -> [did : Dids, language : Languages, activeVersion : Nat]]
        /\ row \in [did : Dids, language : Languages, activeVersion : Nat]
        /\ row.did = corporations[i].did
        /\ row.language = corporations[i].language
        /\ row.activeVersion = version
    <3>1. corporations \in
            [1 .. counters.co -> [did : Dids, language : Languages, activeVersion : Nat]]
      BY DEF RegistryInv, CoInv
    <3>2. corporations[i] \in [did : Dids, language : Languages, activeVersion : Nat]
      BY <3>1
    <3> QED BY <2>2, <3>1, <3>2
  <2>5. /\ corporations' \in
             [1 .. counters.co -> [did : Dids, language : Languages, activeVersion : Nat]]
        /\ DOMAIN corporations' = DOMAIN corporations
        /\ corporations'[i] = row
        /\ \A j \in DOMAIN corporations : j # i => corporations'[j] = corporations[j]
    BY <2>3, <2>4
  <2>6. \A j \in DOMAIN corporations : corporations'[j].did = corporations[j].did
    BY <2>4, <2>5
  <2>7. CoInv'
    BY <2>5, <2>6 DEF RegistryInv, CoInv
  <2>8. EcInv'
    BY <2>3, <2>5, EcUntouched DEF RegistryInv, ecVars
  <2>9. Subjects' = Subjects
    BY <2>3, <2>5, SubjectsKeptWhen
  <2>10. /\ Owner(subject)'.activeVersion = version
         /\ Owner(subject)'.language = Owner(subject).language
    <3>1. Owner(subject) = corporations[i] /\ Owner(subject)' = corporations'[i]
      BY <2>1, OwnerOf, OwnerAfter
    <3> QED BY <2>4, <2>5, <3>1
  <2>11. ASSUME NEW s \in Subjects, s # subject
         PROVE  Owner(s)' = Owner(s)
    <3>1. CASE \E j \in DOMAIN corporations : s = CorporationSubject(j)
      <4>1. PICK j \in DOMAIN corporations : s = CorporationSubject(j)
        BY <3>1
      <4>2. Owner(s) = corporations[j] /\ Owner(s)' = corporations'[j]
        BY <4>1, OwnerOf, OwnerAfter
      <4>3. j # i
        BY <2>1, <2>11, <4>1
      <4> QED BY <2>5, <4>2, <4>3
    <3>2. CASE \E j \in DOMAIN ecosystems : s = EcosystemSubject(j)
      <4>1. PICK j \in DOMAIN ecosystems : s = EcosystemSubject(j)
        BY <3>2
      <4>2. Owner(s) = ecosystems[j] /\ Owner(s)' = ecosystems'[j]
        BY <4>1, OwnerOf, OwnerAfter
      <4> QED BY <2>3, <4>2
    <3> QED BY <3>1, <3>2 DEF Subjects
  <2> QED BY <1>1, <2>7, <2>8, <2>9, <2>10, <2>11
<1>3. CASE \E i \in DOMAIN ecosystems : subject = EcosystemSubject(i)
  <2>1. PICK i \in DOMAIN ecosystems : subject = EcosystemSubject(i)
    BY <1>3
  <2>2. PICK row : row = [ecosystems[i] EXCEPT !.activeVersion = version]
    OBVIOUS
  <2>3. ecosystems' = [ecosystems EXCEPT ![i] = row] /\ UNCHANGED corporations
    BY <2>1, <2>2 DEF SetActiveVersion, EcosystemSubject
  <2>4. /\ ecosystems \in [1 .. counters.ec -> EcosystemRows(DOMAIN corporations)]
        /\ row \in EcosystemRows(DOMAIN corporations)
        /\ row.did = ecosystems[i].did
        /\ row.corporation = ecosystems[i].corporation
        /\ row.language = ecosystems[i].language
        /\ row.activeVersion = version
    BY <2>2 DEF RegistryInv, EcInv, EcosystemRows
  <2>5. /\ ecosystems' \in [1 .. counters.ec -> EcosystemRows(DOMAIN corporations')]
        /\ DOMAIN ecosystems' = DOMAIN ecosystems
        /\ ecosystems'[i] = row
        /\ \A j \in DOMAIN ecosystems : j # i => ecosystems'[j] = ecosystems[j]
    BY <2>3, <2>4
  <2>6. \A j \in DOMAIN ecosystems :
          /\ ecosystems'[j].did = ecosystems[j].did
          /\ ecosystems'[j].corporation = ecosystems[j].corporation
    BY <2>4, <2>5
  <2>7. EcInv'
    BY <2>5, <2>6 DEF RegistryInv, EcInv, EcosystemRows
  <2>8. CoInv'
    BY <2>3, CoUntouched DEF RegistryInv, coVars
  <2>9. Subjects' = Subjects
    BY <2>3, <2>5, SubjectsKeptWhen
  <2>10. /\ Owner(subject)'.activeVersion = version
         /\ Owner(subject)'.language = Owner(subject).language
    <3>1. Owner(subject) = ecosystems[i] /\ Owner(subject)' = ecosystems'[i]
      BY <2>1, OwnerOf, OwnerAfter
    <3> QED BY <2>4, <2>5, <3>1
  <2>11. ASSUME NEW s \in Subjects, s # subject
         PROVE  Owner(s)' = Owner(s)
    <3>1. CASE \E j \in DOMAIN corporations : s = CorporationSubject(j)
      <4>1. PICK j \in DOMAIN corporations : s = CorporationSubject(j)
        BY <3>1
      <4>2. Owner(s) = corporations[j] /\ Owner(s)' = corporations'[j]
        BY <4>1, OwnerOf, OwnerAfter
      <4> QED BY <2>3, <4>2
    <3>2. CASE \E j \in DOMAIN ecosystems : s = EcosystemSubject(j)
      <4>1. PICK j \in DOMAIN ecosystems : s = EcosystemSubject(j)
        BY <3>2
      <4>2. Owner(s) = ecosystems[j] /\ Owner(s)' = ecosystems'[j]
        BY <4>1, OwnerOf, OwnerAfter
      <4>3. j # i
        BY <2>1, <2>11, <4>1
      <4> QED BY <2>5, <4>2, <4>3
    <3> QED BY <3>1, <3>2 DEF Subjects
  <2> QED BY <1>1, <2>7, <2>8, <2>9, <2>10, <2>11
<1> QED BY <1>2, <1>3 DEF Subjects

\* The next version is there, so that it follows the active one in the framework.
LEMMA IncreaseKeeps ==
  ASSUME RegistryInv, NEW corp, NEW subject \in Subjects,
         IncreaseActiveGovernanceFrameworkVersion(corp, subject)
  PROVE  /\ RegistryInv'
         /\ \A s \in Subjects :
              Owner(s)'.activeVersion \in {Owner(s).activeVersion, Owner(s).activeVersion + 1}
<1>1. PICK active : active = Owner(subject).activeVersion
  OBVIOUS
<1>2. PICK next : next = active + 1
  OBVIOUS
<1>3. PICK key : key = <<subject, next>>
  OBVIOUS
<1>4. PICK g : g = gfVersionBySubject[key]
  OBVIOUS
<1>5. PICK row : row = [gfVersions[g] EXCEPT !.activeSince = TRUE]
  OBVIOUS
<1>6. /\ key \in DOMAIN gfVersionBySubject
      /\ DocumentIds(g, Owner(subject).language) # {}
  BY <1>1, <1>2, <1>3, <1>4
  DEF IncreaseActiveGovernanceFrameworkVersion, MayActivate, Has
<1>7. /\ gfVersions' = [gfVersions EXCEPT ![g] = row]
      /\ SetActiveVersion(subject, next)
      /\ UNCHANGED <<corporationByDid, ecosystemByDidCorp, gfVersionBySubject,
                     gfDocuments, counters>>
  BY <1>1, <1>2, <1>3, <1>4, <1>5 DEF IncreaseActiveGovernanceFrameworkVersion
<1>8. PICK n \in Nat \ {0} : VersionsOf(subject) = 1 .. n /\ active \in 1 .. n
  BY <1>1, FrameworkOf
<1>9. active \in Nat /\ next \in Nat
  BY <1>2, <1>8
<1>10. /\ CountersTyped' /\ CoInv' /\ EcInv'
       /\ Subjects' = Subjects
       /\ Owner(subject)'.activeVersion = next
       /\ Owner(subject)'.language = Owner(subject).language
       /\ \A s \in Subjects : s # subject => Owner(s)' = Owner(s)
  BY <1>7, <1>9, SetActiveVersionDoes
<1>11. /\ g \in DOMAIN gfVersions
       /\ SubjectVersion(gfVersions[g]) = key
  BY <1>4, <1>6 DEF RegistryInv, GfInv, VersionIndexAgrees
<1>12. /\ row \in [subject : Subjects, version : 1 .. MaxVersions, activeSince : BOOLEAN]
       /\ row.activeSince = TRUE
       /\ SubjectVersion(row) = SubjectVersion(gfVersions[g])
       /\ gfVersions[g].version \in 1 .. MaxVersions
  BY <1>5, <1>11 DEF RegistryInv, GfInv, GfTyped, SubjectVersion
<1>13. next \in VersionsOf(subject)
  <2>1. gfVersions[g].version = next
    BY <1>3, <1>11 DEF SubjectVersion
  <2> QED BY <1>3, <1>6, <1>12, <2>1 DEF VersionsOf, Has
<1>14. /\ DOMAIN gfVersions' = DOMAIN gfVersions
       /\ gfVersions'[g] = row
       /\ \A i \in DOMAIN gfVersions : i # g => gfVersions'[i] = gfVersions[i]
       /\ gfVersions' = [i \in DOMAIN gfVersions' |-> gfVersions'[i]]
  BY <1>7, <1>11 DEF RegistryInv, GfInv, GfTyped
<1>15. GfTyped(Subjects)'
  <2>1. gfVersions' \in [1 .. counters.gfv -> [subject : Subjects, version : 1 .. MaxVersions,
                                               activeSince : BOOLEAN]]
    BY <1>12, <1>14 DEF RegistryInv, GfInv, GfTyped
  <2> QED BY <1>7, <1>10, <1>14, <2>1 DEF RegistryInv, GfInv, GfTyped
<1>16. \A i \in DOMAIN gfVersions :
         SubjectVersion(gfVersions'[i]) = SubjectVersion(gfVersions[i])
  BY <1>12, <1>14
<1>17. VersionIndexAgrees'
  <2>1. /\ gfVersionBySubject' \in [DOMAIN gfVersionBySubject' -> DOMAIN gfVersions']
        /\ \A k \in DOMAIN gfVersionBySubject' :
             SubjectVersion(gfVersions'[gfVersionBySubject'[k]]) = k
        /\ \A i \in DOMAIN gfVersions' :
             /\ SubjectVersion(gfVersions'[i]) \in DOMAIN gfVersionBySubject'
             /\ gfVersionBySubject'[SubjectVersion(gfVersions'[i])] = i
    BY <1>7, <1>14, <1>16 DEF RegistryInv, GfInv, VersionIndexAgrees
  <2> QED BY <2>1 DEF VersionIndexAgrees, SubjectVersion
<1>18. DocumentsUnique'
  BY <1>7 DEF RegistryInv, GfInv, DocumentsUnique
<1>19. ASSUME NEW s \in Subjects
       PROVE  InForce(s, Owner(s).activeVersion, Owner(s).language)'
  <2>1. InForce(s, Owner(s).activeVersion, Owner(s).language)
    BY DEF RegistryInv, GfInv
  <2>2. VersionsOf(s)' = VersionsOf(s) /\ \A d, l : DocumentIds(d, l)' = DocumentIds(d, l)
    BY <1>7 DEF VersionsOf, DocumentIds
  <2>3. ASSUME NEW v \in VersionsOf(s), <<s, v>> # key
        PROVE  gfVersions'[gfVersionBySubject[<<s, v>>]]
                 = gfVersions[gfVersionBySubject[<<s, v>>]]
    <3>1. /\ gfVersionBySubject[<<s, v>>] \in DOMAIN gfVersions
          /\ SubjectVersion(gfVersions[gfVersionBySubject[<<s, v>>]]) = <<s, v>>
      BY DEF VersionsOf, Has, RegistryInv, GfInv, VersionIndexAgrees
    <3>2. gfVersionBySubject[<<s, v>>] # g
      BY <1>11, <2>3, <3>1
    <3> QED BY <1>14, <3>1, <3>2
  <2>4. CASE s # subject
    <3>1. \A v : <<s, v>> # key
      BY <1>3, <2>4
    <3>2. Owner(s)' = Owner(s)
      BY <1>10, <2>4
    <3> QED BY <1>7, <2>1, <2>2, <2>3, <3>1, <3>2 DEF InForce
  <2>5. CASE s = subject
    <3>1. ASSUME NEW v \in VersionsOf(s)
          PROVE  /\ gfVersions'[gfVersionBySubject[<<s, v>>]].activeSince <=> v <= next
                 /\ v <= next =>
                      DocumentIds(gfVersionBySubject[<<s, v>>], Owner(s).language) # {}
      <4>1. v \in Nat
        BY <1>8, <2>5
      <4>2. CASE v = next
        <5>1. gfVersionBySubject[<<s, v>>] = g
          BY <1>3, <1>4, <2>5, <4>2
        <5> QED BY <1>6, <1>9, <1>12, <1>14, <2>5, <4>2, <5>1
      <4>3. CASE v # next
        <5>1. <<s, v>> # key
          BY <1>3, <4>3
        <5>2. v <= next <=> v <= active
          BY <1>2, <1>9, <4>1, <4>3
        <5> QED BY <1>1, <2>1, <2>3, <2>5, <5>1, <5>2 DEF InForce
      <4> QED BY <4>2, <4>3
    <3>2. \E m \in Nat : VersionsOf(s) = 1 .. m
      BY <1>8, <2>5
    <3> QED BY <1>7, <1>10, <1>13, <2>2, <2>5, <3>1, <3>2 DEF InForce
  <2> QED BY <2>4, <2>5
<1>20. GfInv'
  BY <1>10, <1>15, <1>17, <1>18, <1>19 DEF GfInv
<1>21. \A s \in Subjects :
         Owner(s)'.activeVersion \in {Owner(s).activeVersion, Owner(s).activeVersion + 1}
  BY <1>1, <1>2, <1>10
<1> QED BY <1>10, <1>20, <1>21 DEF RegistryInv

-----------------------------------------------------------------------------
(* Genesis.                                                                *)

\* The indexes of x/co and x/gf find every row, so that a restart finds them again.
LEMMA RestartKeeps ==
  ASSUME RegistryInv, RestartFromGenesis
  PROVE  RegistryInv' /\ OwnersKept /\ gfVersionBySubject' = gfVersionBySubject
<1> DEFINE didOf == [id \in DOMAIN corporations |-> corporations[id].did]
           didCorpOf == [id \in DOMAIN ecosystems |->
                           <<ecosystems[id].did, ecosystems[id].corporation>>]
           subjectVersionOf == [id \in DOMAIN gfVersions |->
                                  <<gfVersions[id].subject, gfVersions[id].version>>]
<1>1. /\ corporationByDid' = Index(didOf)
      /\ ecosystemByDidCorp' = Index(didCorpOf)
      /\ gfVersionBySubject' = Index(subjectVersionOf)
      /\ counters' = [counters EXCEPT !.co = LastId(corporations),
                                      !.gfv = LastId(gfVersions),
                                      !.gfd = LastId(gfDocuments)]
      /\ UNCHANGED <<corporations, ecosystems, gfVersions, gfDocuments>>
  BY Zenon DEF RestartFromGenesis
<1>2. /\ counters.co \in Nat /\ counters.ec \in Nat
      /\ counters.gfv \in Nat /\ counters.gfd \in Nat
      /\ counters = [f \in DOMAIN counters |-> counters[f]]
      /\ DOMAIN counters = {"co", "ec", "gfv", "gfd"}
  BY DEF RegistryInv, CountersTyped
<1>3. /\ DOMAIN corporations = 1 .. counters.co
      /\ DOMAIN ecosystems = 1 .. counters.ec
      /\ DOMAIN gfVersions = 1 .. counters.gfv
      /\ DOMAIN gfDocuments = 1 .. counters.gfd
  BY DEF RegistryInv, CoInv, EcInv, GfInv, GfTyped
<1>4. counters' = counters
  <2>1. LastId(corporations) = counters.co
    <3>1. corporations \in
            [1 .. counters.co -> [did : Dids, language : Languages, activeVersion : Nat]]
      BY DEF RegistryInv, CoInv
    <3> QED BY <1>2, <3>1, LastIdOfInterval
  <2>2. LastId(gfVersions) = counters.gfv
    BY <1>2, LastIdOfInterval DEF RegistryInv, GfInv, GfTyped
  <2>3. LastId(gfDocuments) = counters.gfd
    BY <1>2, LastIdOfInterval DEF RegistryInv, GfInv, GfTyped
  <2>4. counters' = [counters EXCEPT !.co = counters.co, !.gfv = counters.gfv,
                                     !.gfd = counters.gfd]
    BY <1>1, <2>1, <2>2, <2>3
  <2>5. DOMAIN counters' = DOMAIN counters /\ counters' = [f \in DOMAIN counters |-> counters'[f]]
    BY <2>4
  <2>6. \A f \in DOMAIN counters : counters'[f] = counters[f]
    BY <1>2, <2>4
  <2> QED BY <1>2, <2>5, <2>6
<1>5. corporationByDid' = corporationByDid
  <2>1. /\ DOMAIN didOf = 1 .. counters.co
        /\ corporationByDid \in [DOMAIN corporationByDid -> 1 .. counters.co]
        /\ \A k \in DOMAIN corporationByDid : didOf[corporationByDid[k]] = k
        /\ \A id \in 1 .. counters.co :
             didOf[id] \in DOMAIN corporationByDid /\ corporationByDid[didOf[id]] = id
    BY <1>3 DEF RegistryInv, CoInv
  <2> HIDE DEF didOf
  <2> QED BY <1>1, <1>2, <2>1, IndexRebuilt
<1>6. gfVersionBySubject' = gfVersionBySubject
  <2>1. /\ DOMAIN subjectVersionOf = 1 .. counters.gfv
        /\ \A id \in 1 .. counters.gfv : subjectVersionOf[id] = SubjectVersion(gfVersions[id])
    BY <1>3 DEF SubjectVersion
  <2> HIDE DEF subjectVersionOf
  <2>2. /\ gfVersionBySubject \in [DOMAIN gfVersionBySubject -> 1 .. counters.gfv]
        /\ \A k \in DOMAIN gfVersionBySubject : subjectVersionOf[gfVersionBySubject[k]] = k
        /\ \A id \in 1 .. counters.gfv :
             /\ subjectVersionOf[id] \in DOMAIN gfVersionBySubject
             /\ gfVersionBySubject[subjectVersionOf[id]] = id
    BY <1>3, <2>1 DEF RegistryInv, GfInv, VersionIndexAgrees
  <2> QED BY <1>1, <1>2, <2>1, <2>2, IndexRebuilt
<1>7. /\ ecosystemByDidCorp' \in [DOMAIN ecosystemByDidCorp' -> DOMAIN ecosystems]
      /\ \A key \in DOMAIN ecosystemByDidCorp' :
           LET e == ecosystems[ecosystemByDidCorp'[key]]
           IN  <<e.did, e.corporation>> = key
  <2>1. /\ DOMAIN didCorpOf = 1 .. counters.ec
        /\ \A id \in 1 .. counters.ec :
             didCorpOf[id] = <<ecosystems[id].did, ecosystems[id].corporation>>
    BY <1>3
  <2> HIDE DEF didCorpOf
  <2>2. /\ ecosystemByDidCorp' \in [DOMAIN ecosystemByDidCorp' -> 1 .. counters.ec]
        /\ \A k \in DOMAIN ecosystemByDidCorp' : didCorpOf[ecosystemByDidCorp'[k]] = k
    BY <1>1, <1>2, <2>1, IndexLeadsToRows
  <2>3. \A k \in DOMAIN ecosystemByDidCorp' : ecosystemByDidCorp'[k] \in 1 .. counters.ec
    BY <2>2
  <2> QED BY <1>3, <2>1, <2>2, <2>3
<1>8. CountersTyped'
  BY <1>4 DEF RegistryInv, CountersTyped
<1>9. CoInv'
  BY <1>1, <1>4, <1>5 DEF RegistryInv, CoInv
<1>10. EcInv'
  BY <1>1, <1>4, <1>7 DEF RegistryInv, EcInv
<1>11. OwnersKept
  BY <1>1, OwnersKeptWhen
<1>12. GfInv'
  BY <1>1, <1>4, <1>6, <1>11, SubjectsKeptWhen, GfUntouched DEF RegistryInv, gfVars
<1> QED BY <1>6, <1>8, <1>9, <1>10, <1>11, <1>12 DEF RegistryInv

-----------------------------------------------------------------------------
(* The invariant holds, and what it says.                                  *)

LEMMA InitRegistry ==
  ASSUME Init
  PROVE  RegistryInv
<1>1. 1 .. 0 = {}
  OBVIOUS
<1>2. counters.co = 0 /\ counters.ec = 0 /\ counters.gfv = 0 /\ counters.gfd = 0
  BY DEF Init
<1>3. CountersTyped
  BY DEF Init, CountersTyped
<1>4. CoInv /\ EcInv
  BY <1>1, <1>2 DEF Init, CoInv, EcInv, EmptyMap
<1>5. Subjects = {}
  BY DEF Init, Subjects, EmptyMap
<1>6. GfInv
  BY <1>1, <1>2, <1>5
  DEF Init, GfInv, GfTyped, VersionIndexAgrees, DocumentsUnique, EmptyMap
<1> QED BY <1>3, <1>4, <1>6 DEF RegistryInv

LEMMA RegistryStep ==
  ASSUME RegistryInv, [Next]_vars
  PROVE  RegistryInv'
<1>1. ASSUME NEW did \in Dids, NEW language \in Languages, NEW content \in Contents,
             CreateCorporation(did, language, content)
      PROVE  RegistryInv'
  BY <1>1, CreateCorporationKeeps
<1>2. ASSUME NEW corp \in DOMAIN corporations, CorporationMessages(corp)
      PROVE  RegistryInv'
  <2>1. ASSUME NEW did \in Dids, UpdateCorporation(corp, did)
        PROVE  RegistryInv'
    BY <2>1, UpdateCorporationKeeps
  <2>2. ASSUME NEW did \in Dids, NEW language \in Languages, NEW content \in Contents,
               CreateEcosystem(corp, did, language, content)
        PROVE  RegistryInv'
    BY <2>2, CreateEcosystemKeeps
  <2>3. ASSUME NEW id \in DOMAIN ecosystems, NEW did \in Dids, UpdateEcosystem(corp, id, did)
        PROVE  RegistryInv'
    BY <2>3, UpdateEcosystemKeeps
  <2>4. ASSUME NEW id \in DOMAIN ecosystems, NEW archive \in BOOLEAN,
               ArchiveEcosystem(corp, id, archive)
        PROVE  RegistryInv'
    BY <2>4, ArchiveEcosystemKeeps
  <2>5. ASSUME NEW subject \in Subjects, NEW version \in 1 .. MaxVersions,
               NEW language \in Languages, NEW content \in Contents,
               AddGovernanceFrameworkDocument(corp, subject, version, language, content)
        PROVE  RegistryInv'
    BY <2>5, AddDocumentKeeps
  <2>6. ASSUME NEW subject \in Subjects,
               IncreaseActiveGovernanceFrameworkVersion(corp, subject)
        PROVE  RegistryInv'
    BY <2>6, IncreaseKeeps
  <2> QED BY <1>2, <2>1, <2>2, <2>3, <2>4, <2>5, <2>6 DEF CorporationMessages
<1>3. CASE RestartFromGenesis
  BY <1>3, RestartKeeps
<1>4. CASE UNCHANGED vars
  <2>1. UNCHANGED <<corporations, corporationByDid, ecosystems, ecosystemByDidCorp,
                    gfVersions, gfVersionBySubject, gfDocuments, counters>>
    BY <1>4 DEF vars, coVars, ecVars, gfVars
  <2>2. CountersTyped'
    BY <2>1 DEF RegistryInv, CountersTyped
  <2>3. CoInv' /\ EcInv'
    BY <2>1, <2>2, CoUntouched, EcUntouched DEF RegistryInv, coVars, ecVars
  <2>4. GfInv'
    BY <2>1, OwnersKeptWhen, SubjectsKeptWhen, GfUntouched DEF RegistryInv, gfVars
  <2> QED BY <2>2, <2>3, <2>4 DEF RegistryInv
<1> QED BY <1>1, <1>2, <1>3, <1>4 DEF Next

LEMMA RegistryInvariant == Spec => []RegistryInv
<1>1. Init => RegistryInv
  BY InitRegistry
<1>2. RegistryInv /\ [Next]_vars => RegistryInv'
  BY RegistryStep
<1> QED BY <1>1, <1>2, PTL DEF Spec

(***************************************************************************)
(* Ids are handed out one by one and never again, and references lead to   *)
(* what was created before.                                                *)
(***************************************************************************)
THEOREM RegistryStaysTyped == Spec => []TypeOK
<1>1. ASSUME RegistryInv
      PROVE  TypeOK
  <2>1. /\ counters \in [{"co", "ec", "gfv", "gfd"} -> Nat]
        /\ corporations \in
             [1 .. counters.co -> [did : Dids, language : Languages, activeVersion : Nat]]
    BY <1>1 DEF RegistryInv, CountersTyped, CoInv
  <2>2. ecosystems \in
          [1 .. counters.ec -> [did : Dids, corporation : DOMAIN corporations,
                                language : Languages, archived : BOOLEAN,
                                activeVersion : Nat]]
    BY <1>1 DEF RegistryInv, EcInv
  <2>3. gfVersions \in
          [1 .. counters.gfv -> [subject : Subjects, version : Nat, activeSince : BOOLEAN]]
    <3>1. gfVersions \in
            [1 .. counters.gfv -> [subject : Subjects, version : 1 .. MaxVersions,
                                   activeSince : BOOLEAN]]
      BY <1>1 DEF RegistryInv, GfInv, GfTyped
    <3>2. 1 .. MaxVersions \subseteq Nat
      OBVIOUS
    <3>3. \A i \in 1 .. counters.gfv :
            gfVersions[i] \in [subject : Subjects, version : Nat, activeSince : BOOLEAN]
      BY <3>1, <3>2
    <3> QED BY <3>1, <3>3
  <2>4. gfDocuments \in
          [1 .. counters.gfd -> [gfv : DOMAIN gfVersions, language : Languages,
                                 content : Contents]]
    BY <1>1 DEF RegistryInv, GfInv, GfTyped
  <2> QED BY <2>1, <2>2, <2>3, <2>4 DEF TypeOK
<1> QED BY <1>1, RegistryInvariant, PTL

(***************************************************************************)
(* The indexes that the keepers ask before they hand out a DID or a        *)
(* version agree with the rows, through every message and restart.         *)
(***************************************************************************)
THEOREM IndexesKeepAgreeing == Spec => []IndexesAgree
<1>1. ASSUME RegistryInv
      PROVE  IndexesAgree
  <2>1. /\ \A did \in DOMAIN corporationByDid :
             /\ Has(corporations, corporationByDid[did])
             /\ corporations[corporationByDid[did]].did = did
        /\ \A id \in DOMAIN corporations : Has(corporationByDid, corporations[id].did)
        /\ \A p, q \in DOMAIN corporations :
             corporations[p].did = corporations[q].did => p = q
    <3>1. CoInv
      BY <1>1 DEF RegistryInv
    <3>2. \A p \in DOMAIN corporations : corporationByDid[corporations[p].did] = p
      BY <3>1 DEF CoInv
    <3>3. \A p, q \in DOMAIN corporations :
            corporations[p].did = corporations[q].did => p = q
      BY <3>2
    <3> QED BY <3>1, <3>3 DEF CoInv, Has
  <2>2. \A key \in DOMAIN ecosystemByDidCorp :
          LET e == ecosystems[ecosystemByDidCorp[key]]
          IN  <<e.did, e.corporation>> = key
    BY <1>1 DEF RegistryInv, EcInv
  <2>3. /\ \A key \in DOMAIN gfVersionBySubject :
             LET v == gfVersions[gfVersionBySubject[key]] IN <<v.subject, v.version>> = key
        /\ \A id \in DOMAIN gfVersions :
             LET v == gfVersions[id]
             IN  /\ Has(gfVersionBySubject, <<v.subject, v.version>>)
                 /\ gfVersionBySubject[<<v.subject, v.version>>] = id
    BY <1>1 DEF RegistryInv, GfInv, VersionIndexAgrees, SubjectVersion, Has
  <2>4. \A p, q \in DOMAIN gfDocuments :
          /\ gfDocuments[p].gfv = gfDocuments[q].gfv
          /\ gfDocuments[p].language = gfDocuments[q].language
          => p = q
    BY <1>1 DEF RegistryInv, GfInv, DocumentsUnique
  <2> QED BY <2>1, <2>2, <2>3, <2>4 DEF IndexesAgree
<1> QED BY <1>1, RegistryInvariant, PTL

(***************************************************************************)
(* Versions come without gaps, the activated ones are those up to the      *)
(* active version that another module keeps, and each has a document in    *)
(* the language of its owner.                                              *)
(***************************************************************************)
THEOREM FrameworksStayInForce == Spec => []FrameworksInForce
<1>1. ASSUME RegistryInv, NEW subject \in Subjects
      PROVE  /\ VersionsOf(subject) = 1 .. Largest(VersionsOf(subject))
             /\ Owner(subject).activeVersion \in VersionsOf(subject)
             /\ \A v \in VersionsOf(subject) :
                  LET gfv == gfVersionBySubject[<<subject, v>>]
                  IN  /\ gfVersions[gfv].activeSince <=> v <= Owner(subject).activeVersion
                      /\ v <= Owner(subject).activeVersion =>
                           DocumentIds(gfv, Owner(subject).language) # {}
  <2>1. InForce(subject, Owner(subject).activeVersion, Owner(subject).language)
    BY <1>1 DEF RegistryInv, GfInv
  <2>2. VersionsOf(subject) = 1 .. Largest(VersionsOf(subject))
    BY <1>1, FrameworkOf
  <2> QED BY <2>1, <2>2 DEF InForce
<1>2. RegistryInv => FrameworksInForce
  BY <1>1 DEF FrameworksInForce
<1> QED BY <1>2, RegistryInvariant, PTL

-----------------------------------------------------------------------------
(* What was in force stays as it was.                                      *)

HistoryKept(s, v) ==
  /\ v <= Owner(s)'.activeVersion
  /\ DocumentsOf(s, v)' = DocumentsOf(s, v)

LEMMA ActiveVersions ==
  ASSUME RegistryInv, NEW s \in Subjects, NEW v \in 1 .. Owner(s).activeVersion
  PROVE  /\ Owner(s).activeVersion \in Nat /\ v \in Nat
         /\ <<s, v>> \in DOMAIN gfVersionBySubject
         /\ gfVersionBySubject[<<s, v>>] \in DOMAIN gfVersions
<1>1. PICK n \in Nat \ {0} :
        VersionsOf(s) = 1 .. n /\ Owner(s).activeVersion \in 1 .. n
  BY FrameworkOf
<1>2. v \in VersionsOf(s)
  BY <1>1
<1> QED BY <1>1, <1>2 DEF VersionsOf, Has, RegistryInv, GfInv, VersionIndexAgrees

\* The steps that leave the documents and the index of versions alone.
LEMMA FrozenUntouched ==
  ASSUME RegistryInv, NEW s \in Subjects, NEW v \in 1 .. Owner(s).activeVersion,
         UNCHANGED <<gfVersionBySubject, gfDocuments>>,
         Owner(s)'.activeVersion \in {Owner(s).activeVersion, Owner(s).activeVersion + 1}
  PROVE  HistoryKept(s, v)
<1>1. Owner(s).activeVersion \in Nat /\ v \in Nat
  BY ActiveVersions
<1>2. v <= Owner(s)'.activeVersion
  BY <1>1
<1>3. DocumentsOf(s, v)' = DocumentsOf(s, v)
  BY DEF DocumentsOf
<1> QED BY <1>2, <1>3 DEF HistoryKept

\* The steps that write one document, of a version that is not active.
LEMMA FrozenByDocument ==
  ASSUME RegistryInv, OwnersKept, NEW s \in Subjects, NEW v \in 1 .. Owner(s).activeVersion,
         NEW gfd, gfVersionBySubject'[<<s, v>>] = gfVersionBySubject[<<s, v>>],
         DOMAIN gfDocuments' = DOMAIN gfDocuments \cup {gfd},
         \A i \in DOMAIN gfDocuments : i # gfd => gfDocuments'[i] = gfDocuments[i],
         gfDocuments'[gfd].gfv # gfVersionBySubject[<<s, v>>],
         gfd \in DOMAIN gfDocuments => gfDocuments[gfd].gfv # gfVersionBySubject[<<s, v>>]
  PROVE  HistoryKept(s, v)
<1>1. Owner(s).activeVersion \in Nat /\ v \in Nat
  BY ActiveVersions
<1>2. v <= Owner(s)'.activeVersion
  BY <1>1 DEF OwnersKept
<1>3. PICK g : g = gfVersionBySubject[<<s, v>>]
  OBVIOUS
<1>4. {i \in DOMAIN gfDocuments' : gfDocuments'[i].gfv = g}
        = {i \in DOMAIN gfDocuments : gfDocuments[i].gfv = g}
  BY <1>3
<1>5. \A i \in {j \in DOMAIN gfDocuments : gfDocuments[j].gfv = g} :
        gfDocuments'[i] = gfDocuments[i]
  BY <1>3
<1>6. {gfDocuments'[i] : i \in {j \in DOMAIN gfDocuments' : gfDocuments'[j].gfv = g}}
        = {gfDocuments[i] : i \in {j \in DOMAIN gfDocuments : gfDocuments[j].gfv = g}}
  BY <1>4, <1>5
<1>7. DocumentsOf(s, v)' = DocumentsOf(s, v)
  BY <1>3, <1>6 DEF DocumentsOf
<1> QED BY <1>2, <1>7 DEF HistoryKept

LEMMA FrozenBySeed ==
  ASSUME RegistryInv, OwnersKept, NEW subject, subject \notin Subjects,
         NEW language, NEW content, SeedFramework(subject, language, content),
         NEW s \in Subjects, NEW v \in 1 .. Owner(s).activeVersion
  PROVE  HistoryKept(s, v)
<1>1. PICK gfv : gfv = counters.gfv + 1
  OBVIOUS
<1>2. PICK gfd : gfd = counters.gfd + 1
  OBVIOUS
<1>3. PICK doc : doc = [gfv |-> gfv, language |-> language, content |-> content]
  OBVIOUS
<1>4. /\ gfVersionBySubject' = Put(gfVersionBySubject, <<subject, 1>>, gfv)
      /\ gfDocuments' = Put(gfDocuments, gfd, doc)
  BY <1>1, <1>2, <1>3 DEF SeedFramework
<1>5. /\ counters.gfv \in Nat /\ counters.gfd \in Nat
      /\ DOMAIN gfVersions = 1 .. counters.gfv /\ DOMAIN gfDocuments = 1 .. counters.gfd
  BY DEF RegistryInv, CountersTyped, GfInv, GfTyped
<1>6. gfv \notin DOMAIN gfVersions /\ gfd \notin DOMAIN gfDocuments
  BY <1>1, <1>2, <1>5
<1>7. /\ <<s, v>> \in DOMAIN gfVersionBySubject
      /\ gfVersionBySubject[<<s, v>>] \in DOMAIN gfVersions
  BY ActiveVersions
<1>8. <<s, v>> # <<subject, 1>>
  OBVIOUS
<1>9. gfVersionBySubject'[<<s, v>>] = gfVersionBySubject[<<s, v>>]
  BY <1>4, <1>7, <1>8 DEF Put
<1>10. /\ DOMAIN gfDocuments' = DOMAIN gfDocuments \cup {gfd}
       /\ \A i \in DOMAIN gfDocuments : i # gfd => gfDocuments'[i] = gfDocuments[i]
       /\ gfDocuments'[gfd] = doc
  BY <1>4 DEF Put
<1>11. doc.gfv = gfv
  BY <1>3
<1> QED BY <1>6, <1>7, <1>9, <1>10, <1>11, FrozenByDocument

LEMMA FrozenByAdd ==
  ASSUME RegistryInv, NEW corp, NEW subject \in Subjects, NEW version \in 1 .. MaxVersions,
         NEW language \in Languages, NEW content \in Contents,
         AddGovernanceFrameworkDocument(corp, subject, version, language, content),
         NEW s \in Subjects, NEW v \in 1 .. Owner(s).activeVersion
  PROVE  HistoryKept(s, v)
<1>1. PICK gfv, gfd : DocumentAdded(subject, version, language, content, gfv, gfd)
  BY AddDocumentDoes
<1>2. PICK doc : doc = [gfv |-> gfv, language |-> language, content |-> content]
  OBVIOUS
<1>3. /\ version > Owner(subject).activeVersion /\ version \in Nat
      /\ \A k \in DOMAIN gfVersionBySubject :
           /\ gfVersionBySubject'[k] = gfVersionBySubject[k]
           /\ k # <<subject, version>> => gfVersionBySubject[k] # gfv
      /\ DOMAIN gfDocuments' = DOMAIN gfDocuments \cup {gfd}
      /\ gfDocuments'[gfd] = doc
      /\ \A i \in DOMAIN gfDocuments :
           /\ i # gfd => gfDocuments'[i] = gfDocuments[i]
           /\ i = gfd => gfDocuments[i].gfv = gfv
  BY <1>1, <1>2 DEF DocumentAdded
<1>4. OwnersKept
  BY AddDocumentKeeps
<1>5. /\ Owner(s).activeVersion \in Nat /\ v \in Nat
      /\ <<s, v>> \in DOMAIN gfVersionBySubject
  BY ActiveVersions
<1>6. <<s, v>> # <<subject, version>>
  <2>1. s = subject => v # version
    BY <1>3, <1>5
  <2> QED BY <2>1
<1>7. /\ gfVersionBySubject'[<<s, v>>] = gfVersionBySubject[<<s, v>>]
      /\ gfVersionBySubject[<<s, v>>] # gfv
  BY <1>3, <1>5, <1>6
<1>8. doc.gfv = gfv
  BY <1>2
<1> QED BY <1>3, <1>4, <1>7, <1>8, FrozenByDocument

LEMMA FrozenStep ==
  ASSUME RegistryInv, [Next]_vars, NEW s \in Subjects, NEW v \in 1 .. Owner(s).activeVersion
  PROVE  HistoryKept(s, v)
<1>1. ASSUME NEW did \in Dids, NEW language \in Languages, NEW content \in Contents,
             CreateCorporation(did, language, content)
      PROVE  HistoryKept(s, v)
  <2>1. PICK id : id = counters.co + 1
    OBVIOUS
  <2>2. SeedFramework(CorporationSubject(id), language, content)
    BY <1>1, <2>1 DEF CreateCorporation
  <2>3. id \notin DOMAIN corporations
    BY <2>1 DEF RegistryInv, CountersTyped, CoInv
  <2>4. CorporationSubject(id) \notin Subjects
    BY <2>3, SubjectsDistinct DEF Subjects
  <2> QED BY <1>1, <2>2, <2>4, CreateCorporationKeeps, FrozenBySeed
<1>2. ASSUME NEW corp \in DOMAIN corporations, CorporationMessages(corp)
      PROVE  HistoryKept(s, v)
  <2>1. ASSUME OwnersKept, UNCHANGED gfVars
        PROVE  HistoryKept(s, v)
    BY <2>1, FrozenUntouched DEF OwnersKept, gfVars
  <2>2. ASSUME NEW did \in Dids, UpdateCorporation(corp, did)
        PROVE  HistoryKept(s, v)
    BY <2>1, <2>2, UpdateCorporationKeeps DEF UpdateCorporation
  <2>3. ASSUME NEW did \in Dids, NEW language \in Languages, NEW content \in Contents,
               CreateEcosystem(corp, did, language, content)
        PROVE  HistoryKept(s, v)
    <3>1. PICK id : id = counters.ec + 1
      OBVIOUS
    <3>2. SeedFramework(EcosystemSubject(id), language, content)
      BY <2>3, <3>1 DEF CreateEcosystem
    <3>3. id \notin DOMAIN ecosystems
      BY <3>1 DEF RegistryInv, CountersTyped, EcInv
    <3>4. EcosystemSubject(id) \notin Subjects
      BY <3>3, SubjectsDistinct DEF Subjects
    <3> QED BY <2>3, <3>2, <3>4, CreateEcosystemKeeps, FrozenBySeed
  <2>4. ASSUME NEW id \in DOMAIN ecosystems, NEW did \in Dids, UpdateEcosystem(corp, id, did)
        PROVE  HistoryKept(s, v)
    BY <2>1, <2>4, UpdateEcosystemKeeps DEF UpdateEcosystem
  <2>5. ASSUME NEW id \in DOMAIN ecosystems, NEW archive \in BOOLEAN,
               ArchiveEcosystem(corp, id, archive)
        PROVE  HistoryKept(s, v)
    BY <2>1, <2>5, ArchiveEcosystemKeeps DEF ArchiveEcosystem
  <2>6. ASSUME NEW subject \in Subjects, NEW version \in 1 .. MaxVersions,
               NEW language \in Languages, NEW content \in Contents,
               AddGovernanceFrameworkDocument(corp, subject, version, language, content)
        PROVE  HistoryKept(s, v)
    BY <2>6, FrozenByAdd
  <2>7. ASSUME NEW subject \in Subjects,
               IncreaseActiveGovernanceFrameworkVersion(corp, subject)
        PROVE  HistoryKept(s, v)
    <3>1. UNCHANGED <<gfVersionBySubject, gfDocuments>>
      BY <2>7 DEF IncreaseActiveGovernanceFrameworkVersion
    <3> QED BY <2>7, <3>1, IncreaseKeeps, FrozenUntouched
  <2> QED BY <1>2, <2>2, <2>3, <2>4, <2>5, <2>6, <2>7 DEF CorporationMessages
<1>3. CASE RestartFromGenesis
  <2>1. UNCHANGED <<gfVersionBySubject, gfDocuments>>
    BY <1>3, RestartKeeps DEF RestartFromGenesis
  <2> QED BY <1>3, <2>1, RestartKeeps, FrozenUntouched DEF OwnersKept
<1>4. CASE UNCHANGED vars
  <2>1. UNCHANGED <<corporations, ecosystems, gfVersionBySubject, gfDocuments>>
    BY <1>4 DEF vars, coVars, ecVars, gfVars
  <2> QED BY <2>1, OwnersKeptWhen, FrozenUntouched DEF OwnersKept
<1> QED BY <1>1, <1>2, <1>3, <1>4 DEF Next

(***************************************************************************)
(* No message and no restart adds, changes or removes a document of a      *)
(* version that was activated, and no version stops having been.           *)
(***************************************************************************)
THEOREM ActivatedStayFrozen == Spec => ActivatedDocumentsFrozen
<1>1. ASSUME RegistryInv, [Next]_vars
      PROVE  [\A subject \in Subjects : \A v \in 1 .. Owner(subject).activeVersion :
                /\ v <= Owner(subject)'.activeVersion
                /\ DocumentsOf(subject, v)' = DocumentsOf(subject, v)]_vars
  BY <1>1, FrozenStep DEF HistoryKept
<1> QED BY <1>1, RegistryInvariant, PTL DEF Spec, ActivatedDocumentsFrozen
=============================================================================
