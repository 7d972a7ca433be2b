------------------------------ MODULE Registry ------------------------------
(***************************************************************************)
(* Who is who: the corporations of x/co, the ecosystems of x/ec that they  *)
(* control, and the governance frameworks of both, which x/gf keeps.  The  *)
(* three modules write each other's state within one transaction: creating *)
(* a corporation or an ecosystem seeds version 1 of its framework, and     *)
(* x/gf moves the active version that x/co and x/ec store.                 *)
(*                                                                         *)
(* x/group gives every corporation a policy address of its own; the id of  *)
(* the corporation stands for it.  That the operator of a message may sign *)
(* it is decided in Delegation.  Timestamps are left out, but for whether  *)
(* a version's active_since is set.                                        *)
(***************************************************************************)
EXTENDS Stores

CONSTANTS
  Dids, Languages,
  Contents,          \* url and digest of a document
  MaxCorporations,   \* bounds on the four id counters
  MaxEcosystems,
  MaxVersions,
  MaxDocuments

ASSUME RegistryAssumption ==
  {MaxCorporations, MaxEcosystems, MaxVersions, MaxDocuments} \subseteq Nat

VARIABLES
  corporations,        \* Corporation, by id
  corporationByDid,    \* CorporationByDID
  ecosystems,          \* Ecosystem, by id
  ecosystemByDidCorp,  \* EcosystemByDIDCorp
  gfVersions,          \* GFVersion, by id
  gfVersionBySubject,  \* GFVersionByCorporation and GFVersionByEcosystem
  gfDocuments,         \* GFDocument, by id
  counters             \* the counters of the three modules

coVars == <<corporations, corporationByDid>>
ecVars == <<ecosystems, ecosystemByDidCorp>>
gfVars == <<gfVersions, gfVersionBySubject, gfDocuments>>
vars == <<coVars, ecVars, gfVars, counters>>

Init ==
  /\ corporations = EmptyMap /\ corporationByDid = EmptyMap
  /\ ecosystems = EmptyMap /\ ecosystemByDidCorp = EmptyMap
  /\ gfVersions = EmptyMap /\ gfVersionBySubject = EmptyMap
  /\ gfDocuments = EmptyMap
  /\ counters = [co |-> 0, ec |-> 0, gfv |-> 0, gfd |-> 0]

-----------------------------------------------------------------------------
(* The owners of frameworks, as x/gf sees them.                            *)

CorporationSubject(id) == <<"corporation", id>>
EcosystemSubject(id) == <<"ecosystem", id>>

Subjects ==
  {CorporationSubject(id) : id \in DOMAIN corporations}
    \cup {EcosystemSubject(id) : id \in DOMAIN ecosystems}

Owner(subject) ==
  IF subject[1] = "ecosystem" THEN ecosystems[subject[2]] ELSE corporations[subject[2]]

\* resolveSubject: the corporation itself or an ecosystem it controls.
SubjectsOf(corp) ==
  {CorporationSubject(corp)}
    \cup {EcosystemSubject(id) : id \in {i \in DOMAIN ecosystems :
                                           ecosystems[i].corporation = corp}}

VersionsOf(subject) ==
  {v \in 1 .. MaxVersions : Has(gfVersionBySubject, <<subject, v>>)}

DocumentIds(gfv, language) ==
  {id \in DOMAIN gfDocuments :
     gfDocuments[id].gfv = gfv /\ gfDocuments[id].language = language}

-----------------------------------------------------------------------------
(* Corporations and ecosystems.                                            *)

\* The framework of a new subject has a version 1, active from the start.
SeedFramework(subject, language, content) ==
  LET gfv == counters.gfv + 1
      gfd == counters.gfd + 1
  IN  /\ ~Has(gfVersionBySubject, <<subject, 1>>)
      /\ gfv <= MaxVersions /\ gfd <= MaxDocuments
      /\ gfVersions' = Put(gfVersions, gfv,
                           [subject |-> subject, version |-> 1, activeSince |-> TRUE])
      /\ gfVersionBySubject' = Put(gfVersionBySubject, <<subject, 1>>, gfv)
      /\ gfDocuments' = Put(gfDocuments, gfd,
                            [gfv |-> gfv, language |-> language, content |-> content])

CreateCorporation(did, language, content) ==
  LET id == counters.co + 1
  IN  /\ id <= MaxCorporations
      /\ ~Has(corporationByDid, did)
      /\ corporations' = Put(corporations, id,
                             [did |-> did, language |-> language, activeVersion |-> 1])
      /\ corporationByDid' = Put(corporationByDid, did, id)
      /\ SeedFramework(CorporationSubject(id), language, content)
      /\ counters' = [counters EXCEPT !.co = @ + 1, !.gfv = @ + 1, !.gfd = @ + 1]
      /\ UNCHANGED ecVars

DidIndexKeepingOld(id, did) ==     \* mutant: the old DID stays taken
  Put(corporationByDid, did, id)

DidIndexAfter(id, did) ==
  Put(Remove(corporationByDid, corporations[id].did), did, id)

UpdateCorporation(id, did) ==
  /\ ~Has(corporationByDid, did)
  /\ corporations' = [corporations EXCEPT ![id].did = did]
  /\ corporationByDid' = DidIndexAfter(id, did)
  /\ UNCHANGED <<ecVars, gfVars, counters>>

\* assertDIDConsistent: the index is asked, not the ecosystems.
DidFreeFor(did, corp, self) ==
  \A key \in DOMAIN ecosystemByDidCorp :
    key[1] = did /\ ecosystemByDidCorp[key] # self => key[2] = corp

CreateEcosystem(corp, did, language, content) ==
  LET id == counters.ec + 1
  IN  /\ id <= MaxEcosystems
      /\ DidFreeFor(did, corp, 0)
      /\ ecosystems' = Put(ecosystems, id,
                           [did |-> did, corporation |-> corp, language |-> language,
                            archived |-> FALSE, activeVersion |-> 1])
      /\ ecosystemByDidCorp' = Put(ecosystemByDidCorp, <<did, corp>>, id)
      /\ SeedFramework(EcosystemSubject(id), language, content)
      /\ counters' = [counters EXCEPT !.ec = @ + 1, !.gfv = @ + 1, !.gfd = @ + 1]
      /\ UNCHANGED coVars

\* The entry of the old DID goes, whichever ecosystem it leads to.
UpdateEcosystem(corp, id, did) ==
  LET e == ecosystems[id]
  IN  /\ e.corporation = corp
      /\ e.did # did
      /\ DidFreeFor(did, corp, id)
      /\ ecosystems' = [ecosystems EXCEPT ![id].did = did]
      /\ ecosystemByDidCorp' =
           Put(Remove(ecosystemByDidCorp, <<e.did, corp>>), <<did, corp>>, id)
      /\ UNCHANGED <<coVars, gfVars, counters>>

ArchiveEcosystem(corp, id, archive) ==
  /\ ecosystems[id].corporation = corp
  /\ ecosystems[id].archived # archive
  /\ ecosystems' = [ecosystems EXCEPT ![id].archived = archive]
  /\ UNCHANGED <<coVars, ecosystemByDidCorp, gfVars, counters>>

-----------------------------------------------------------------------------
(* Governance frameworks.                                                  *)

MayAddToActive(subject, version) ==     \* mutant: the active version is let through
  /\ version \in VersionsOf(subject) \/ version - 1 = Largest(VersionsOf(subject))
  /\ version >= Owner(subject).activeVersion

MayAdd(subject, version) ==
  /\ version \in VersionsOf(subject) \/ version - 1 = Largest(VersionsOf(subject))
  /\ version > Owner(subject).activeVersion

\* The document of a version and a language is written over, if there is one.
AddGovernanceFrameworkDocument(corp, subject, version, language, content) ==
  LET known == version \in VersionsOf(subject)
      gfv == IF known THEN gfVersionBySubject[<<subject, version>>]
             ELSE counters.gfv + 1
      existing == DocumentIds(gfv, language)
      gfd == IF existing # {} THEN CHOOSE id \in existing : TRUE ELSE counters.gfd + 1
      created == [subject |-> subject, version |-> version, activeSince |-> FALSE]
  IN  /\ subject \in SubjectsOf(corp)
      /\ MayAdd(subject, version)
      /\ gfv <= MaxVersions /\ gfd <= MaxDocuments
      /\ gfVersions' = IF known THEN gfVersions ELSE Put(gfVersions, gfv, created)
      /\ gfVersionBySubject' = Put(gfVersionBySubject, <<subject, version>>, gfv)
      /\ gfDocuments' = Put(gfDocuments, gfd,
                            [gfv |-> gfv, language |-> language, content |-> content])
      /\ counters' = [counters EXCEPT !.gfv = IF known THEN @ ELSE gfv,
                                      !.gfd = IF existing # {} THEN @ ELSE gfd]
      /\ UNCHANGED <<coVars, ecVars>>

\* SetActiveVersion of x/co, SetEcosystemActiveVersion of x/ec.
SetActiveVersion(subject, version) ==
  IF subject[1] = "ecosystem"
  THEN /\ ecosystems' = [ecosystems EXCEPT ![subject[2]].activeVersion = version]
       /\ UNCHANGED corporations
  ELSE /\ corporations' = [corporations EXCEPT ![subject[2]].activeVersion = version]
       /\ UNCHANGED ecosystems

MayActivateAny(subject, version) ==     \* mutant: no document in the subject's language
  Has(gfVersionBySubject, <<subject, version>>)

MayActivate(subject, version) ==
  /\ Has(gfVersionBySubject, <<subject, version>>)
  /\ DocumentIds(gfVersionBySubject[<<subject, version>>], Owner(subject).language) # {}

IncreaseActiveGovernanceFrameworkVersion(corp, subject) ==
  LET next == Owner(subject).activeVersion + 1
  IN  /\ subject \in SubjectsOf(corp)
      /\ MayActivate(subject, next)
      /\ gfVersions' = [gfVersions EXCEPT
                          ![gfVersionBySubject[<<subject, next>>]].activeSince = TRUE]
      /\ SetActiveVersion(subject, next)
      /\ UNCHANGED <<corporationByDid, ecosystemByDidCorp, gfVersionBySubject,
                     gfDocuments, counters>>

-----------------------------------------------------------------------------
(* Genesis: the indexes are rebuilt; the counters restart at the last id,  *)
(* but for that of x/ec, which is exported.                                *)

\* The index of rows with the keys keyOf; of two rows with one key, the last.
Index(keyOf) ==
  [k \in {keyOf[id] : id \in DOMAIN keyOf} |->
     Largest({id \in DOMAIN keyOf : keyOf[id] = k})]

RestartFromGenesis ==
  LET didOf == [id \in DOMAIN corporations |-> corporations[id].did]
      didCorpOf == [id \in DOMAIN ecosystems |->
                      <<ecosystems[id].did, ecosystems[id].corporation>>]
      subjectVersionOf == [id \in DOMAIN gfVersions |->
                             <<gfVersions[id].subject, gfVersions[id].version>>]
  IN  /\ corporationByDid' = Index(didOf)
      /\ ecosystemByDidCorp' = Index(didCorpOf)
      /\ gfVersionBySubject' = Index(subjectVersionOf)
      /\ counters' = [counters EXCEPT !.co = LastId(corporations),
                                      !.gfv = LastId(gfVersions),
                                      !.gfd = LastId(gfDocuments)]
      /\ UNCHANGED <<corporations, ecosystems, gfVersions, gfDocuments>>

CorporationMessages(corp) ==
  \/ \E did \in Dids :
       \/ UpdateCorporation(corp, did)
       \/ \E language \in Languages, content \in Contents :
            CreateEcosystem(corp, did, language, content)
       \/ \E id \in DOMAIN ecosystems : UpdateEcosystem(corp, id, did)
  \/ \E id \in DOMAIN ecosystems, archive \in BOOLEAN :
       ArchiveEcosystem(corp, id, archive)
  \/ \E subject \in Subjects :
       \/ \E version \in 1 .. MaxVersions, language \in Languages, content \in Contents :
            AddGovernanceFrameworkDocument(corp, subject, version, language, content)
       \/ IncreaseActiveGovernanceFrameworkVersion(corp, subject)

Next ==
  \/ \E did \in Dids, language \in Languages, content \in Contents :
       CreateCorporation(did, language, content)
  \/ \E corp \in DOMAIN corporations : CorporationMessages(corp)
  \/ RestartFromGenesis

Spec == Init /\ [][Next]_vars

-----------------------------------------------------------------------------
(* Properties.                                                             *)

\* Ids are handed out one by one and never again, and references lead to
\* what was created before.
TypeOK ==
  /\ counters \in [{"co", "ec", "gfv", "gfd"} -> Nat]
  /\ corporations \in
       [1 .. counters.co -> [did : Dids, language : Languages, activeVersion : Nat]]
  /\ ecosystems \in
       [1 .. counters.ec -> [did : Dids, corporation : DOMAIN corporations,
                             language : Languages, archived : BOOLEAN,
                             activeVersion : Nat]]
  /\ gfVersions \in
       [1 .. counters.gfv -> [subject : Subjects, version : Nat, activeSince : BOOLEAN]]
  /\ gfDocuments \in
       [1 .. counters.gfd -> [gfv : DOMAIN gfVersions, language : Languages,
                              content : Contents]]

(***************************************************************************)
(* Every index leads to the row that has the key.  Those of x/co and x/gf  *)
(* also find every row, so that no two corporations have one DID and no    *)
(* framework has two documents of a version in one language.               *)
(***************************************************************************)
IndexesAgree ==
  /\ \A did \in DOMAIN corporationByDid :
       /\ Has(corporations, corporationByDid[did])
       /\ corporations[corporationByDid[did]].did = did
  /\ \A id \in DOMAIN corporations : Has(corporationByDid, corporations[id].did)
  /\ \A p, q \in DOMAIN corporations :
       corporations[p].did = corporations[q].did => p = q
  /\ \A key \in DOMAIN ecosystemByDidCorp :
       LET e == ecosystems[ecosystemByDidCorp[key]]
       IN  <<e.did, e.corporation>> = key
  /\ \A key \in DOMAIN gfVersionBySubject :
       LET v == gfVersions[gfVersionBySubject[key]] IN <<v.subject, v.version>> = key
  /\ \A id \in DOMAIN gfVersions :
       LET v == gfVersions[id]
       IN  /\ Has(gfVersionBySubject, <<v.subject, v.version>>)
           /\ gfVersionBySubject[<<v.subject, v.version>>] = id
  /\ \A p, q \in DOMAIN gfDocuments :
       /\ gfDocuments[p].gfv = gfDocuments[q].gfv
       /\ gfDocuments[p].language = gfDocuments[q].language
       => p = q

(***************************************************************************)
(* The framework of a corporation or an ecosystem has versions 1..n; those *)
(* x/gf says were activated are the ones up to the active version that     *)
(* x/co or x/ec stores; and each of those has a document in the language   *)
(* of its owner.                                                           *)
(***************************************************************************)
FrameworksInForce ==
  \A subject \in Subjects :
    LET active == Owner(subject).activeVersion
    IN  /\ VersionsOf(subject) = 1 .. Largest(VersionsOf(subject))
        /\ active \in VersionsOf(subject)
        /\ \A v \in VersionsOf(subject) :
             LET gfv == gfVersionBySubject[<<subject, v>>]
             IN  /\ gfVersions[gfv].activeSince <=> v <= active
                 /\ v <= active => DocumentIds(gfv, Owner(subject).language) # {}

(***************************************************************************)
(* What was once in force stays as it was: no message and no restart adds, *)
(* changes or removes a document of a version that was activated, and no   *)
(* version stops having been.                                              *)
(***************************************************************************)
DocumentsOf(subject, version) ==
  LET gfv == gfVersionBySubject[<<subject, version>>]
  IN  {gfDocuments[id] : id \in {i \in DOMAIN gfDocuments : gfDocuments[i].gfv = gfv}}

ActivatedDocumentsFrozen ==
  [][\A subject \in Subjects : \A v \in 1 .. Owner(subject).activeVersion :
       /\ v <= Owner(subject)'.activeVersion
       /\ DocumentsOf(subject, v)' = DocumentsOf(subject, v)]_vars

-----------------------------------------------------------------------------
(* What comments of the code say and the code does not do.                 *)

(***************************************************************************)
(* "for every existing Ecosystem entry with the same did, its              *)
(* corporation_id MUST equal co.Id", an invariant that the genesis of x/ec *)
(* is refused without: a DID belongs to ecosystems of one corporation.     *)
(***************************************************************************)
DidOfOneCorporation ==
  \A p, q \in DOMAIN ecosystems :
    ecosystems[p].did = ecosystems[q].did =>
      ecosystems[p].corporation = ecosystems[q].corporation
=============================================================================
