--------------------------- MODULE ProviderProofs ---------------------------
(***************************************************************************)
(* What construction and request building achieve, for any settings and    *)
(* any metadata.  Construction gives processing what it assumes (what      *)
(* ConfigurationAssumption says of the constants of module Validation is   *)
(* true of every provider that exists), chooses the best endpoint, trusts  *)
(* what the roles advertise and refuses nothing that would do; and a       *)
(* request arrives as it was built.                                        *)
(***************************************************************************)
EXTENDS ProviderProperties, SequenceFacts

USE DEF Passed, ValueError, MetadataError

(* A construction ends with one of three outcomes. *)
LEMMA ConstructionOutcomes ==
  /\ \A fields : ConfigPostInit(fields) \in {Passed, ValueError}
  /\ \A document : ProviderInit(document) \in {Passed, ValueError, MetadataError}
<1>1. \A fields : ConfigPostInit(fields) \in {Passed, ValueError}
  BY DEF ConfigPostInit, RequireWebUrl, Require, &&
<1>2. \A document : ReadEntity(document) \in {Passed, MetadataError}
  BY DEF ReadEntity, Require, &&
<1>3. \A roles : SelectSsoUrl(roles) \in {Passed, ValueError, MetadataError}
  BY DEF SelectSsoUrl, Require, &&
<1>4. \A url : IdpPostInit(url) \in {Passed, ValueError}
  BY DEF IdpPostInit, RequireWebUrl, Require
<1>5. \A document : ProviderInit(document) \in {Passed, ValueError, MetadataError}
  BY <1>2, <1>3, <1>4 DEF ProviderInit, ParseIdpMetadata, Require, &&
<1> QED BY <1>1, <1>5

(* Stripping once is enough. *)
LEMMA StrippedIsStripped == \A value : Stripped(Stripped(value)) = Stripped(value)
BY DEF Stripped

(* What is known of a config and of a provider that exist: they came of    *)
(* constructors that raised nothing; and what a construction that raised   *)
(* something raised is what the metadata led to.                           *)
Constructed ==
  /\ config # None =>
       /\ settings \in Settings /\ ConfigPostInit(settings) = Passed
       /\ config = SamlConfig(settings)
       /\ outcome \in {Passed, ProviderInit(config.idpMetadata)}
  /\ provider # None =>
       /\ config # None
       /\ ProviderInit(config.idpMetadata) = Passed
       /\ provider = IdpDescriptor(config.idpMetadata)

(* A request is built by a provider, with a reading of its clock. *)
Grounded ==
  request # None =>
    /\ provider # None /\ reading \in Readings
    /\ \E relayState \in RelayStates, hostTime \in HostTimes :
         request = BuildAuthnRequest(config, provider, relayState, reading, hostTime, FreshId)

ProviderInv == TypeOK /\ Constructed /\ Grounded

LEMMA ProviderStep == ProviderInv /\ [Next]_vars => ProviderInv'
<1> SUFFICES ASSUME ProviderInv, [Next]_vars PROVE ProviderInv'
  OBVIOUS
<1> USE DEF ProviderInv, TypeOK, Constructed, Grounded
<1>1. CASE Configure
  <2>1. settings = None /\ config = None /\ provider = None /\ request = None
    BY <1>1, SettingsAssumption DEF Configure
  <2>2. PICK fields \in Settings :
          /\ settings' = fields /\ outcome' = ConfigPostInit(fields)
          /\ config' = IF ConfigPostInit(fields) = Passed THEN SamlConfig(fields) ELSE None
    BY <1>1 DEF Configure
  <2>3. provider' = None /\ request' = None
    BY <1>1, <2>1 DEF Configure
  <2>4. ConfigPostInit(fields) \in {Passed, ValueError}
    BY ConstructionOutcomes
  <2> QED BY <2>2, <2>3, <2>4
<1>2. CASE Construct
  BY <1>2, ConstructionOutcomes DEF Construct
<1>3. CASE BuildRequest
  BY <1>3 DEF BuildRequest
<1>4. CASE StartAgain
  BY <1>4 DEF StartAgain
<1>5. CASE UNCHANGED vars
  BY <1>5 DEF vars
<1> QED BY <1>1, <1>2, <1>3, <1>4, <1>5 DEF Next

LEMMA ProviderInvariant == Spec => []ProviderInv
<1>1. Init => ProviderInv
  BY DEF Init, ProviderInv, TypeOK, Constructed, Grounded
<1>2. ProviderInv /\ [Next]_vars => ProviderInv'
  BY ProviderStep
<1> QED BY <1>1, <1>2, PTL DEF Spec

(* The type invariant, and that construction raises a ValueError or a      *)
(* MetadataError and nothing else.                                         *)
THEOREM ProviderTypeCorrect == Spec => []TypeOK
<1>1. ProviderInv => TypeOK
  BY DEF ProviderInv
<1> QED BY <1>1, ProviderInvariant, PTL

(* Every provider that exists is bound to what processing a response       *)
(* assumes, and to URLs that are safe to dispatch to.                      *)
THEOREM ConstructionIsSound == Spec => []ProviderIsUsable
<1>1. ProviderInv => ProviderIsUsable
  <2> SUFFICES ASSUME Constructed, provider # None
               PROVE  /\ IsConfiguration(config.entityId.text, config.skew,
                           config.allowIdpInitiated, provider.signingCertificates)
                      /\ IsWebUrl(config.acsUrl) /\ IsWebUrl(provider.ssoUrl)
                      /\ config.entityId = Stripped(config.entityId)
                      /\ config.wantAssertionsSigned
    BY DEF ProviderInv, ProviderIsUsable
  <2>1. /\ settings \in Settings /\ ConfigPostInit(settings) = Passed
        /\ config = SamlConfig(settings)
        /\ ProviderInit(config.idpMetadata) = Passed
        /\ provider = IdpDescriptor(config.idpMetadata)
    BY DEF Constructed
  <2>2. /\ ~IsBlank(Stripped(settings.entityId))
        /\ Stripped(settings.acsUrl).kind = "web"
        /\ settings.skew >= 0 /\ settings.wantAssertionsSigned
    BY <2>1 DEF ConfigPostInit, RequireWebUrl, Require, &&
  <2>3. /\ config.entityId = Stripped(settings.entityId)
        /\ config.acsUrl = Stripped(settings.acsUrl)
        /\ config.skew = settings.skew
        /\ config.allowIdpInitiated = settings.allowIdpInitiated
        /\ config.wantAssertionsSigned = settings.wantAssertionsSigned
    BY <2>1, SettingsAssumption DEF SamlConfig
  <2>4. /\ CollectSigningCertificates(config.idpMetadata) # << >>
        /\ SelectedSsoUrl(config.idpMetadata.roles).kind = "web"
    BY <2>1 DEF ProviderInit, ParseIdpMetadata, IdpPostInit, RequireWebUrl, Require, &&
  <2>5. /\ provider.ssoUrl = SelectedSsoUrl(config.idpMetadata.roles)
        /\ provider.signingCertificates = CollectSigningCertificates(config.idpMetadata)
    BY <2>1 DEF IdpDescriptor
  <2>6. SelectedSsoUrl(config.idpMetadata.roles)
          = Stripped(SelectedSsoUrl(config.idpMetadata.roles))
    BY StrippedIsStripped DEF SelectedSsoUrl
  <2>7. settings.skew \in Nat /\ settings.allowIdpInitiated \in BOOLEAN
    BY <2>1, <2>2, SettingsAssumption
  <2>8. IsConfiguration(config.entityId.text, config.skew, config.allowIdpInitiated,
                        provider.signingCertificates)
    BY <2>2, <2>3, <2>4, <2>5, <2>7 DEF IsConfiguration, IsBlank
  <2>9. IsWebUrl(config.acsUrl) /\ config.entityId = Stripped(config.entityId)
    BY <2>2, <2>3, StrippedIsStripped DEF IsWebUrl
  <2>10. IsWebUrl(provider.ssoUrl)
    BY <2>4, <2>5, <2>6 DEF IsWebUrl
  <2> QED BY <2>2, <2>3, <2>8, <2>9, <2>10
<1> QED BY <1>1, ProviderInvariant, PTL

-----------------------------------------------------------------------------
(* The endpoint                                                            *)

(* What a provider that exists came of *)
LEMMA ProviderComesOf ==
  ASSUME ProviderInv, provider # None
  PROVE  /\ IsMetadata(config.idpMetadata)
         /\ provider = IdpDescriptor(config.idpMetadata)
         /\ PreferredFound(Services(config.idpMetadata.roles)) # 0
         /\ ~ParseRaises(Services(config.idpMetadata.roles))
<1>1. /\ settings \in Settings /\ config = SamlConfig(settings)
      /\ ProviderInit(config.idpMetadata) = Passed
      /\ provider = IdpDescriptor(config.idpMetadata)
  BY DEF ProviderInv, Constructed
<1>2. config.idpMetadata = settings.idpMetadata
  BY <1>1, SettingsAssumption DEF SamlConfig
<1>3. SelectSsoUrl(config.idpMetadata.roles) = Passed
  BY <1>1 DEF ProviderInit, ParseIdpMetadata, &&
<1> QED BY <1>1, <1>2, <1>3, SettingsAssumption DEF SelectSsoUrl, Require, &&

LEMMA PairsInOrder ==
  ASSUME NEW a, NEW b, NEW c, NEW d, a < c \/ (a = c /\ b < d)
  PROVE  Before(<<a, b>>, <<c, d>>)
<1>1. 1 \in DOMAIN <<a, b>> /\ 2 \in DOMAIN <<a, b>>
  OBVIOUS
<1>2. CASE a < c
  BY <1>1, <1>2 DEF Before
<1>3. CASE a = c /\ b < d
  <2>1. \A k \in 1..(2 - 1) : <<a, b>>[k] = <<c, d>>[k]
    BY <1>3
  <2> QED BY <1>1, <1>3, <2>1 DEF Before
<1> QED BY <1>2, <1>3

(* at[p] is the place in the document of the p-th of its services. *)
ListsServices(services, document, at) ==
  /\ \A p \in DOMAIN services :
       at[p] \in Advertised(document) /\ services[p] = Endpoint(document, at[p])
  /\ \A x \in Advertised(document) : \E p \in DOMAIN services : at[p] = x
  /\ \A p, q \in DOMAIN services : p < q => Before(at[p], at[q])

LEMMA ServicesAreListed ==
  ASSUME NEW document, IsMetadata(document)
  PROVE  /\ Len(Services(document.roles)) \in Nat
         /\ DOMAIN Services(document.roles) = 1..Len(Services(document.roles))
         /\ \E at : ListsServices(Services(document.roles), document, at)
<1> DEFINE roles == document.roles
           n == Len(roles)
           seqs == [i \in 1..n |-> roles[i].services]
           services == Services(roles)
<1>1. /\ n \in Nat /\ DOMAIN roles = 1..n
      /\ \A i \in 1..n : /\ seqs[i] \in Seq(Range(seqs[i]))
                         /\ DOMAIN roles[i].services = 1..Len(roles[i].services)
  BY DEF IsMetadata, IsSequence
<1>2. services = FlattenSeq(seqs)
  BY <1>1 DEF Services
<1>3. PICK row, col : Lists(services, seqs, n, row, col)
  BY <1>1, <1>2, FlattenedSequences
<1>4. Len(services) \in Nat /\ DOMAIN services = 1..Len(services)
  BY <1>1, <1>2, FlattenedSequences
<1> HIDE DEF services, n
<1> DEFINE at == [p \in 1..Len(services) |-> <<row[p], col[p]>>]
<1>5. ASSUME NEW p \in 1..Len(services)
      PROVE  at[p] \in Advertised(document) /\ services[p] = Endpoint(document, at[p])
  <2>1. /\ row[p] \in 1..n /\ col[p] \in 1..Len(seqs[row[p]])
        /\ services[p] = seqs[row[p]][col[p]]
    BY <1>3 DEF Lists
  <2>2. row[p] \in DOMAIN roles /\ col[p] \in DOMAIN roles[row[p]].services
    BY <1>1, <2>1
  <2>3. at[p] \in Advertised(document)
    BY <2>2 DEF Advertised
  <2>4. services[p] = roles[row[p]].services[col[p]]
    BY <2>1
  <2> QED BY <2>3, <2>4 DEF Endpoint
<1>6. ASSUME NEW x \in Advertised(document)
      PROVE  \E p \in 1..Len(services) : at[p] = x
  <2>1. PICK i \in DOMAIN roles : \E j \in DOMAIN roles[i].services : x = <<i, j>>
    BY DEF Advertised
  <2>2. PICK j \in DOMAIN roles[i].services : x = <<i, j>>
    BY <2>1
  <2>3. i \in 1..n /\ j \in 1..Len(seqs[i])
    BY <1>1, <2>1, <2>2
  <2>4. PICK p \in 1..Len(services) : row[p] = i /\ col[p] = j
    BY <1>3, <2>3 DEF Lists
  <2> QED BY <2>2, <2>4
<1>7. ASSUME NEW p \in 1..Len(services), NEW q \in 1..Len(services), p < q
      PROVE  Before(at[p], at[q])
  <2>1. row[p] < row[q] \/ (row[p] = row[q] /\ col[p] < col[q])
    BY <1>3, <1>7 DEF Lists
  <2> QED BY <2>1, PairsInOrder
<1> HIDE DEF at
<1>8. ListsServices(services, document, at)
  BY <1>4, <1>5, <1>6, <1>7 DEF ListsServices
<1> QED BY <1>4, <1>8 DEF services

(* Which binding is preferred of those that were found, and which endpoint *)
(* of a binding *)
LEMMA PreferredBinding ==
  ASSUME NEW services, PreferredFound(services) # 0
  PROVE  \/ /\ PreferredFound(services) = 1
            /\ FirstUsable(services, "redirect") # {}
         \/ /\ PreferredFound(services) = 2
            /\ FirstUsable(services, "redirect") = {} /\ FirstUsable(services, "post") # {}
<1> DEFINE I == { i \in 1..Len(SsoBindingPreference) :
                    FirstUsable(services, SsoBindingPreference[i]) # {} }
<1>1. I # {} /\ PreferredFound(services) = Min(I)
  BY DEF PreferredFound, SelectInSeq
<1>2. I \in SUBSET Nat /\ Len(SsoBindingPreference) = 2
  BY DEF SsoBindingPreference
<1>3. Min(I) \in I /\ \A m \in I : Min(I) <= m
  BY <1>1, <1>2, MinIsLeast
<1> QED BY <1>1, <1>2, <1>3 DEF SsoBindingPreference

LEMMA UsableIsFound ==
  ASSUME NEW services, Len(services) \in Nat, DOMAIN services = 1..Len(services), NEW binding,
         NEW q \in DOMAIN services, Offers(services[q], binding)
  PROVE  \E p \in FirstUsable(services, binding) : p <= q
<1> DEFINE S == { i \in DOMAIN services : Offers(services[i], binding) }
<1>1. PICK p \in S : \A m \in S : p <= m
  <2>1. S \in SUBSET Nat /\ q \in S
    OBVIOUS
  <2> QED BY <2>1, LeastOfNaturals
<1>2. p \in FirstUsable(services, binding)
  <2>1. ASSUME NEW j \in DOMAIN services, j < p PROVE ~Offers(services[j], binding)
    BY <1>1, <2>1
  <2> QED BY <1>1, <2>1 DEF FirstUsable
<1> QED BY <1>1, <1>2

(* A location's kind is the same with or without white space around it.    *)
LEMMA KindIsKept ==
  ASSUME NEW url, IsUrl(url)
  PROVE  IsHttpUrl(Stripped(url)) <=> IsHttpUrl(url)
BY DEF IsUrl, IsHttpUrl, Stripped

LEMMA BestEndpoint == ProviderInv => BestEndpointIsChosen
<1>1. ASSUME ProviderInv, provider # None PROVE BestEndpointIsChosen
  <2> DEFINE document == config.idpMetadata
             services == Services(document.roles)
             binding == SsoBindingPreference[PreferredFound(services)]
             p == CHOOSE i \in FirstUsable(services, binding) : TRUE
             candidates == Candidates(document)
  <2>1. /\ IsMetadata(document) /\ provider = IdpDescriptor(document)
        /\ PreferredFound(services) # 0
    BY <1>1, ProviderComesOf
  <2>2. PICK at : ListsServices(services, document, at)
    BY <2>1, ServicesAreListed
  <2>3. /\ p \in FirstUsable(services, binding)
        /\ \/ binding = "redirect"
           \/ binding = "post" /\ FirstUsable(services, "redirect") = {}
    BY <2>1, PreferredBinding DEF SsoBindingPreference
  <2>4. provider.ssoUrl = Stripped(services[p].location)
    BY <2>1 DEF IdpDescriptor, SelectedSsoUrl
  <2> HIDE DEF document, services, binding, p
  <2>5. ASSUME NEW x \in Advertised(document) PROVE IsUrl(Endpoint(document, x).location)
    BY <2>1 DEF IsMetadata, Advertised, Endpoint
  <2>6. /\ p \in DOMAIN services /\ Offers(services[p], binding)
        /\ \A j \in DOMAIN services : j < p => ~Offers(services[j], binding)
    BY <2>3 DEF FirstUsable
  <2>7. at[p] \in candidates /\ services[p] = Endpoint(document, at[p])
    BY <2>2, <2>3, <2>5, <2>6, KindIsKept DEF ListsServices, Offers, Candidates
  <2>8. ASSUME NEW other \in candidates, other # at[p]
        PROVE  Better(document, at[p], other)
    <3>1. PICK q \in DOMAIN services : at[q] = other
      BY <2>2 DEF ListsServices, Candidates
    <3>2. Offers(services[q], services[q].binding) /\ services[q] = Endpoint(document, other)
      BY <2>2, <2>5, <3>1, KindIsKept DEF ListsServices, Offers, Candidates
    <3>3. Len(services) \in Nat /\ DOMAIN services = 1..Len(services)
      BY <2>1, ServicesAreListed DEF services
    <3>4. CASE services[q].binding = binding
      <4>1. p < q
        BY <2>6, <3>1, <3>2, <3>3, <3>4, <2>8
      <4>2. Before(at[p], other)
        BY <2>2, <2>6, <3>1, <4>1 DEF ListsServices
      <4> QED BY <2>6, <2>7, <3>2, <3>4, <4>2 DEF Better, Offers
    <3>5. CASE services[q].binding # binding
      <4>1. services[q].binding \in {"redirect", "post"}
        BY <3>2 DEF Candidates
      <4>2. services[q].binding # "redirect"
        <5>1. services[q].binding = "redirect" => FirstUsable(services, "redirect") # {}
          BY <3>2, <3>3, UsableIsFound
        <5> QED BY <2>3, <3>5, <5>1
      <4>3. services[q].binding = "post" /\ binding = "redirect"
        BY <2>3, <3>5, <4>1, <4>2
      <4> QED BY <2>6, <2>7, <3>2, <4>3 DEF Better, Offers
    <3> QED BY <3>4, <3>5
  <2> QED BY <2>4, <2>7, <2>8 DEF BestEndpointIsChosen, document
<1> QED BY <1>1 DEF BestEndpointIsChosen

(* The endpoint a provider sends its users to is the best one advertised.  *)
THEOREM EndpointIsBest == Spec => []BestEndpointIsChosen
BY BestEndpoint, ProviderInvariant, PTL

-----------------------------------------------------------------------------
(* The certificates                                                        *)

(* f holds what the fold in CollectSigningCertificates computes, for the   *)
(* positions up to n. *)
Collects(f, texts, n) ==
  \A s \in SUBSET (1..n) :
    f[s] = IF s = {} THEN << >> ELSE AddCertificate(f[s \ {Max(s)}], texts[Max(s)])

LEMMA CollectsMore ==
  ASSUME NEW n \in Nat, NEW texts, NEW f, Collects(f, texts, n)
  PROVE  \E g : Collects(g, texts, n + 1)
<1> DEFINE g == [s \in SUBSET (1..(n + 1)) |->
                   IF n + 1 \in s THEN AddCertificate(f[s \ {n + 1}], texts[n + 1]) ELSE f[s]]
<1>1. ASSUME NEW s \in SUBSET (1..(n + 1)), n + 1 \notin s
      PROVE  s \in SUBSET (1..n) /\ g[s] = f[s]
  BY <1>1
<1>2. ASSUME NEW s \in SUBSET (1..(n + 1)), n + 1 \in s
      PROVE  /\ Max(s) = n + 1 /\ s # {}
             /\ g[s] = AddCertificate(g[s \ {n + 1}], texts[n + 1])
  <2>1. Max(s) = n + 1
    BY <1>2, MaxIsLast
  <2>2. s \ {n + 1} \in SUBSET (1..(n + 1)) /\ n + 1 \notin s \ {n + 1}
    OBVIOUS
  <2>3. g[s \ {n + 1}] = f[s \ {n + 1}]
    BY <1>1, <2>2
  <2>4. g[s] = AddCertificate(f[s \ {n + 1}], texts[n + 1])
    BY <1>2
  <2> QED BY <1>2, <2>1, <2>3, <2>4
<1> HIDE DEF g
<1>3. Collects(g, texts, n + 1)
  <2> SUFFICES ASSUME NEW s \in SUBSET (1..(n + 1))
               PROVE  g[s] = IF s = {} THEN << >>
                             ELSE AddCertificate(g[s \ {Max(s)}], texts[Max(s)])
    BY DEF Collects
  <2>1. CASE n + 1 \in s
    BY <1>2, <2>1
  <2>2. CASE n + 1 \notin s
    <3>1. /\ s \in SUBSET (1..n) /\ g[s] = f[s]
          /\ g[s \ {Max(s)}] = f[s \ {Max(s)}]
      BY <1>1, <2>2
    <3> QED BY <3>1 DEF Collects
  <2> QED BY <2>1, <2>2
<1> QED BY <1>3

(* The collection, one certificate text after another *)
LEMMA CollectedOneByOne ==
  ASSUME NEW texts, NEW n \in Nat, DOMAIN texts = 1..n
  PROVE  \E upTo :
           /\ upTo[0] = << >>
           /\ \A m \in 1..n : upTo[m] = AddCertificate(upTo[m - 1], texts[m])
           /\ FoldLeft(AddCertificate, << >>, texts) = upTo[n]
<1> DEFINE S == { m \in Nat : \E f : Collects(f, texts, m) }
<1>1. PICK f : Collects(f, texts, n)
  <2>1. 0 \in S
    <3>1. Collects([s \in SUBSET (1..0) |-> << >>], texts, 0)
      BY DEF Collects
    <3> QED BY <3>1
  <2>2. ASSUME NEW m \in Nat, m \in S PROVE m + 1 \in S
    BY <2>2, CollectsMore
  <2>3. n \in S
    <3> HIDE DEF S
    <3> QED BY <2>1, <2>2, SetInduction
  <2> QED BY <2>3
<1> DEFINE h == [s \in SUBSET (1..n) |-> f[s]]
           k == CHOOSE iter : iter = [s \in SUBSET (1..n) |->
                  IF s = {} THEN << >> ELSE AddCertificate(iter[s \ {Max(s)}], texts[Max(s)])]
<1>2. h = [s \in SUBSET (1..n) |->
             IF s = {} THEN << >> ELSE AddCertificate(h[s \ {Max(s)}], texts[Max(s)])]
  BY <1>1 DEF Collects
<1> HIDE DEF h
<1>3. k = [s \in SUBSET (1..n) |->
             IF s = {} THEN << >> ELSE AddCertificate(k[s \ {Max(s)}], texts[Max(s)])]
  BY <1>2
<1>4. FoldLeft(AddCertificate, << >>, texts) = k[1..n]
  BY DEF FoldLeft, MapThenFoldSet
<1> HIDE DEF k
<1> DEFINE upTo == [m \in 0..n |-> k[1..m]]
<1>5. upTo[0] = << >>
  <2>1. 1..0 = {} /\ 1..0 \in SUBSET (1..n)
    OBVIOUS
  <2> QED BY <1>3, <2>1
<1>6. ASSUME NEW m \in 1..n PROVE upTo[m] = AddCertificate(upTo[m - 1], texts[m])
  <2>1. m \in Nat /\ m <= n /\ m - 1 \in 0..n /\ m \in 0..n
    OBVIOUS
  <2>2. 1..m \in SUBSET (1..n) /\ m \in 1..m
    BY <2>1
  <2>3. (1..m) \ {m} = 1..(m - 1)
    BY <2>1
  <2>4. Max(1..m) = m
    BY <2>1, <2>2, MaxIsLast
  <2>5. k[1..m] = AddCertificate(k[1..(m - 1)], texts[m])
    BY <1>3, <2>2, <2>3, <2>4
  <2> QED BY <2>1, <2>5
<1>7. upTo[n] = k[1..n]
  OBVIOUS
<1> HIDE DEF upTo
<1> QED BY <1>4, <1>5, <1>6, <1>7

(* s holds the texts up to n, each but the blank ones, in the order they   *)
(* first appear. *)
Keeps(s, texts, n) ==
  /\ s \in Seq(Range(texts))
  /\ \A i \in 1..Len(s) : s[i] # "" /\ \E m \in 1..n : texts[m] = s[i]
  /\ \A m \in 1..n : texts[m] # "" => \E i \in 1..Len(s) : s[i] = texts[m]
  /\ \A i, j \in 1..Len(s) : i < j =>
       \E m \in 1..n : texts[m] = s[i] /\ \A l \in 1..n : texts[l] = s[j] => m < l

LEMMA KeepsMore ==
  ASSUME NEW texts, NEW n \in Nat, n + 1 \in DOMAIN texts, NEW s, Keeps(s, texts, n)
  PROVE  Keeps(AddCertificate(s, texts[n + 1]), texts, n + 1)
<1> DEFINE text == texts[n + 1]
           t == AddCertificate(s, text)
<1>1. text \in Range(texts)
  BY DEF Range
<1>2. s \in Seq(Range(texts)) /\ Len(s) \in Nat
  <2>1. s \in Seq(Range(texts))
    BY DEF Keeps
  <2> QED BY <2>1
<1>3. \A m \in 1..(n + 1) : m \in 1..n \/ m = n + 1
  OBVIOUS
<1>4. \A m \in 1..n : m \in 1..(n + 1) /\ m < n + 1
  OBVIOUS
<1>5. n + 1 \in 1..(n + 1)
  OBVIOUS
<1>6. ASSUME text = "" \/ Contains(s, text) PROVE Keeps(t, texts, n + 1)
  <2>1. t = s /\ (text # "" => \E i \in 1..Len(s) : s[i] = text)
    BY <1>6 DEF AddCertificate, Contains
  <2>2. ASSUME NEW i \in 1..Len(s), NEW j \in 1..Len(s), i < j
        PROVE  \E m \in 1..(n + 1) : texts[m] = s[i]
                 /\ \A l \in 1..(n + 1) : texts[l] = s[j] => m < l
    <3>1. PICK m \in 1..n : texts[m] = s[i] /\ \A l \in 1..n : texts[l] = s[j] => m < l
      BY <2>2 DEF Keeps
    <3> QED BY <1>3, <1>4, <3>1
  <2>3. Keeps(s, texts, n + 1)
    BY <1>2, <1>3, <1>4, <2>1, <2>2 DEF Keeps
  <2> QED BY <2>1, <2>3
<1>7. ASSUME text # "" /\ ~Contains(s, text) PROVE Keeps(t, texts, n + 1)
  <2>1. t = Append(s, text) /\ \A i \in 1..Len(s) : s[i] # text
    BY <1>7 DEF AddCertificate, Contains
  <2> HIDE DEF t
  <2>2. /\ t \in Seq(Range(texts)) /\ Len(t) = Len(s) + 1
        /\ \A i \in 1..Len(s) : t[i] = s[i]
        /\ t[Len(s) + 1] = text
    BY <1>1, <1>2, <2>1
  <2>3. /\ \A i \in 1..Len(t) : i \in 1..Len(s) \/ i = Len(s) + 1
        /\ \A i \in 1..Len(s) : i \in 1..Len(t)
        /\ Len(s) + 1 \in 1..Len(t)
    BY <1>2, <2>2
  <2>4. \A m \in 1..n : texts[m] # text
    BY <1>7, <2>1 DEF Keeps
  <2>5. ASSUME NEW i \in 1..Len(t)
        PROVE  t[i] # "" /\ \E m \in 1..(n + 1) : texts[m] = t[i]
    BY <1>4, <1>5, <1>7, <2>2, <2>3 DEF Keeps
  <2>6. ASSUME NEW m \in 1..(n + 1), texts[m] # ""
        PROVE  \E i \in 1..Len(t) : t[i] = texts[m]
    BY <1>3, <2>2, <2>3, <2>6 DEF Keeps
  <2>7. ASSUME NEW i \in 1..Len(t), NEW j \in 1..Len(t), i < j
        PROVE  \E m \in 1..(n + 1) : texts[m] = t[i]
                 /\ \A l \in 1..(n + 1) : texts[l] = t[j] => m < l
    <3>1. i \in 1..Len(s)
      BY <1>2, <2>2, <2>7
    <3>2. CASE j \in 1..Len(s)
      <4>1. PICK m \in 1..n : texts[m] = s[i] /\ \A l \in 1..n : texts[l] = s[j] => m < l
        BY <2>7, <3>1, <3>2 DEF Keeps
      <4> QED BY <1>3, <1>4, <2>2, <3>1, <3>2, <4>1
    <3>3. CASE j = Len(s) + 1
      <4>1. PICK m \in 1..n : texts[m] = s[i]
        BY <3>1 DEF Keeps
      <4> QED BY <1>3, <1>4, <2>2, <2>4, <3>1, <3>3, <4>1
    <3> QED BY <2>3, <3>2, <3>3
  <2> QED BY <2>2, <2>5, <2>6, <2>7 DEF Keeps
<1> QED BY <1>6, <1>7

LEMMA CollectionKeeps ==
  ASSUME NEW texts, NEW n \in Nat, DOMAIN texts = 1..n
  PROVE  Keeps(FoldLeft(AddCertificate, << >>, texts), texts, n)
<1>1. PICK upTo :
        /\ upTo[0] = << >>
        /\ \A m \in 1..n : upTo[m] = AddCertificate(upTo[m - 1], texts[m])
        /\ FoldLeft(AddCertificate, << >>, texts) = upTo[n]
  BY CollectedOneByOne
<1> DEFINE S == { m \in Nat : m <= n => Keeps(upTo[m], texts, m) }
<1>2. 0 \in S
  <2>1. Keeps(<< >>, texts, 0)
    BY DEF Keeps
  <2> QED BY <1>1, <2>1
<1>3. ASSUME NEW m \in Nat, m \in S PROVE m + 1 \in S
  <2> SUFFICES ASSUME m + 1 <= n PROVE Keeps(upTo[m + 1], texts, m + 1)
    OBVIOUS
  <2>1. m <= n /\ m + 1 \in 1..n /\ (m + 1) - 1 = m
    OBVIOUS
  <2>2. Keeps(upTo[m], texts, m)
    BY <1>3, <2>1
  <2>3. upTo[m + 1] = AddCertificate(upTo[m], texts[m + 1])
    BY <1>1, <2>1
  <2> QED BY <2>1, <2>2, <2>3, KeepsMore
<1>4. n \in S
  <2> HIDE DEF S
  <2> QED BY <1>2, <1>3, SetInduction
<1> QED BY <1>1, <1>4

LEMMA TriplesInOrder ==
  ASSUME NEW a, NEW b, NEW c, NEW d, NEW e, NEW f,
         a < d \/ (a = d /\ b < e) \/ (a = d /\ b = e /\ c < f)
  PROVE  Before(<<a, b, c>>, <<d, e, f>>)
<1> DEFINE x == <<a, b, c>>
           y == <<d, e, f>>
<1>1. /\ 1 \in DOMAIN x /\ 2 \in DOMAIN x /\ 3 \in DOMAIN x
      /\ x[1] = a /\ x[2] = b /\ x[3] = c /\ y[1] = d /\ y[2] = e /\ y[3] = f
  OBVIOUS
<1>2. /\ \A k \in 1..(1 - 1) : FALSE
      /\ \A k \in 1..(2 - 1) : k = 1
      /\ \A k \in 1..(3 - 1) : k = 1 \/ k = 2
  OBVIOUS
<1> HIDE DEF x, y
<1>3. a < d => Before(x, y)
  BY <1>1, <1>2 DEF Before
<1>4. a = d /\ b < e => Before(x, y)
  BY <1>1, <1>2 DEF Before
<1>5. a = d /\ b = e /\ c < f => Before(x, y)
  <2> SUFFICES ASSUME a = d, b = e, c < f
               PROVE  \E m \in DOMAIN x : x[m] < y[m] /\ \A k \in 1..(m - 1) : x[k] = y[k]
    BY DEF Before
  <2>1. x[3] < y[3] /\ \A k \in 1..(3 - 1) : x[k] = y[k]
    BY <1>1, <1>2
  <2> QED BY <1>1, <2>1
<1>6. Before(x, y)
  BY <1>3, <1>4, <1>5
<1> QED BY <1>6 DEF x, y

(* at[p] is the place in the document of the p-th of its signing texts. *)
ListsTexts(texts, document, at) ==
  /\ \A p \in DOMAIN texts :
       at[p] \in SigningTexts(document) /\ texts[p] = TextAt(document, at[p])
  /\ \A x \in SigningTexts(document) : \E p \in DOMAIN texts : at[p] = x
  /\ \A p, q \in DOMAIN texts : p < q => Before(at[p], at[q])

LEMMA TextsAreListed ==
  ASSUME NEW document, IsMetadata(document)
  PROVE  \E n \in Nat :
           /\ DOMAIN CertificateTexts(document.roles) = 1..n
           /\ \E at : ListsTexts(CertificateTexts(document.roles), document, at)
<1> DEFINE roles == document.roles
           n == Len(roles)
           keySeqs == [i \in 1..n |-> roles[i].keys]
           keys == FlattenSeq(keySeqs)
           certificates(key) == IF key.use \in SigningUses THEN key.certificates ELSE << >>
           seqs == [i \in 1..Len(keys) |-> certificates(keys[i])]
           flat == FlattenSeq(seqs)
           texts == CertificateTexts(roles)
<1>1. /\ n \in Nat /\ DOMAIN roles = 1..n
      /\ \A i \in 1..n : /\ keySeqs[i] = roles[i].keys
                         /\ keySeqs[i] \in Seq(Range(keySeqs[i]))
                         /\ DOMAIN roles[i].keys = 1..Len(roles[i].keys)
  BY DEF IsMetadata, IsSequence
<1>2. \A i \in DOMAIN roles : \A j : j \in DOMAIN roles[i].keys =>
        LET key == roles[i].keys[j]
        IN  /\ key.certificates \in Seq(Range(key.certificates))
            /\ DOMAIN key.certificates = 1..Len(key.certificates)
  BY DEF IsMetadata, IsSequence
<1>3. /\ Len(keys) \in Nat /\ DOMAIN keys = 1..Len(keys)
      /\ \E row, col : Lists(keys, keySeqs, n, row, col)
  BY <1>1, FlattenedSequences
<1>4. PICK row, col : Lists(keys, keySeqs, n, row, col)
  BY <1>3
<1>5. ASSUME NEW p \in 1..Len(keys)
      PROVE  /\ row[p] \in DOMAIN roles /\ col[p] \in DOMAIN roles[row[p]].keys
             /\ keys[p] = roles[row[p]].keys[col[p]]
  BY <1>1, <1>4 DEF Lists
<1> HIDE DEF keys, keySeqs
<1>6. ASSUME NEW p \in 1..Len(keys)
      PROVE  seqs[p] = certificates(keys[p]) /\ seqs[p] \in Seq(Range(seqs[p]))
  <2>1. keys[p].certificates \in Seq(Range(keys[p].certificates))
    BY <1>2, <1>5
  <2>2. << >> \in Seq(Range(<< >>))
    OBVIOUS
  <2>3. seqs[p] = certificates(keys[p])
    OBVIOUS
  <2> HIDE DEF seqs
  <2> QED BY <2>1, <2>2, <2>3
<1>7. seqs = [i \in 1..Len(keys) |-> seqs[i]]
  OBVIOUS
<1> HIDE DEF seqs
<1>8. /\ Len(flat) \in Nat /\ DOMAIN flat = 1..Len(flat)
      /\ \E line, place : Lists(flat, seqs, Len(keys), line, place)
  BY <1>3, <1>6, <1>7, FlattenedSequences
<1>9. PICK line, place : Lists(flat, seqs, Len(keys), line, place)
  BY <1>8
<1>10. DOMAIN texts = 1..Len(flat) /\ \A p \in 1..Len(flat) : texts[p] = flat[p].text
  <2>1. texts = [i \in DOMAIN flat |-> flat[i].text]
    BY <1>1, <1>3 DEF CertificateTexts, seqs, keys, keySeqs
  <2> QED BY <1>8, <2>1
<1> HIDE DEF flat, texts, certificates
<1> DEFINE at == [p \in 1..Len(flat) |-> <<row[line[p]], col[line[p]], place[p]>>]
<1>11. ASSUME NEW p \in 1..Len(flat)
       PROVE  at[p] \in SigningTexts(document) /\ texts[p] = TextAt(document, at[p])
  <2>1. /\ line[p] \in 1..Len(keys) /\ place[p] \in 1..Len(seqs[line[p]])
        /\ flat[p] = seqs[line[p]][place[p]]
    BY <1>9 DEF Lists
  <2> DEFINE i == row[line[p]]
             j == col[line[p]]
             key == roles[i].keys[j]
  <2>2. i \in DOMAIN roles /\ j \in DOMAIN roles[i].keys /\ keys[line[p]] = key
    BY <1>5, <2>1
  <2>3. seqs[line[p]] = certificates(key)
    BY <1>6, <2>1, <2>2
  <2>4. /\ key.use \in SigningUses /\ place[p] \in DOMAIN key.certificates
        /\ flat[p] = key.certificates[place[p]]
    <3>1. CASE key.use \in SigningUses
      BY <1>2, <2>1, <2>2, <2>3, <3>1 DEF certificates
    <3>2. CASE key.use \notin SigningUses
      <4>1. Len(seqs[line[p]]) = 0
        BY <2>3, <3>2 DEF certificates
      <4> QED BY <2>1, <4>1
    <3> QED BY <3>1, <3>2
  <2>5. <<i, j, place[p]>> \in SigningTexts(document)
    <3>1. j \in { l \in DOMAIN roles[i].keys : roles[i].keys[l].use \in SigningUses }
      BY <2>2, <2>4
    <3> DEFINE Of(m, l) == { <<m, l, k>> : k \in DOMAIN roles[m].keys[l].certificates }
               In(m) == UNION { Of(m, l) : l \in
                          { h \in DOMAIN roles[m].keys : roles[m].keys[h].use \in SigningUses } }
    <3>2. <<i, j, place[p]>> \in Of(i, j)
      BY <2>4
    <3> HIDE DEF Of
    <3>3. <<i, j, place[p]>> \in In(i)
      BY <3>1, <3>2
    <3> HIDE DEF In
    <3>4. <<i, j, place[p]>> \in UNION { In(m) : m \in DOMAIN roles }
      BY <2>2, <3>3
    <3> QED BY <3>4 DEF SigningTexts, In, Of
  <2>6. TextAt(document, <<i, j, place[p]>>) = key.certificates[place[p]].text
    BY DEF TextAt
  <2> QED BY <1>10, <2>4, <2>5, <2>6
<1>12. ASSUME NEW x \in SigningTexts(document)
       PROVE  \E p \in 1..Len(flat) : at[p] = x
  <2>1. PICK i \in DOMAIN roles :
          x \in UNION { { <<i, j, k>> : k \in DOMAIN roles[i].keys[j].certificates } :
            j \in { j \in DOMAIN roles[i].keys : roles[i].keys[j].use \in SigningUses } }
    BY DEF SigningTexts
  <2>2. PICK j \in DOMAIN roles[i].keys :
          /\ roles[i].keys[j].use \in SigningUses
          /\ x \in { <<i, j, k>> : k \in DOMAIN roles[i].keys[j].certificates }
    BY <2>1
  <2>3. PICK k \in DOMAIN roles[i].keys[j].certificates : x = <<i, j, k>>
    BY <2>2
  <2>4. i \in 1..n /\ j \in 1..Len(keySeqs[i])
    BY <1>1
  <2>5. PICK q \in 1..Len(keys) : row[q] = i /\ col[q] = j
    BY <1>4, <2>4 DEF Lists
  <2>6. seqs[q] = roles[i].keys[j].certificates
    BY <1>5, <1>6, <2>2, <2>5 DEF certificates
  <2>7. k \in 1..Len(seqs[q])
    BY <1>2, <2>6
  <2>8. PICK p \in 1..Len(flat) : line[p] = q /\ place[p] = k
    BY <1>9, <2>7 DEF Lists
  <2> QED BY <2>3, <2>5, <2>8
<1>13. ASSUME NEW p \in 1..Len(flat), NEW q \in 1..Len(flat), p < q
       PROVE  Before(at[p], at[q])
  <2>1. line[p] < line[q] \/ (line[p] = line[q] /\ place[p] < place[q])
    BY <1>9, <1>13 DEF Lists
  <2>2. line[p] \in 1..Len(keys) /\ line[q] \in 1..Len(keys)
    BY <1>9 DEF Lists
  <2>3. line[p] < line[q] => \/ row[line[p]] < row[line[q]]
                             \/ row[line[p]] = row[line[q]] /\ col[line[p]] < col[line[q]]
    BY <1>4, <2>2 DEF Lists
  <2> QED BY <2>1, <2>3, TriplesInOrder
<1> HIDE DEF at
<1>14. ListsTexts(texts, document, at)
  BY <1>10, <1>11, <1>12, <1>13 DEF ListsTexts
<1> QED BY <1>8, <1>10, <1>14 DEF texts

(* The keys a provider trusts are those its IdP's own roles advertise for  *)
(* signing, once each, in document order.                                  *)
THEOREM TrustIsAdvertised == Spec => []TrustIsWhatTheRolesAdvertise
<1>1. ASSUME ProviderInv, provider # None PROVE TrustIsWhatTheRolesAdvertise
  <2> DEFINE document == config.idpMetadata
             texts == CertificateTexts(document.roles)
             trusted == provider.signingCertificates
             places == Certificates(document)
             of(text) == { place \in places : TextAt(document, place) = text }
  <2>1. IsMetadata(document) /\ provider = IdpDescriptor(document)
    BY <1>1, ProviderComesOf
  <2>2. PICK n \in Nat : DOMAIN texts = 1..n /\ \E at : ListsTexts(texts, document, at)
    BY <2>1, TextsAreListed
  <2>listed. PICK at : ListsTexts(texts, document, at)
    BY <2>2
  <2>3. Keeps(trusted, texts, n)
    <3>1. trusted = FoldLeft(AddCertificate, << >>, texts)
      BY <2>1 DEF IdpDescriptor, CollectSigningCertificates
    <3> QED BY <2>2, <3>1, CollectionKeeps
  <2> HIDE DEF document, texts, trusted
  <2>4. DOMAIN trusted = 1..Len(trusted)
    <3>1. trusted \in Seq(Range(texts))
      BY <2>3 DEF Keeps
    <3> QED BY <3>1
  <2>5. ASSUME NEW m \in 1..n, texts[m] # ""
        PROVE  at[m] \in places /\ TextAt(document, at[m]) = texts[m]
    BY <2>2, <2>listed, <2>5 DEF ListsTexts, Certificates
  <2>6. ASSUME NEW place \in places
        PROVE  \E m \in 1..n : at[m] = place /\ texts[m] = TextAt(document, place)
    <3>1. place \in SigningTexts(document)
      BY DEF Certificates
    <3>2. PICK m \in DOMAIN texts : at[m] = place
      BY <2>listed, <3>1 DEF ListsTexts
    <3>3. texts[m] = TextAt(document, place) /\ m \in 1..n
      BY <2>2, <2>listed, <3>2 DEF ListsTexts
    <3> QED BY <3>2, <3>3
  <2>7. ASSUME NEW i \in DOMAIN trusted
        PROVE  \E place \in places : TextAt(document, place) = trusted[i]
    <3>1. PICK m \in 1..n : texts[m] = trusted[i] /\ trusted[i] # ""
      BY <2>3, <2>4 DEF Keeps
    <3> QED BY <2>5, <3>1
  <2>8. ASSUME NEW place \in places
        PROVE  \E i \in DOMAIN trusted : trusted[i] = TextAt(document, place)
    <3>1. PICK m \in 1..n : texts[m] = TextAt(document, place)
      BY <2>6
    <3>2. texts[m] # ""
      BY <3>1 DEF Certificates
    <3> QED BY <2>3, <2>4, <3>1, <3>2 DEF Keeps
  <2>9. Range(trusted) = { TextAt(document, place) : place \in places }
    BY <2>7, <2>8 DEF Range
  <2>10. ASSUME NEW i \in DOMAIN trusted, NEW j \in DOMAIN trusted, i < j
         PROVE  \E x \in of(trusted[i]) : \A y \in of(trusted[j]) : Before(x, y)
    <3>1. PICK m \in 1..n : texts[m] = trusted[i]
                              /\ \A l \in 1..n : texts[l] = trusted[j] => m < l
      <4>1. i \in 1..Len(trusted) /\ j \in 1..Len(trusted) /\ i < j
        BY <2>4, <2>10
      <4>2. \A k, l \in 1..Len(trusted) : k < l =>
              \E m \in 1..n : texts[m] = trusted[k]
                              /\ \A h \in 1..n : texts[h] = trusted[l] => m < h
        BY <2>3 DEF Keeps
      <4> QED BY <4>1, <4>2
    <3>2. trusted[i] # ""
      BY <2>3, <2>4 DEF Keeps
    <3>3. at[m] \in of(trusted[i])
      BY <2>5, <3>1, <3>2
    <3>4. ASSUME NEW y \in of(trusted[j]) PROVE Before(at[m], y)
      <4>1. PICK l \in 1..n : at[l] = y /\ texts[l] = trusted[j]
        BY <2>6
      <4> QED BY <2>2, <2>listed, <3>1, <4>1 DEF ListsTexts
    <3> QED BY <3>3, <3>4
  <2> QED BY <2>9, <2>10 DEF TrustIsWhatTheRolesAdvertise, document, trusted
<1>2. ProviderInv => TrustIsWhatTheRolesAdvertise
  BY <1>1 DEF TrustIsWhatTheRolesAdvertise
<1> QED BY <1>2, ProviderInvariant, PTL

-----------------------------------------------------------------------------
(* The request                                                             *)

(* A location stays a URL when it is stripped. *)
LEMMA StrippedUrl ==
  ASSUME NEW url, IsUrl(url)
  PROVE  IsUrl(Stripped(url))
<1>1. /\ DOMAIN Stripped(url) = DOMAIN url
      /\ Stripped(url).kind = url.kind /\ Stripped(url).query = url.query
  BY DEF IsUrl, Stripped
<1> QED BY <1>1 DEF IsUrl

LEMMA EndpointIsUrl == ProviderInv /\ provider # None => IsUrl(provider.ssoUrl)
<1> SUFFICES ASSUME ProviderInv, provider # None PROVE IsUrl(provider.ssoUrl)
  OBVIOUS
<1>1. PICK at \in Advertised(config.idpMetadata) :
        provider.ssoUrl = Stripped(Endpoint(config.idpMetadata, at).location)
  BY BestEndpoint DEF BestEndpointIsChosen, Candidates
<1>2. IsMetadata(config.idpMetadata)
  BY ProviderComesOf
<1>3. IsUrl(Endpoint(config.idpMetadata, at).location)
  BY <1>1, <1>2 DEF IsMetadata, Advertised, Endpoint
<1> QED BY <1>1, <1>3, StrippedUrl

LEMMA OneAtMost ==
  /\ \A c : c \notin 1..Len(<< >>)
  /\ \A v, c : c \in 1..Len(<<v>>) => <<v>>[c] = v
<1>1. Len(<< >>) = 0 /\ \A v : Len(<<v>>) = 1 /\ <<v>>[1] = v
  OBVIOUS
<1>2. \A c : c \notin 1..0 /\ (c \in 1..1 => c = 1)
  OBVIOUS
<1> QED BY <1>1, <1>2

(* What is left of a destination's query has no name that was not in it    *)
(* with a value, and every parameter of it that has a value that decodes.  *)
LEMMA QueryKeepsNames ==
  ASSUME NEW url, IsUrl(url)
  PROVE  /\ ParseQsl(url.query) \in Seq(Range(ParseQsl(url.query)))
         /\ \A name : LeavesFree(url, name) =>
              \A p \in 1..Len(ParseQsl(url.query)) : ParseQsl(url.query)[p].name # name
         /\ \A i \in DOMAIN url.query : url.query[i].value # "" /\ url.query[i].utf8 =>
              \E p \in 1..Len(ParseQsl(url.query)) : ParseQsl(url.query)[p] = url.query[i]
<1> DEFINE query == url.query
           n == Len(query)
           seqs == [i \in 1..n |-> IF query[i].value = "" THEN << >> ELSE <<Reencoded(query[i])>>]
           parsed == ParseQsl(query)
<1>1. n \in Nat /\ DOMAIN query = 1..n
  BY DEF IsUrl, IsSequence
<1>2. parsed = FlattenSeq(seqs)
  BY <1>1 DEF ParseQsl
<1>3. ASSUME NEW i \in 1..n PROVE seqs[i] \in Seq(Range(seqs[i]))
  <2>1. << >> \in Seq(Range(<< >>))
    OBVIOUS
  <2>2. <<Reencoded(query[i])>> \in Seq(Range(<<Reencoded(query[i])>>))
    BY DEF Range
  <2> QED BY <2>1, <2>2
<1>4. /\ parsed \in Seq(Range(parsed))
      /\ \E row, col : Lists(parsed, seqs, n, row, col)
  BY <1>1, <1>2, <1>3, FlattenedSequences
<1>5. PICK row, col : Lists(parsed, seqs, n, row, col)
  BY <1>4
<1> HIDE DEF parsed
<1>6. ASSUME NEW name, LeavesFree(url, name), NEW p \in 1..Len(parsed)
      PROVE  parsed[p].name # name
  <2>1. /\ row[p] \in 1..n /\ col[p] \in 1..Len(seqs[row[p]])
        /\ parsed[p] = seqs[row[p]][col[p]]
    BY <1>5 DEF Lists
  <2> DEFINE parameter == query[row[p]]
  <2>2. seqs[row[p]] = IF parameter.value = "" THEN << >> ELSE <<Reencoded(parameter)>>
    BY <2>1
  <2> HIDE DEF seqs, parameter
  <2>3. parameter.value # ""
    BY <2>1, <2>2, OneAtMost
  <2>4. parsed[p] = Reencoded(parameter)
    BY <2>1, <2>2, <2>3, OneAtMost
  <2>5. Reencoded(parameter).name = parameter.name
    BY <1>1, <2>1 DEF Reencoded, IsUrl, parameter
  <2>6. parameter.name # name
    BY <1>1, <1>6, <2>1, <2>3 DEF LeavesFree, parameter
  <2> QED BY <2>4, <2>5, <2>6
<1>7. ASSUME NEW i \in DOMAIN query, query[i].value # "", query[i].utf8
      PROVE  \E p \in 1..Len(parsed) : parsed[p] = query[i]
  <2>1. i \in 1..n /\ seqs[i] = <<query[i]>>
    BY <1>1, <1>7 DEF Reencoded
  <2> HIDE DEF seqs
  <2>2. 1 \in 1..Len(seqs[i]) /\ seqs[i][1] = query[i]
    BY <2>1
  <2>3. PICK p \in 1..Len(parsed) : row[p] = i /\ col[p] = 1
    BY <1>5, <2>1, <2>2 DEF Lists
  <2> QED BY <1>5, <2>2, <2>3 DEF Lists
<1> QED BY <1>4, <1>6, <1>7 DEF parsed

(* The fields of a request behind what the destination has of its own: the *)
(* payload, and the relay state if there is one.                           *)
LEMMA FieldsOfRequest ==
  ASSUME NEW prefix, prefix \in Seq(Range(prefix)), NEW r, NEW deflated
  PROVE  LET fields == prefix \o <<Payload(r, deflated)>> \o RelayStateFields(r)
             k == Len(prefix)
         IN  /\ k \in Nat
             /\ DOMAIN fields = 1..(IF r.relayState = None THEN k + 1 ELSE k + 2)
             /\ \A p \in 1..k : fields[p] = prefix[p]
             /\ fields[k + 1] = Payload(r, deflated)
             /\ r.relayState # None => fields[k + 2] = Parameter("RelayState", r.relayState)
<1> DEFINE k == Len(prefix)
           payload == Payload(r, deflated)
           state == Parameter("RelayState", r.relayState)
           T == Range(prefix) \union {payload, state}
           front == prefix \o <<payload>>
           fields == front \o RelayStateFields(r)
<1>1. /\ RelayStateFields(r) = IF r.relayState = None THEN << >> ELSE <<state>>
      /\ payload \in T /\ state \in T
  BY DEF RelayStateFields
<1>2. prefix \in Seq(T) /\ k \in Nat
  <2>1. Range(prefix) \subseteq T
    OBVIOUS
  <2> HIDE DEF T
  <2> QED BY <2>1, SeqMonotonic
<1> HIDE DEF T, payload, state
<1>3. /\ front \in Seq(T) /\ Len(front) = k + 1 /\ front[k + 1] = payload
      /\ \A i \in 1..k : front[i] = prefix[i]
  BY <1>1, <1>2
<1> HIDE DEF front, k
<1>4. CASE r.relayState = None
  <2>1. RelayStateFields(r) = << >>
    BY <1>1, <1>4
  <2>2. fields = front
    BY <1>3, <2>1
  <2>3. DOMAIN front = 1..(k + 1)
    BY <1>3
  <2> HIDE DEF fields
  <2> QED BY <1>2, <1>3, <1>4, <2>2, <2>3 DEF fields, front, payload, state, k
<1>5. CASE r.relayState # None
  <2>1. RelayStateFields(r) = <<state>>
    BY <1>1, <1>5
  <2>2. <<state>> \in Seq(T) /\ Len(<<state>>) = 1 /\ <<state>>[1] = state
    BY <1>1
  <2>3. /\ DOMAIN fields = 1..((k + 1) + 1) /\ fields[(k + 1) + 1] = state
        /\ \A i \in 1..(k + 1) : fields[i] = front[i]
    BY <1>2, <1>3, <2>1, <2>2
  <2> HIDE DEF fields
  <2>4. \A i \in 1..k : i \in 1..(k + 1)
    BY <1>2
  <2>5. /\ DOMAIN fields = 1..(k + 2) /\ fields[k + 2] = state
        /\ fields[k + 1] = payload
        /\ \A i \in 1..k : fields[i] = prefix[i]
    <3>1. (k + 1) + 1 = k + 2 /\ k + 1 \in 1..(k + 1)
      BY <1>2
    <3> QED BY <1>3, <2>3, <2>4, <3>1
  <2> QED BY <1>2, <1>5, <2>5 DEF fields, front, payload, state, k
<1> QED BY <1>4, <1>5

(* The library's fields come last under their names, and are the only ones *)
(* if what is before them has other names.                                 *)
ComeLast(fields, prefix, r, deflated) ==
  /\ \E m \in LastPlace(fields, "SAMLRequest") :
       fields[m].value = [xml |-> r.xml, deflated |-> deflated]
  /\ r.relayState # None =>
       \E m \in LastPlace(fields, "RelayState") : fields[m].value = r.relayState
  /\ \A name \in {"SAMLRequest", "RelayState"} :
       (\A p \in 1..Len(prefix) : prefix[p].name # name) =>
         /\ Places(fields, name) = LastPlace(fields, name)
         /\ name = "RelayState" /\ r.relayState = None => Places(fields, name) = {}

LEMMA LibraryComesLast ==
  ASSUME NEW prefix, prefix \in Seq(Range(prefix)), NEW r, NEW deflated
  PROVE  ComeLast(prefix \o <<Payload(r, deflated)>> \o RelayStateFields(r),
                  prefix, r, deflated)
<1> DEFINE fields == prefix \o <<Payload(r, deflated)>> \o RelayStateFields(r)
           k == Len(prefix)
<1>1. /\ k \in Nat
      /\ DOMAIN fields = 1..(IF r.relayState = None THEN k + 1 ELSE k + 2)
      /\ \A p \in 1..k : fields[p] = prefix[p]
      /\ fields[k + 1] = Payload(r, deflated)
      /\ r.relayState # None => fields[k + 2] = Parameter("RelayState", r.relayState)
  BY FieldsOfRequest
<1> HIDE DEF fields, k
<1>2. /\ fields[k + 1].name = "SAMLRequest"
      /\ fields[k + 1].value = [xml |-> r.xml, deflated |-> deflated]
      /\ r.relayState # None =>
           fields[k + 2].name = "RelayState" /\ fields[k + 2].value = r.relayState
  BY <1>1 DEF Payload, Parameter
<1>3. /\ k + 1 \in DOMAIN fields
      /\ r.relayState # None => k + 2 \in DOMAIN fields
      /\ \A j \in DOMAIN fields : \/ j \in 1..k /\ fields[j] = prefix[j]
                                  \/ j = k + 1
                                  \/ j = k + 2 /\ r.relayState # None
  BY <1>1
<1>4. \A j \in Places(fields, "SAMLRequest") : j <= k + 1
  BY <1>1, <1>2, <1>3 DEF Places
<1>5. k + 1 \in LastPlace(fields, "SAMLRequest")
  BY <1>2, <1>3, <1>4 DEF LastPlace, Places
<1>6. ASSUME r.relayState # None PROVE k + 2 \in LastPlace(fields, "RelayState")
  <2>1. \A j \in Places(fields, "RelayState") : j <= k + 2
    BY <1>1, <1>3 DEF Places
  <2> QED BY <1>2, <1>3, <1>6, <2>1 DEF LastPlace, Places
<1>7. ASSUME NEW name \in {"SAMLRequest", "RelayState"},
             \A p \in 1..k : prefix[p].name # name
      PROVE  /\ Places(fields, name) = LastPlace(fields, name)
             /\ name = "RelayState" /\ r.relayState = None => Places(fields, name) = {}
  <2>1. \A j \in Places(fields, name) :
          IF name = "SAMLRequest" THEN j = k + 1 ELSE j = k + 2 /\ r.relayState # None
    BY <1>2, <1>3, <1>7 DEF Places
  <2>2. \A i, j \in Places(fields, name) : j <= i
    BY <1>1, <2>1
  <2> QED BY <2>1, <2>2 DEF LastPlace
<1> QED BY <1>2, <1>5, <1>6, <1>7 DEF fields, k, ComeLast

(* Both encodings of a request carry it as it was built to an IdP that can *)
(* answer it, behind whatever the endpoint's own query says.               *)
THEOREM RequestsArrive == Spec => []RequestArrivesAsBuilt
<1>1. ASSUME ProviderInv, request # None PROVE RequestArrivesAsBuilt
  <2> DEFINE url == request.destination
             parsed == ParseQsl(url.query)
  <2>1. PICK relayState \in RelayStates, hostTime \in HostTimes :
          /\ provider # None /\ reading \in Readings
          /\ request = BuildAuthnRequest(config, provider, relayState, reading, hostTime, FreshId)
    BY <1>1 DEF ProviderInv, Grounded
  <2>2. /\ request.requestId = FreshId /\ url = provider.ssoUrl
        /\ request.xml = AuthnRequestXml(config, provider, reading, hostTime, FreshId)
    BY <2>1 DEF BuildAuthnRequest
  <2>3. IsUrl(url)
    BY <1>1, <2>1, <2>2, EndpointIsUrl
  <2>4. /\ parsed \in Seq(Range(parsed))
        /\ \A name : LeavesFree(url, name) => \A p \in 1..Len(parsed) : parsed[p].name # name
    BY <2>3, QueryKeepsNames
  <2>5. RedirectUrl(request).query
          = parsed \o <<Payload(request, TRUE)>> \o RelayStateFields(request)
    BY <2>3 DEF RedirectUrl, IsUrl
  <2>6. RedirectUrl(request) = [url EXCEPT !.query = RedirectUrl(request).query]
    BY <2>3 DEF RedirectUrl, IsUrl
  <2>7. /\ request.xml.id = request.requestId
        /\ request.xml.destination = url /\ PostForm(request).action = url
        /\ Answerable(request.xml, GenerateSpMetadata(config))
    BY <2>2 DEF AuthnRequestXml, PostForm, Answerable, GenerateSpMetadata
  <2>8. KeepsParameters(url.query, RedirectUrl(request).query)
    <3> DEFINE said == url.query
               sent == RedirectUrl(request).query
    <3>1. Len(parsed) \in Nat /\ \A p \in 1..Len(parsed) : p \in DOMAIN sent /\ sent[p] = parsed[p]
      BY <2>4, <2>5, FieldsOfRequest
    <3>2. ASSUME NEW i \in DOMAIN said, said[i].value # "", said[i].utf8
          PROVE  \E j \in DOMAIN sent : sent[j].name = said[i].name /\ sent[j] = said[i]
      <4>1. PICK p \in 1..Len(parsed) : parsed[p] = said[i]
        BY <2>3, <3>2, QueryKeepsNames
      <4> QED BY <3>1, <4>1
    <3> QED BY <3>2 DEF KeepsParameters
  <2>9. ASSUME NEW deflated \in BOOLEAN
        PROVE  LET fields == Sent(request, deflated)
               IN  /\ \E m \in LastPlace(fields, "SAMLRequest") :
                        fields[m].value = [xml |-> request.xml, deflated |-> deflated]
                   /\ request.relayState # None =>
                        \E m \in LastPlace(fields, "RelayState") :
                          fields[m].value = request.relayState
                   /\ \A name \in {"SAMLRequest", "RelayState"} :
                        ~deflated \/ LeavesFree(url, name) =>
                          /\ Places(fields, name) = LastPlace(fields, name)
                          /\ name = "RelayState" /\ request.relayState = None =>
                               Places(fields, name) = {}
    <3>1. CASE deflated = TRUE
      <4>1. ComeLast(Sent(request, TRUE), parsed, request, TRUE)
        BY <2>4, <2>5, LibraryComesLast DEF Sent
      <4> QED BY <2>4, <3>1, <4>1 DEF ComeLast
    <3>2. CASE deflated = FALSE
      <4> DEFINE none == << >>
      <4>1. none \in Seq(Range(none)) /\ \A p \in 1..Len(none) : FALSE
        OBVIOUS
      <4>2. Sent(request, FALSE)
              = none \o <<Payload(request, FALSE)>> \o RelayStateFields(request)
        <5>1. \A x : none \o <<x>> = <<x>>
          OBVIOUS
        <5> QED BY <5>1 DEF Sent, PostForm
      <4> HIDE DEF none
      <4>3. ComeLast(Sent(request, FALSE), none, request, FALSE)
        BY <4>1, <4>2, LibraryComesLast
      <4> QED BY <3>2, <4>1, <4>3 DEF ComeLast
    <3> QED BY <3>1, <3>2
  <2> QED BY <2>6, <2>7, <2>8, <2>9 DEF RequestArrivesAsBuilt
<1>2. ProviderInv => RequestArrivesAsBuilt
  BY <1>1 DEF RequestArrivesAsBuilt
<1> QED BY <1>2, ProviderInvariant, PTL

(* A request is dated within the second its clock showed, whatever the     *)
(* host's clock and zone; at the epoch, where this fails, nothing is said. *)
THEOREM RequestsAreDated == Spec => []RequestIsDatedByItsClock
<1>1. ASSUME ProviderInv, request # None, reading.aware, reading.at # 0
      PROVE  /\ request.xml.issueInstant * Second <= reading.at
             /\ reading.at < (request.xml.issueInstant + 1) * Second
  <2>1. PICK relayState \in RelayStates, hostTime \in HostTimes :
          /\ reading \in Readings
          /\ request = BuildAuthnRequest(config, provider, relayState, reading, hostTime, FreshId)
    BY <1>1 DEF ProviderInv, Grounded
  <2>2. request.xml.issueInstant = reading.at \div Second
    BY <1>1, <2>1 DEF BuildAuthnRequest, AuthnRequestXml, Instant, Timestamp
  <2>3. reading.at \in Int /\ Second \in Nat \ {0}
    BY <2>1, RequestsAssumption, ReadingsAssumption
  <2>4. \A a \in Int, b \in Nat \ {0} : (a \div b) * b <= a /\ a < ((a \div b) + 1) * b
    OBVIOUS
  <2> QED BY <2>2, <2>3, <2>4
<1>2. ProviderInv => RequestIsDatedByItsClock
  BY <1>1 DEF RequestIsDatedByItsClock
<1> QED BY <1>2, ProviderInvariant, PTL

-----------------------------------------------------------------------------
(* What is refused                                                         *)

(* A service with a usable location and one of the two bindings keeps its  *)
(* binding among those that were found. *)
LEMMA CandidateIsFound ==
  ASSUME NEW document, IsMetadata(document), NEW x \in Candidates(document)
  PROVE  PreferredFound(Services(document.roles)) # 0
<1> DEFINE services == Services(document.roles)
           I == { i \in 1..Len(SsoBindingPreference) :
                    FirstUsable(services, SsoBindingPreference[i]) # {} }
<1>1. PICK at : ListsServices(services, document, at)
  BY ServicesAreListed
<1>2. Len(services) \in Nat /\ DOMAIN services = 1..Len(services)
  BY ServicesAreListed
<1> HIDE DEF services
<1>3. PICK q \in DOMAIN services : services[q] = Endpoint(document, x)
  BY <1>1 DEF ListsServices, Candidates
<1>4. IsUrl(Endpoint(document, x).location)
  BY DEF IsMetadata, Advertised, Endpoint, Candidates
<1>5. Offers(services[q], services[q].binding) /\ services[q].binding \in {"redirect", "post"}
  BY <1>3, <1>4, KindIsKept DEF Offers, Candidates
<1>6. FirstUsable(services, services[q].binding) # {}
  BY <1>2, <1>5, UsableIsFound
<1>7. I # {} /\ I \in SUBSET Nat /\ 0 \notin I
  BY <1>5, <1>6 DEF SsoBindingPreference
<1>8. PreferredFound(services) = Min(I)
  BY <1>7 DEF PreferredFound, SelectInSeq
<1> QED BY <1>7, <1>8, MinIsLeast DEF services

(* A certificate that is advertised is collected. *)
LEMMA CertificateIsCollected ==
  ASSUME NEW document, IsMetadata(document), NEW place \in Certificates(document)
  PROVE  CollectSigningCertificates(document) # << >>
<1> DEFINE texts == CertificateTexts(document.roles)
           collected == CollectSigningCertificates(document)
<1>1. PICK n \in Nat : DOMAIN texts = 1..n /\ \E at : ListsTexts(texts, document, at)
  BY TextsAreListed
<1>2. Keeps(collected, texts, n)
  BY <1>1, CollectionKeeps DEF CollectSigningCertificates
<1> HIDE DEF texts, collected
<1>3. PICK m \in 1..n : texts[m] # ""
  BY <1>1 DEF ListsTexts, Certificates
<1>4. PICK i \in 1..Len(collected) : collected[i] = texts[m]
  BY <1>2, <1>3 DEF Keeps
<1>5. collected # << >>
  BY <1>4, OneAtMost
<1> QED BY <1>5 DEF collected

(* A MetadataError is deserved. *)
LEMMA MetadataRefused ==
  ASSUME NEW document, IsMetadata(document), ProviderInit(document) = MetadataError
  PROVE  ~IsReadable(document) \/ Candidates(document) = {} \/ Certificates(document) = {}
<1>1. \/ ~document.wellFormed \/ document.entities \/ ~document.root
      \/ IsBlank(Stripped(document.entityId))
      \/ document.roles = << >>
      \/ PreferredFound(Services(document.roles)) = 0
      \/ CollectSigningCertificates(document) = << >>
  BY DEF ProviderInit, ParseIdpMetadata, ReadEntity, SelectSsoUrl, IdpPostInit,
         RequireWebUrl, Require, &&
<1>2. IsBlank(Stripped(document.entityId)) => IsBlank(document.entityId)
  BY DEF IsBlank, Stripped, IsMetadata
<1>3. document.roles = << >> => Candidates(document) = {}
  BY DEF Candidates, Advertised
<1> QED BY <1>1, <1>2, <1>3, CandidateIsFound, CertificateIsCollected DEF IsReadable

(* A ValueError comes of a location with credentials or one that cannot be *)
(* read. *)
LEMMA LocationRefused ==
  ASSUME NEW document, IsMetadata(document), ProviderInit(document) = ValueError
  PROVE  \E x \in Advertised(document) :
           Endpoint(document, x).location.kind \in {"userinfo", "unparsable"}
<1> DEFINE services == Services(document.roles)
           binding == SsoBindingPreference[PreferredFound(services)]
           p == CHOOSE i \in FirstUsable(services, binding) : TRUE
<1>1. \/ ParseRaises(services)
      \/ /\ PreferredFound(services) # 0
         /\ SelectedSsoUrl(document.roles).kind # "web"
  BY DEF ProviderInit, ParseIdpMetadata, ReadEntity, SelectSsoUrl, IdpPostInit,
         RequireWebUrl, Require, &&
<1>2. PICK at : ListsServices(services, document, at)
  BY ServicesAreListed
<1>3. SelectedSsoUrl(document.roles) = Stripped(services[p].location)
  BY DEF SelectedSsoUrl
<1>4. PreferredFound(services) # 0 => p \in FirstUsable(services, binding)
  BY PreferredBinding DEF SsoBindingPreference
<1> HIDE DEF services, binding, p
<1>5. CASE ParseRaises(services)
  <2>1. PICK q \in DOMAIN services : services[q].location.kind = "unparsable"
    BY <1>5 DEF ParseRaises
  <2> QED BY <1>2, <2>1 DEF ListsServices
<1>6. CASE /\ PreferredFound(services) # 0
           /\ SelectedSsoUrl(document.roles).kind # "web"
  <2>1. p \in DOMAIN services /\ IsHttpUrl(Stripped(services[p].location))
    BY <1>4, <1>6 DEF FirstUsable, Offers
  <2>2. at[p] \in Advertised(document) /\ services[p] = Endpoint(document, at[p])
    BY <1>2, <2>1 DEF ListsServices
  <2>3. IsUrl(services[p].location)
    BY <2>2 DEF IsMetadata, Advertised, Endpoint
  <2>4. services[p].location.kind = Stripped(services[p].location).kind
    BY <2>3 DEF IsUrl, Stripped
  <2> QED BY <1>3, <1>6, <2>1, <2>2, <2>4 DEF IsHttpUrl
<1> QED BY <1>1, <1>5, <1>6

(* No metadata is refused that would do. *)
THEOREM RefusalsAreEarned == Spec => []RefusalsAreDeserved
<1>1. ASSUME ProviderInv, config # None PROVE RefusalsAreDeserved
  <2>1. IsMetadata(config.idpMetadata)
    BY <1>1, SettingsAssumption DEF ProviderInv, Constructed, SamlConfig
  <2>2. outcome = MetadataError \/ outcome = ValueError
          => outcome = ProviderInit(config.idpMetadata)
    BY <1>1 DEF ProviderInv, Constructed
  <2> QED BY <2>1, <2>2, MetadataRefused, LocationRefused DEF RefusalsAreDeserved
<1>2. ProviderInv => RefusalsAreDeserved
  BY <1>1 DEF RefusalsAreDeserved
<1> QED BY <1>2, ProviderInvariant, PTL

=============================================================================
