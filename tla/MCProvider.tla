----------------------------- MODULE MCProvider -----------------------------
(***************************************************************************)
(* Model values for checking Provider: settings, metadata documents, clock *)
(* readings.  A second has two microseconds.                               *)
(***************************************************************************)
EXTENDS ProviderProperties

CONSTANT Stale  \* what an earlier request left in a query

Text(text) == [text |-> text, padded |-> FALSE]
Padded(value) == [value EXCEPT !.padded = TRUE]

Url(kind, name) ==
  [kind |-> kind, name |-> name, query |-> << >>, fragment |-> None, padded |-> FALSE]

-----------------------------------------------------------------------------
(* Metadata *)
Redirect(url) == [binding |-> "redirect", location |-> url]
Post(url) == [binding |-> "post", location |-> url]
Soap(url) == [binding |-> "soap", location |-> url]
NoBinding(url) == [binding |-> None, location |-> url]

Key(use, certificates) == [use |-> use, certificates |-> certificates]
Role(services, keys) == [services |-> services, keys |-> keys]

GoodRole == Role(<<Redirect(Url("web", "sso"))>>, <<Key("signing", <<Text("new")>>)>>)

GoodMetadata ==
  [markup |-> TRUE, wellFormed |-> TRUE, entities |-> FALSE, root |-> TRUE,
   entityId |-> Text("idp"), roles |-> <<GoodRole>>, nested |-> << >>]

SomeServices ==
  { Redirect(Url("web", "a")), Redirect(Padded(Url("web", "b"))), Post(Url("web", "c")),
    Redirect(Url("unsafe", "d")), Soap(Url("web", "e")), NoBinding(Url("web", "g")) }

OddServices ==
  { Redirect(Url("userinfo", "h")), Redirect(Url("unparsable", "i")),
    Soap(Url("unparsable", "j")), NoBinding(Url("unparsable", "k")) }

SomeKeys ==
  { Key("signing", <<Text("new"), Padded(Text("old"))>>), Key(None, <<Padded(Text("new"))>>),
    Key("", <<Text("")>>), Key("encryption", <<Text("other")>>) }

(* Up to two roles; three services or two keys in all, in any order *)
ServiceRoles ==
  { <<Role(<<x, y>>, GoodRole.keys), Role(<<z>>, GoodRole.keys)>> :
      x \in SomeServices, y \in SomeServices, z \in SomeServices }

OddServiceRoles ==
  { <<Role(<<x, y>>, GoodRole.keys)>> : x \in SomeServices \union OddServices, y \in OddServices }

KeyRoles ==
  { <<Role(GoodRole.services, <<x, y>>), Role(<< >>, <<z>>)>> :
      x \in SomeKeys, y \in SomeKeys, z \in SomeKeys }

Documents(roles) == { [GoodMetadata EXCEPT !.roles = r] : r \in roles }

OddDocuments ==
  { [GoodMetadata EXCEPT !.markup = FALSE], [GoodMetadata EXCEPT !.wellFormed = FALSE],
    [GoodMetadata EXCEPT !.entities = TRUE], [GoodMetadata EXCEPT !.root = FALSE],
    [GoodMetadata EXCEPT !.entityId = Padded(Text(""))],
    [GoodMetadata EXCEPT !.entityId = Padded(@)],
    [GoodMetadata EXCEPT !.roles = << >>],
    [GoodMetadata EXCEPT !.nested =
       <<Role(<<Redirect(Url("web", "n"))>>, <<Key("signing", <<Text("other")>>)>>)>>],
    [GoodMetadata EXCEPT !.roles = <<Role(<< >>, GoodRole.keys)>>],
    [GoodMetadata EXCEPT !.roles = <<Role(GoodRole.services, << >>)>>] }

(* Destinations with a query of their own *)
Query(parameters) ==
  [GoodMetadata EXCEPT !.roles =
    <<Role(<<Redirect([Url("web", "sso") EXCEPT !.query = parameters, !.fragment = "top"])>>,
           GoodRole.keys)>>]

TenantQuery == <<Parameter("tenant", "t1"), Parameter("SAMLRequests", "x")>>
OddQueries ==
  { TenantQuery, <<Parameter("SAMLRequest", Stale)>>,
    <<Parameter("flag", ""), Parameter("tenant", "t1")>>,
    <<[name |-> "tenant", value |-> "raw", utf8 |-> FALSE]>> }
TakenNames ==
  { <<Parameter("SAMLRequest", ""), Parameter("RelayState", "")>>,
    <<Parameter("RelayState", Stale)>> }
QueryDocuments == { Query(q) : q \in OddQueries \union TakenNames }

-----------------------------------------------------------------------------
(* Settings *)
GoodSettings ==
  [entityId |-> Text("sp"), acsUrl |-> Url("web", "acs"), idpMetadata |-> GoodMetadata,
   wantAssertionsSigned |-> TRUE, skew |-> 1, allowIdpInitiated |-> FALSE, decryptKey |-> None]

OddSettings ==
  { [GoodSettings EXCEPT !.entityId = t] : t \in {Text(""), Padded(Text("")), Padded(Text("sp"))} }
  \union { [GoodSettings EXCEPT !.acsUrl = u] : u \in
             { Url(kind, "acs") : kind \in {"userinfo", "unsafe", "unparsable"} }
             \union {Padded(Url("web", "acs"))} }
  \union { [GoodSettings EXCEPT !.skew = s] : s \in {-1, 0} }
  \union { [GoodSettings EXCEPT !.decryptKey = k] : k \in {Padded(Text("")), Text("key")} }
  \union { [GoodSettings EXCEPT !.wantAssertionsSigned = FALSE] }

With(documents) == { [GoodSettings EXCEPT !.idpMetadata = d] : d \in documents }

ManySettings ==
  OddSettings
  \union With(OddDocuments \union QueryDocuments
              \union Documents(ServiceRoles \union OddServiceRoles \union KeyRoles))

OddEndpointSettings == With(Documents(OddServiceRoles))
QuerySettings == With({Query(q) : q \in OddQueries})

-----------------------------------------------------------------------------
SomeRelayStates == {None, "state"}
NoRelayState == {None}
SomeReadings == [aware : BOOLEAN, at : -1..3]
SomeHostTimes == {-1, 4}
ManyReadings == [aware : BOOLEAN, at : 0..9]

=============================================================================
