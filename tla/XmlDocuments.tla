---------------------------- MODULE XmlDocuments ----------------------------
(***************************************************************************)
(* The part of an XML element tree that decides which element is which.    *)
(*                                                                         *)
(* A document is the sequence of its elements in document order, the root  *)
(* first.  doc[k].last is the position of the last element of k's subtree, *)
(* so a subtree is an interval, and a tree is a nest of intervals.         *)
(* doc[k].ids is the set of k's ID-like attributes, records                *)
(*   [attr, name, padded]                                                  *)
(* whose value is name, with white space around it when padded.            *)
(***************************************************************************)
EXTENDS Integers, Sequences

IsDocument(doc) ==
  /\ Len(doc) \in Nat \ {0}
  /\ DOMAIN doc = 1..Len(doc)
  /\ doc[1].last = Len(doc)
  /\ \A k \in DOMAIN doc : doc[k].last \in k..Len(doc)
  /\ \A j, k \in DOMAIN doc :
       j <= k /\ k <= doc[j].last => doc[k].last <= doc[j].last

(* element.iter(): the element and its descendants *)
Iter(doc, k) == k..doc[k].last

IsChild(doc, parent, k) ==
  /\ k \in Iter(doc, parent) \ {parent}
  /\ \A between \in (parent + 1)..(k - 1) : doc[between].last < k

(* element.findall(tag): the children with that tag *)
FindAll(doc, k, tag) == { c \in Iter(doc, k) : IsChild(doc, k, c) /\ doc[c].tag = tag }

(* [e for e in element.iter() if e.tag == tag] *)
Descendants(doc, k, tag) == { d \in Iter(doc, k) : doc[d].tag = tag }

(* len(elements) == 1, and the element of such a list *)
IsSingle(elements) == \E e \in elements : elements = {e}
TheOnly(elements) == CHOOSE e \in elements : elements = {e}

(* element.get(attr).strip(), or no value at all *)
Values(doc, k, attr) == { id.name : id \in { i \in doc[k].ids : i.attr = attr } }

=============================================================================
