---------------------------- MODULE KeychainSearch ----------------------------
(***************************************************************************)
(* `ainv find`: KeychainProvider.search over the items the Keychain        *)
(* returns, in whatever order it returns them                              *)
(* (src/ainv/providers/keychain.py).                                       *)
(*                                                                         *)
(* A text is a number; the texts 2n and 2n + 1 differ only in case or      *)
(* composition, as a and A do, and order like n.  That one text is part of *)
(* another is abstracted to their being equal.                             *)
(***************************************************************************)
EXTENDS Sequences, SequencesExt, FiniteSets, Integers

CONSTANTS
    Texts,      \* what an item's fields may say: some naturals
    References, \* persistent references, in their order: some naturals
    NoText        \* a field the item does not have

ASSUME KeychainSearchAssumption ==
    Texts \subseteq Nat /\ References \subseteq Nat /\ NoText \notin Texts \cup References

(* Label, comment and type are one field: the query is looked for in all of them. *)
Item ==
    [ref : References \cup {NoText}, name : Texts \cup {NoText}, account : Texts \cup {NoText},
     label : Texts \cup {NoText}]

(* _normalized *)
Normalized(t) == IF t = NoText THEN -1 ELSE t \div 2

(* _metadata_from_attributes and _metadata_matches: an item without a persistent      *)
(* reference could not be selected later, and is no result.                           *)
Matches(item, query) ==
    /\ item.ref # NoText
    /\ \E t \in {item.name, item.account, item.label} \ {NoText} :
         Normalized(t) = Normalized(query)

(* Wrong on purpose: two items of one service and account come as the Keychain has them. *)
SortKeyOfIdentity(item) == <<Normalized(item.name), Normalized(item.account)>>

(* _metadata_sort_key *)
SortKey(item) == <<Normalized(item.name), Normalized(item.account), item.ref>>

Before(a, b) ==
    LET s == SortKey(a) t == SortKey(b)
    IN  \E i \in DOMAIN s : s[i] < t[i] /\ \A j \in 1..(i - 1) : s[j] = t[j]

(* list.sort is stable: items with one key stay as they came. *)
Sorted(items, found) ==
    LET Rank(i) ==
            Cardinality({j \in found : Before(items[j], items[i])})
              + Cardinality({j \in found : j <= i /\ ~Before(items[j], items[i])
                                          /\ ~Before(items[i], items[j])})
    IN  [k \in 1..Cardinality(found) |-> items[CHOOSE i \in found : Rank(i) = k]]

Matching(items, query) == {i \in DOMAIN items : Matches(items[i], query)}

(* KeychainProvider.search; a limit is between 1 and 100. *)
Search(items, query, limit) ==
    LET found == Sorted(items, Matching(items, query))
    IN  SubSeq(found, 1, IF Len(found) < limit THEN Len(found) ELSE limit)

(* The exit status of find_command *)
FindExit(items, query, limit) == IF Search(items, query, limit) = <<>> THEN "3" ELSE "0"

=============================================================================
