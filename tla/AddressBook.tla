---------------------------- MODULE AddressBook ----------------------------
(***************************************************************************)
(* What the phone books of lab4 and lab6 promise: a list of contacts to    *)
(* which one is added at the end, or from which one is taken, the others   *)
(* staying as they are and in their order.                                 *)
(***************************************************************************)
EXTENDS Integers, Sequences

CONSTANT Contacts
VARIABLE contacts

Without(s, k) == [j \in 1..(Len(s) - 1) |-> IF j < k THEN s[j] ELSE s[j + 1]]

BookInit == contacts = <<>>
Add(c) == contacts' = Append(contacts, c)
Remove(k) == k \in DOMAIN contacts /\ contacts' = Without(contacts, k)

BookNext == (\E c \in Contacts : Add(c)) \/ \E k \in DOMAIN contacts : Remove(k)
BookSpec == BookInit /\ [][BookNext]_contacts
=============================================================================
