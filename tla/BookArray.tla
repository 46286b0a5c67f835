----------------------------- MODULE BookArray -----------------------------
(***************************************************************************)
(* The store of lab4: an array of MAX_AB contacts and their count.  The    *)
(* cell MAX_AB is the memory behind the array: add_abonent tests for one   *)
(* contact too many and does write there.                                  *)
(***************************************************************************)
EXTENDS Integers, Sequences

CONSTANTS Contacts, Blank, MAX_AB

VARIABLES my_abonent, count
arrayVars == <<my_abonent, count>>

Cells == 0..MAX_AB
ArrayInit == my_abonent = [i \in Cells |-> Blank] /\ count = 0

Refuses == count > MAX_AB
Behind == count = MAX_AB    \* the next contact is written behind the array

add_abonent(c) ==
    /\ ~Refuses
    /\ my_abonent' = [my_abonent EXCEPT ![count] = c]
    /\ count' = count + 1

InBook(index) == index \in 0..(count - 1)

\* the loop ends one contact too early
delete_abonent_bug(index) ==
    /\ InBook(index)
    /\ my_abonent' = [i \in Cells |-> IF i \in index..(count - 3) THEN my_abonent[i + 1] ELSE my_abonent[i]]
    /\ count' = count - 1
\* The contact is blanked and those above it move down; the last cell keeps a
\* copy of what moved, and is blank only if it was the one deleted.
delete_abonent(index) ==
    /\ InBook(index)
    /\ my_abonent' = [i \in Cells |->
                         IF i \in index..(count - 2) THEN my_abonent[i + 1]
                         ELSE IF i = index THEN Blank ELSE my_abonent[i]]
    /\ count' = count - 1

ArrayNext == (\E c \in Contacts : add_abonent(c)) \/ \E index \in Int : delete_abonent(index)
ArraySpec == ArrayInit /\ [][ArrayNext]_arrayVars

\* What show_list and search_name go through, from cell 0 to count - 1; they
\* print i + 1 as the number of cell i.
Listed == [k \in 1..count |-> my_abonent[k - 1]]
=============================================================================
