----------------------------- MODULE PhoneBook -----------------------------
(***************************************************************************)
(* The phone books of lab4 (an array) and lab6 (a linked list): one menu   *)
(* loop, fed with lines by the user, over one of the two stores.  scanf    *)
(* and getchar read the answers to the menu and to "which number", input() *)
(* the fields of a contact and the name to search for.                     *)
(*                                                                         *)
(* A line is a number or a text, known by its length.  A text answer makes *)
(* scanf fail, which leaves the old value; getchar takes one character and *)
(* the rest of the line is what the next prompt reads.  A line that just   *)
(* fits a field leaves nothing for the loop of input() that drops what is  *)
(* too long: it drops the next line the user types.                        *)
(*                                                                         *)
(* A contact is known by how long its name is; its other fields take the   *)
(* same path.                                                              *)
(* What is printed is left out but for the numbers of the contacts, and so *)
(* is the end of the input.                                                *)
(*                                                                         *)
(* An operator with the suffix _bug is a seeded slip in the next one.      *)
(***************************************************************************)
EXTENDS Integers, Sequences, FiniteSets

CONSTANTS
    MAX_AB,         \* contacts in the array of lab4
    Nodes, NULL,    \* memory of lab6
    Width,          \* characters that a field keeps (8)
    Numbers         \* numbers the user may type

Number(n) == [text |-> FALSE, n |-> n]
Text(length) == [text |-> TRUE, n |-> length]
Lines == {Number(n) : n \in Numbers} \cup {Text(length) : length \in 0..(Width + 1)}
Length(l) == IF l.text THEN l.n ELSE 1
Blank == Text(-1)
Unset == -1
Contacts == {Text(length) : length \in 0..Width}

ASSUME PhoneBookAssumption ==
    /\ MAX_AB \in Nat \ {0} /\ IsFiniteSet(Nodes) /\ NULL \notin Nodes
    /\ Width \in Nat \ {0, 1} /\ Numbers \subseteq Nat

VARIABLES
    lab,            \* "lab4" or "lab6"
    prompt,         \* the prompt at which the program reads
    rest,           \* what is left of the last line, at most one
    swallow,        \* input() is dropping a line
    choice, index,  \* locals of main
    name,           \* of the contact being entered
    my_abonent,     \* lab4
    head, tail, heap, used, \* lab6
    count
local == <<choice, index, name>>
store == <<my_abonent, head, tail, heap, used, count>>
vars == <<lab, prompt, rest, swallow, local, store>>

Array == INSTANCE BookArray
List == INSTANCE BookList

\* choice is not initialized: any value.
Init ==
    /\ lab \in {"lab4", "lab6"} /\ prompt = "menu" /\ rest = <<>> /\ swallow = FALSE
    /\ choice \in Numbers /\ index = Unset /\ name = Blank
    /\ Array!ArrayInit /\ List!ListInit

----------------------------------------------------------------------------
(* Reading *)

\* The line that is read next: what was left of the last one, or a new one.
Input == IF rest = <<>> THEN Lines ELSE {rest[1]}

\* scanf skips an empty line; a text costs its first character.
Skips(l) == l = Text(0)
AfterScanf(l) == IF l.text THEN <<Text(l.n - 1)>> ELSE <<>>

\* input(): the field keeps Width characters.
Kept(l) == Text(IF Length(l) > Width THEN Width ELSE Length(l))
Fits(l) == Length(l) = Width

ReadField(l, next) == /\ ~swallow /\ rest' = <<>>
                      /\ swallow' = Fits(l)
                      /\ prompt' = next

Swallow == /\ swallow /\ swallow' = FALSE
           /\ \E l \in Input : rest' = <<>>
           /\ UNCHANGED <<lab, prompt, local, store>>

----------------------------------------------------------------------------
(* The menu *)

IsEmpty == IF lab = "lab4" THEN count = 0 ELSE head = NULL
Full == lab = "lab4" /\ Array!Refuses

Chosen(c) == CASE c = 1 -> IF Full THEN "menu" ELSE "name"
               [] c = 2 -> "index"
               [] c = 3 -> IF IsEmpty THEN "menu" ELSE "search"
               [] c = 5 -> "exit"
               [] OTHER -> "menu"

Skip == /\ prompt \in {"menu", "index"} /\ ~swallow
        /\ \E l \in Input : Skips(l) /\ rest' = <<>>
        /\ UNCHANGED <<lab, prompt, swallow, local, store>>

Menu ==
    /\ prompt = "menu" /\ ~swallow
    /\ \E l \in Input :
          /\ ~Skips(l)
          /\ choice' = IF l.text THEN choice ELSE l.n
          /\ rest' = AfterScanf(l)
          /\ prompt' = Chosen(choice')
    /\ index' = Unset
    /\ UNCHANGED <<lab, swallow, name, store>>

Name == /\ prompt = "name"
        /\ \E l \in Input : ReadField(l, "second_name") /\ name' = Kept(l)
        /\ UNCHANGED <<lab, choice, index, store>>

SecondName == /\ prompt = "second_name"
              /\ \E l \in Input : ReadField(l, "tel")
              /\ UNCHANGED <<lab, local, store>>

\* After the last field the contact is in the book.
AddArray == /\ Array!add_abonent(name)
            /\ UNCHANGED <<head, tail, heap, used>>
AddList == /\ List!add_abonent(name) \/ List!NoMemory
           /\ UNCHANGED my_abonent

Tel == /\ prompt = "tel"
       /\ \E l \in Input : ReadField(l, "menu")
       /\ IF lab = "lab4" THEN AddArray ELSE AddList
       /\ name' = Blank
       /\ UNCHANGED <<lab, choice, index>>

\* What lies behind the array of lab4 may be free, or other variables of main or
\* its return address: then what the program does is not followed any more.
Overwrite == /\ prompt = "tel" /\ ~swallow /\ lab = "lab4" /\ Array!Behind
             /\ prompt' = "undefined"
             /\ UNCHANGED <<lab, rest, swallow, local, store>>

\* search_name prints, and changes nothing.
Search == /\ prompt = "search"
          /\ \E l \in Input : ReadField(l, "menu")
          /\ UNCHANGED <<lab, local, store>>

\* the number that is shown is taken for an index (BookKept)
ToIndex_bug(n) == n
\* lab4 shows 1 for the first contact, lab6 shows 0.
ToIndex(n) == IF lab = "lab4" THEN n - 1 ELSE n
Shown(k) == IF lab = "lab4" THEN k ELSE k - 1

DeleteArray(i) == /\ Array!delete_abonent(i)
                  /\ UNCHANGED <<head, tail, heap, used>>
DeleteList(i) == /\ List!delete_abonent(i)
                 /\ UNCHANGED my_abonent
InBook(i) == IF lab = "lab4" THEN Array!InBook(i) ELSE List!InBook(i)

\* The variable index is a new one in each turn: without a number it may hold
\* anything.
Delete ==
    /\ prompt = "index" /\ ~swallow /\ prompt' = "menu"
    /\ \E l \in Input : /\ ~Skips(l) /\ rest' = AfterScanf(l)
                        /\ index' \in IF l.text THEN Numbers ELSE {l.n}
    /\ IF ~InBook(ToIndex(index')) THEN UNCHANGED store
       ELSE IF lab = "lab4" THEN DeleteArray(ToIndex(index'))
       ELSE DeleteList(ToIndex(index'))
    /\ UNCHANGED <<lab, swallow, choice, name>>

Next == Swallow \/ Skip \/ Menu \/ Name \/ SecondName \/ Tel \/ Overwrite \/ Search \/ Delete
Spec == Init /\ [][Next]_vars

----------------------------------------------------------------------------
(* Properties *)

\* The contacts that show_list goes through.
Listed == IF lab = "lab4" THEN Array!Listed ELSE List!Listed

\* Both stores implement the same book, whatever the user types: a contact is
\* added at the end, or the one that is shown with the number in index goes,
\* and all others stay as they are and in their order.
Book == INSTANCE AddressBook WITH contacts <- Listed
BookKept ==
    /\ Book!BookInit
    /\ [][\/ \E c \in Contacts : Book!Add(c)
          \/ \E k \in DOMAIN Listed : Shown(k) = index' /\ Book!Remove(k)]_Listed

\* The list of lab6 reads the same from both ends, and loses no node.
LinksAgree == lab = "lab6" => List!LinksAgree
=============================================================================
