----------------------------- MODULE MCShmChat -----------------------------
(* Small instances of ShmChat with two clients. *)
EXTENDS ShmChat, TLC
CONSTANTS a, b, n1, n2

\* Users of whom one may pick the name of the other, and who never do.
OneOrOther == a :> {n1} @@ b :> {n1, n2}
OwnName    == a :> {n1} @@ b :> {n2}

\* With a name of its own each, the clients are interchangeable.
Swap == {a :> b @@ b :> a @@ n1 :> n2 @@ n2 :> n1}
=============================================================================
