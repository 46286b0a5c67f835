---------------------------- MODULE MCOneShot ----------------------------
EXTENDS OneShot, TLC
CONSTANTS a, b, c3
Some == {a :> "short" @@ b :> "long" @@ c3 :> "silent",
         a :> "short" @@ b :> "udp" @@ c3 :> "silent"}
=============================================================================
