------------------------------ MODULE MCPortal -------------------------------
(***************************************************************************)
(* Instance of Portal: user names around both bounds on their length, of   *)
(* letters alone, and with characters that are dropped in between.         *)
(***************************************************************************)
EXTENDS Portal

MCLetter == {"p", "o", "r", "t", "a", "l"}
MCLength == {0, 1, 2, 64, 65, 130}
MCRaw == {[i \in 1..n |-> "a"] : n \in MCLength}
         \cup {[i \in 1..n |-> IF i % 2 = 0 THEN c ELSE "a"] : n \in MCLength, c \in {"+", "/"}}

=============================================================================
