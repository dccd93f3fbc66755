------------------------------- MODULE MCSession -------------------------------
(* Two people, one of whom types the address and the password in two ways. *)
EXTENDS Session

MCAddresses == {"Ana", "ana", "eva", ""}
MCNormal == [a \in MCAddresses |-> IF a = "Ana" THEN "ana" ELSE a]
MCTyped == {[email |-> "Ana", password |-> "p1"], [email |-> "ana", password |-> "p2"],
            [email |-> "eva", password |-> "p2"],
            [email |-> "eva", password |-> "short"], [email |-> "", password |-> "p1"]}
===============================================================================
