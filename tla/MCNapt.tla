------------------------------- MODULE MCNapt -------------------------------
(* Two slots and four flows: the table fills up, and entries of every class  *)
(* die while others live.                                                    *)
EXTENDS Napt

MCProto == [f \in Flow |-> CASE f \in {"s", "t"} -> "tcp" [] f = "u" -> "udp" [] f = "i" -> "icmp"]
MCTimeout == [c \in Classes |->
                CASE c = "established" -> 3 [] c = "half-open" -> 2 [] OTHER -> 1]
=============================================================================
