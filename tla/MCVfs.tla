------------------------------- MODULE MCVfs -------------------------------
(***************************************************************************)
(* Three entries on three sectors.  As the code's entry 5, entry 1 has its *)
(* metadata and the first piece of its name on one sector and the rest on  *)
(* the next; as entry 10, entry 2 has a text that straddles two.           *)
(***************************************************************************)
EXTENDS VfsKept

MCFirst  == [i \in 0..2 |-> i \div 2]
MCText   == [i \in 0..2 |-> IF i = 0 THEN 0 ELSE 1]
MCLast   == [i \in 0..2 |-> i]

(* "p1" and "longer" have the first piece in common, and "longer" loses    *)
(* its end.                                                                *)
MCStored ==
  [n \in Names |->
     CASE n = "longer" -> [name |-> "p", rest |-> "2"]
       [] n = "p1" -> [name |-> "p", rest |-> "1"]
       [] OTHER -> [name |-> n, rest |-> ""]]
=============================================================================
