---------------------------- MODULE MCRunCommand ----------------------------
(***************************************************************************)
(* A page of 16 bytes and words of two, so that the vector fits with room, *)
(* fits exactly or does not fit, and strings fit or do not; names of files *)
(* that are longer, shorter, odd, not hex and too long; arguments that are *)
(* empty, quoted, cut and surplus.                                         *)
(***************************************************************************)
EXTENDS RunCommand

P1 == <<"p">>
R1 == <<"r">>
A1 == <<"a">>
P2 == <<"p", "p">>
P5 == <<"p", "p", "p", "p", "p">>
A7 == <<"a", "a", "a", "a", "a", "a", "a">>

MCFiles == P1 :> <<"A", "1">> @@ R1 :> <<"b", "2", "3", "C">> @@ A1 :> <<"4", "d", "g", "5">>
             @@ P2 :> <<"5", "E">> @@ P5 :> <<"0", "f">>
             @@ <<"p", "a">> :> <<"1", "2", "3">>
             @@ <<"a", "p">> :> <<"1", "2", "3", "4", "5", "6", "7">>

MCArgs == {<<>>, <<P1>>, <<R1, <<"a", "'", " ">>>>, <<P1, A7>>, <<P2, A7>>, <<A1>>,
           <<<<"p", "a">>>>, <<<<"a", "p">>>>, <<P1, <<>>, A1>>, <<P1, R1, <<>>, A1>>,
           <<P5, A7, A7>>, <<<<"r", "r">>>>}

MCMeanings == {[command |-> run, args |-> as] : as \in MCArgs}
                \cup {[command |-> selftest, args |-> <<>>]}

MCRun      == <<"r">>
MCSelftest == <<"a", "a">>
=============================================================================
