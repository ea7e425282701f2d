---------------------------- MODULE MCResources ----------------------------
(* Two objects that map files and one handle more than they can hold.  Two    *)
(* tabs of one file, two other files on its base, and one on its own.         *)
EXTENDS Resources, TLC

CONSTANTS o1, o2, h1, h2, h3, h4, h5, h6, h7

MCObject == {o1, o2}
MCHandle == {h1, h2, h3, h4, h5, h6, h7}

MCDoc == 1..5
MCFileOf == <<"a", "a", "b", "c", "d">>
MCBaseOf == "a" :> 1 @@ "b" :> 1 @@ "c" :> 1 @@ "d" :> 2
TwiceFileOf == [d \in MCDoc |-> "a"]
TwiceBaseOf == "a" :> 1
=============================================================================
