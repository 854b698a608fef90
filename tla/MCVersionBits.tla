---------------------------- MODULE MCVersionBits ----------------------------
(* Blocks 0 to 6 in a row and a branch of three blocks off block 1, with   *)
(* periods of two blocks.                                                  *)
EXTENDS VersionBits

MCBlocks == 0..9
MCParent == [b \in MCBlocks |-> CASE b = 0 -> NoBlock [] b = 7 -> 1 [] OTHER -> b - 1]
MCOutdated == {6, 9}
AllButLast == MCBlocks \ {9}

(* The phases of the median time past at the ends of the periods, which    *)
(* are 1, 3 and 5 on the main chain and 8 on the branch.                   *)
Phases ==
    {1 :> p[1] @@ 3 :> p[2] @@ 5 :> p[3] @@ 8 :> p[4] :
        p \in {<<1, 1, 1, 1>>, <<0, 1, 1, 1>>, <<1, 1, 2, 2>>, <<1, 2, 2, 1>>, <<0, 0, 1, 2>>, <<2, 2, 2, 2>>}}

History(signal, t) ==
    [signal |-> [b \in MCBlocks |-> b \in signal],
     time |-> [b \in MCBlocks |->
                CASE b = 0 -> 0 [] b \in {1, 2, 7} -> t[1] [] b \in {3, 4} -> t[3]
                  [] b \in {5, 6} -> t[5] [] OTHER -> t[8]]]

(* Two blocks in a row signal on the main chain, in one period or across   *)
(* two, and the branch signals or not.                                     *)
MCHistories ==
    {History(main \cup branch, t) : main \in {{2, 3}, {3, 4}, {4, 5}}, branch \in {{}, {7, 8}}, t \in Phases}
=============================================================================
