------------------------------- MODULE MCXfs -------------------------------
(* A volume of six clusters of one sector: two FAT sectors of four         *)
(* entries, two directory entries or pieces of data in a sector.           *)
EXTENDS XfsVolume, TLC

Symmetry == Permutations(Handle)

(* Two states that differ in the number of calls alone have the same       *)
(* futures; the search meets the one with fewer calls first.               *)
View == <<disk, vol, file, cache, saved, health, alone, faults>>

Config(sectors, spc, reserved, fats, fatSize, root) ==
    [sectors |-> sectors, spc |-> spc, reserved |-> reserved, fats |-> fats,
     fatSize |-> fatSize, root |-> root]

Small == Config(9, 1, 1, 1, 0, 2)
Media == {Config(n, spc, reserved, fats, fatSize, root) :
            n \in 3 .. 14, spc \in 1 .. 2, reserved \in {0, 1, 2}, fats \in 1 .. 2,
            fatSize \in {0, 2}, root \in {2, 3}}

AFile(p, s) == [dir |-> FALSE, path |-> p, contents |-> s]
ADir(p) == [dir |-> TRUE, path |-> p, contents |-> <<>>]

Volumes ==
    {[cfg |-> Small,
      recipe |-> <<ADir(<<"d">>), AFile(<<"a">>, <<"x", "x", "x">>)>>],
     [cfg |-> Config(15, 2, 1, 1, 0, 3), recipe |-> <<AFile(<<"d">>, <<"x", "x", "x">>)>>]}

ThreePaths == {<<"a">>, <<"d">>, <<"d", "a">>}
Pieces == {<<"y">>, <<"y", "y", "y">>}
=============================================================================
