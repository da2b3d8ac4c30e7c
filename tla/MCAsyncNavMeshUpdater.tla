------------------------ MODULE MCAsyncNavMeshUpdater ------------------------
(* Instances of AsyncNavMeshUpdater for TLC. *)
EXTENDS AsyncNavMeshUpdater

OneTile == {<<0, 0>>}
TwoTiles == {<<0, 0>>, <<1, 0>>}
ThreeTiles == {<<0, 0>>, <<1, 0>>, <<2, 0>>}

\* Any player tile, any set of tiles, each with one of the given types.
Arguments(tiles, types) ==
    tiles \X UNION { { { <<u, f[u]>> : u \in S } : f \in [S -> types] } : S \in SUBSET tiles }
OneTileAdd == Arguments(OneTile, {2})
OneTileAddUpdate == Arguments(OneTile, {2, 3})
TwoTilesAdd == Arguments(TwoTiles, {2})
TwoTilesAddUpdate == Arguments(TwoTiles, {2, 3})

\* The player walks along three tiles, objects are added on the way: with two
\* slots the third tile does not fit until the first is removed.
Walk == { << <<0, 0>>, { << <<0, 0>>, 2>> } >>,
          << <<1, 0>>, { << <<0, 0>>, 2>>, << <<1, 0>>, 2>> } >>,
          << <<2, 0>>, { << <<0, 0>>, 2>>, << <<1, 0>>, 2>>, << <<2, 0>>, 2>> } >> }

\* The same with an object that moves in the second tile.
WalkUpdate == { << <<0, 0>>, { << <<0, 0>>, 2>> } >>,
                << <<1, 0>>, { << <<1, 0>>, 3>> } >>,
                << <<2, 0>>, { << <<1, 0>>, 3>>, << <<2, 0>>, 2>> } >> }

\* Nothing is loaded yet; everything is.
EmptyWorld == [u \in Tiles |-> NoMesh]
LoadedWorld == [u \in Tiles |-> [rev |-> 1, solid |-> TRUE]]

ThreadSymmetry == Permutations(Threads)

=============================================================================
