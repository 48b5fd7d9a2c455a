----------------------------- MODULE MC_Launcher -----------------------------
(* Consoles with every way to be refused, launchers with and without         *)
(* modcrypt, with one area, two, and two that overlap, and frames with one   *)
(* key, a wrong key, two keys and none.                                      *)
EXTENDS Launcher

Area(s, n)      == [start |-> s, len |-> n]
Other           == [app |-> FALSE, modcrypt |-> FALSE, size |-> 1, areas |-> <<NoArea, NoArea>>]
App(n, m, x, y) == [app |-> TRUE, modcrypt |-> m, size |-> n, areas |-> <<x, y>>]
Launchers ==
  {App(4, FALSE, Area(1, 2), NoArea), App(0, FALSE, NoArea, NoArea),
   App(5, TRUE, Area(1, 2), Area(3, 2)), App(4, TRUE, NoArea, Area(2, 2)),
   App(5, TRUE, Area(1, 3), Area(2, 3)), App(3, TRUE, Area(1, 2), Area(1, 2))}
Console(v, m, folders, files) == [valid |-> v, mounts |-> m, folders |-> folders, files |-> files]
MCConsoles ==
  {Console(TRUE, TRUE, {3, 6}, <<Other, f>>) : f \in Launchers}
  \cup {Console(v, m, s, <<App(2, TRUE, Area(1, 1), NoArea), Other, App(3, FALSE, NoArea, NoArea)>>) :
          v \in BOOLEAN, m \in BOOLEAN, s \in {{}, {1, 4}, {4}, {5}, {5, 6}}}
  \cup {Console(TRUE, TRUE, {2}, <<Other>>), Console(TRUE, TRUE, {2}, <<>>)}

MCCode   == <<"up", "up", "down", "A">>
MCFrames == {{}, {"up"}, {"down"}, {"A"}, {"up", "A"}}
=============================================================================
