------------------------------ MODULE MCBuild ------------------------------
(***************************************************************************)
(* The modules of the game server with the dependencies they declare in    *)
(* src/build/build_driver_impl.c.  Of the files of a module one stands for *)
(* all; the server has its driver beside it.                               *)
(***************************************************************************)
EXTENDS ModuleWalk

MCModule == {"game_server", "transport_protocol", "common", "debug", "game", "gfx"}

MCDependencies ==
  [game_server        |-> <<"transport_protocol", "common", "debug", "game">>,
   transport_protocol |-> <<"debug">>,
   common             |-> <<>>,
   debug              |-> <<"common">>,
   game               |-> <<"debug", "common", "gfx">>,
   gfx                |-> <<"debug">>]

MCFiles ==
  [game_server        |-> <<"game_server.c">>,
   transport_protocol |-> <<"tp.c">>,
   common             |-> <<"hash_map.c">>,
   debug              |-> <<"debug.c">>,
   game               |-> <<"game.cpp">>,
   gfx                |-> <<"gfx.c">>]
=============================================================================
