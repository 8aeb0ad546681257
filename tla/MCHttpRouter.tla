---------------------------- MODULE MCHttpRouter ----------------------------
(***************************************************************************)
(* Routers with few patterns: literal ones, ones that name the same place  *)
(* differently, one whose {name} comes first, one with two {names}, one    *)
(* that ends in a {name}; paths that match several of them, that repeat a  *)
(* piece, or that have text before the first one; and queries with a / in  *)
(* them, of which one has the text a pattern looks for.                    *)
(***************************************************************************)
EXTENDS HttpRouter

Inner ==
  { <<"/", "dump", "/", "{x}", "/", "att">>,
    <<"/", "dump", "/", "{y}", "/", "att">>,
    <<"/", "dump", "/", "1", "/", "att">>,
    <<"/", "dump", "/", "entries">>,
    <<"/", "{x}", "/", "att">>,
    <<"/", "{x}", "/", "{y}">>,
    <<"/", "dump", "/", "{x}", "/", "att", "/", "{y}", "/", "entries">> }

Urls ==
  { <<"/", "dump", "/", "1", "/", "att">>,
    <<"/", "dump", "/", "2", "/", "att">>,
    <<"/", "dump", "/", "entries">>,
    <<"/", "1", "/", "dump", "/", "2", "/", "att">>,
    <<"/", "dump", "/", "att", "/", "att">>,
    <<"/", "dump", "/", "1", "/", "att", "/", "2", "/", "entries">>,
    <<"/", "dump", "/", "1">>,
    <<"/", "dump", "/">> }

Queries == { [kept |-> <<>>, params |-> <<>>],
             [kept |-> <<>>, params |-> << <<"{x}", "2">> >>],
             [kept |-> <<"?", "1", "/", "2">>, params |-> <<>>],
             [kept |-> <<"?", "1", "/", "att">>, params |-> << <<"{x}", "2">> >>] }
Plain == { [kept |-> <<>>, params |-> <<>>] }
=============================================================================
