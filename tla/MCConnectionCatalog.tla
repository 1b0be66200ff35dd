------------------------- MODULE MCConnectionCatalog -------------------------
(***************************************************************************)
(* A small instance of ConnectionCatalog for TLC: a database with one      *)
(* schema and two tables, and a user without connections.                  *)
(***************************************************************************)
EXTENDS ConnectionCatalog

Objects == {<<"s1", "a">>, <<"s1", "b">>}
Views == {}

FirstInit == CatInit /\ \A k \in ConnId : conn[k] = NoConn
FirstSpec == FirstInit /\ [][CatNext]_catVars
=============================================================================
