----------------------------- MODULE MCPageLoader -----------------------------
(***************************************************************************)
(* Two tables on two hosts.                                                *)
(***************************************************************************)
EXTENDS PageLoader

MCTables == {[db |-> <<"a">>, name |-> <<"b">>], [db |-> <<"a">>, name |-> <<"c">>]}
MCHosts  == {"h1", "h2"}

\* Table c of database a.b, and table b.c of database a.
DottedTables == {[db |-> <<"a", ".", "b">>, name |-> <<"c">>],
                 [db |-> <<"a">>, name |-> <<"b", ".", "c">>]}
=============================================================================
