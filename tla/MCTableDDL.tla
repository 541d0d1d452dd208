----------------------------- MODULE MCTableDDL -----------------------------
(* An instance of TableDDL for TLC: a connection of each cache scope. *)
EXTENDS TableDDL

CONSTANTS c1, c2

\* OR REPLACE and CASCADE; the other statements have no such form.
Forced == {"create view", "drop schema"}

\* Bound: other clients make one change, or two while tables and views are changed.
OnTable == {"query", "alter", "columns", "create table", "create view", "drop table"}
Small   == changes <= 1 \/ \A c \in Conn : s[c].do \in OnTable

SmallInit ==
  /\ Init /\ Small
  /\ \A c \in Conn : s[c].force => s[c].do \in Forced
SmallNext == Next /\ Small'
SmallSpec == SmallInit /\ [][SmallNext]_vars
=============================================================================
