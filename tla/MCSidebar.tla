----------------------------- MODULE MCSidebar -----------------------------
(* A sidebar and its siblings for TLC.                                     *)
EXTENDS Sidebar

CONSTANTS a, b, c

(* A session with a subagent, and one that comes and goes.                 *)
ListsValue == {<<a, c, b>>, <<b, a, c>>, <<a, c>>, <<>>}

QueriesValue == {{a, b, c}, {b}}
============================================================================
