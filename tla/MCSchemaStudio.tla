--------------------------- MODULE MCSchemaStudio ---------------------------
(***************************************************************************)
(* Small instances of SchemaStudio for TLC: two turns, so that one builds  *)
(* on, or starts during, the other, and one or two requests of the page.   *)
(***************************************************************************)
EXTENDS SchemaStudio

(* Turns differ in their names only, so the second one starts second. *)
CONSTANTS First, Second
InOrder == pc[Second] = "start" /\ pc'[Second] # "start" => pc[First] # "start"

(* Bounds: the generator returns SQL, seed data or both, both in the first *)
(* turn; the page edits one of them.                                       *)
SomeText ==
    \A r \in Run : pc[r] = "gen_sql" /\ pc'[r] = "sql_made" /\ mem[r].schema # None =>
        /\ Made(r, mem'[r].sql) \/ Made(r, mem'[r].seed)
        /\ r = First => Made(r, mem'[r].sql) /\ Made(r, mem'[r].seed)
OneText == ~ (ByUser(row'.sql) /\ ByUser(row'.seed))

StudioNext == Next /\ InOrder /\ SomeText /\ OneText
StudioSpec == Init /\ [][StudioNext]_vars /\ Fairness
=============================================================================
