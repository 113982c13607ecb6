------------------------------- MODULE Tables -------------------------------
(***************************************************************************)
(* A transaction of the ORM over the tables: it reads them as they were at *)
(* its first statement (REPEATABLE READ), and its commit puts what it      *)
(* changed into the tables as they are then.                               *)
(***************************************************************************)
EXTENDS Naturals, Sequences

\* The columns that differ from what was loaded are written, no others.
Columns(cur, old, new) == [f \in DOMAIN cur |-> IF new[f] # old[f] THEN new[f] ELSE cur[f]]

Rows(cur, old, new) ==
    [k \in DOMAIN cur \cup DOMAIN new |->
        IF k \notin DOMAIN cur THEN new[k]
        ELSE IF k \in DOMAIN old THEN Columns(cur[k], old[k], new[k]) ELSE cur[k]]

\* A table whose rows are numbered as they are inserted.
NumberedRows(cur, old, new) ==
    Rows(cur, old, SubSeq(new, 1, Len(old))) \o SubSeq(new, Len(old) + 1, Len(new))

\* The table with a row under each of the keys that has none.
Inserted(table, keys, row) ==
    [k \in DOMAIN table \cup keys |-> IF k \in DOMAIN table THEN table[k] ELSE row]

\* A row that was inserted is nobody else's: the unique keys of a table.
KeysFree(cur, old, new) == (DOMAIN new \ DOMAIN old) \cap DOMAIN cur = {}

=============================================================================
