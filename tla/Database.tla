------------------------------ MODULE Database ------------------------------
(***************************************************************************)
(* What a foreign-key database answers to a statement and does about it,   *)
(* as far as the scenarios and prepare rely on it.  This is not code of    *)
(* the repository: the schema and the statements are its only source.      *)
(*                                                                         *)
(* A database is a function from the rows that exist to the sets of rows   *)
(* that they refer to.                                                     *)
(***************************************************************************)
EXTENDS Scenarios, Functions, SequencesExt, TLC

\* The foreign keys declared ON DELETE CASCADE.
Cascading == {<<"child_cascade", "parent_cascade">>, <<"withdrawal", "statement">>}

Children(db, row) == {child \in DOMAIN db : row \in db[child]}

Cascaded(db, row) ==
    {child \in Children(db, row) : <<child[1], row[1]>> \in Cascading}

\* The answer to statement st; "ok" is the only one that is no error.
AnswerTo(db, st) ==
    CASE st.op = "insert" /\ st.row \in DOMAIN db -> "duplicate"
      [] st.op = "insert" /\ ~(st.refs \subseteq DOMAIN db \cup {st.row}) -> "no parent"
      [] st.op = "rebind" /\ st.row \in DOMAIN db
                          /\ ~(st.refs \subseteq DOMAIN db) -> "no parent"
      [] st.op = "delete" /\ Children(db, st.row) # Cascaded(db, st.row) -> "referenced"
      [] st.op = "select" /\ st.row \notin DOMAIN db -> "no rows"
      [] OTHER -> "ok"

\* Faulty variant: a deleted parent leaves its cascading children behind.
RemovedWithoutCascade(db, st) == IF st.op = "delete" THEN {st.row} ELSE {}

\* Rows that the statement removes, and rows that it writes with their references.
Removed(db, st) == IF st.op = "delete" THEN {st.row} \cup Cascaded(db, st.row) ELSE {}

WrittenRows(db, st) ==
    IF st.op = "insert" \/ (st.op = "rebind" /\ st.row \in DOMAIN db) THEN {st.row} ELSE {}

Written(db, st) == [row \in WrittenRows(db, st) |-> st.refs]

\* The rows of over, and those of db that they do not cover: over @@ db.
Overlay(over, db) ==
    [row \in DOMAIN over \cup DOMAIN db |-> IF row \in DOMAIN over THEN over[row] ELSE db[row]]

Without(db, rows) == Restrict(db, DOMAIN db \ rows)

\* The rows after statement st.
After(db, st) == Overlay(Written(db, st), Without(db, Removed(db, st)))

\* INSERT ... ON DUPLICATE KEY UPDATE of a set of rows.
UpsertAnswer(db, rows) ==
    IF \A r \in rows : r.refs \subseteq DOMAIN db \cup {q.row : q \in rows}
    THEN "ok" ELSE "no parent"

Upserted(db, rows) ==
    Overlay([row \in {r.row : r \in rows} |-> (CHOOSE r \in rows : r.row = row).refs], db)

Empty == << >>

FixtureRows(n, h) == UNION Range(FixtureStatements(n, h))

\* The database that prepare leaves when it starts from an empty one: no two of its
\* statements write the same row, so their order leaves no trace.
Prepared(n, h) == Upserted(Empty, FixtureRows(n, h))
=============================================================================
