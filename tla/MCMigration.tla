---------------------------- MODULE MCMigration ----------------------------
\* An instance of Migration for TLC: an old table is empty or holds one row or two.
EXTENDS Migration

OldRow == [id |-> 1, key |-> "k", provider |-> 1, since |-> FALSE]

MCOldRows == {{}, {OldRow}, {OldRow, [OldRow EXCEPT !.id = 2, !.key = "l"]}}
MCModels == {1, 2}
=============================================================================
