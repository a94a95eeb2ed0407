--------------------------- MODULE MCConfigJournal ---------------------------
EXTENDS ConfigJournal

\* Two old-style configurations and what the migration makes of them.
CONSTANTS old1, old2, new1, new2

MCConfig   == {old1, old2, new1, new2}
MCMigrated == [c \in MCConfig |-> CASE c = old1 -> new1 [] c = old2 -> new2 [] OTHER -> c]
=============================================================================
