----------------------------- MODULE MCLifecycle -----------------------------
(* Lifecycle with every database an operator may have prepared.             *)
EXTENDS Lifecycle

\* Constraints, keys and rows are those of tables.
PreparedDatabases ==
    {d \in SUBSET Parts : d \cap {"constraints", "root", "email_key"} # {} => "tables" \in d}

EmptyDatabase == {{}}

=============================================================================
