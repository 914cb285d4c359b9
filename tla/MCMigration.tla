---------------------------- MODULE MCMigration -----------------------------
(* Small instances of Migration for TLC, cut from the scripts of the        *)
(* repository.                                                              *)
EXTENDS Migration

CONSTANTS users, clients

B(kind, table) == [kind |-> kind, table |-> table]

TwoTables == {users, clients}

\* 202607111200_Create_All.sql, 202607141200_Fix_Admin_Password.sql and
\* 202607241000_Create_Clients_Clean.sql.
AllKinds ==
    << <<B("filled", users), B("table", clients)>>,
       <<B("update", users)>>,
       <<B("table", clients), B("rows", clients)>> >>
=============================================================================
