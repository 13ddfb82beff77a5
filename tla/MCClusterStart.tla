---------------------------- MODULE MCClusterStart ----------------------------
(* The values TLC checks ClusterStart with. *)
EXTENDS ClusterStart

MCTables == <<"tsdb-uid", "tsdb", "vsms_callbackInfo">>

\* MySQL and the update manager share nothing with HBase here.
MCDatabase == {"mysql-server", "umanager"}
MCGroups == {Containers \ MCDatabase, MCDatabase}

=============================================================================
