------------------------------- MODULE MCBackup -------------------------------
EXTENDS BackupPublish
Put(k) == [action |-> "upsert", key |-> k]
Del(k) == [action |-> "delete", key |-> k]
Clear == [action |-> "clear"]
MCTransactions ==
  {<<Put(1), Del(2)>>, <<Put(2)>>, <<Clear, Put(2), Put(3)>>}
=============================================================================
