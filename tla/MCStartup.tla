----------------------------- MODULE MCStartup ------------------------------
(* Instances of Startup for TLC.                                           *)
EXTENDS StartupInv, SequencesExt

MCStoi ==
  [s \in {"-1", "0", "1", "2", "4", "10", "100", "1000"} |->
     CASE s = "-1" -> -1 [] s = "0" -> 0 [] s = "1" -> 1 [] s = "2" -> 2
       [] s = "4" -> 4 [] s = "10" -> 10 [] s = "100" -> 100
       [] s = "1000" -> 1000]
MCStod ==
  [s \in {"0", "0.0", "0.05", "0.5", "0.95"} |->
     CASE s = "0.05" -> 5 [] s = "0.5" -> 50 [] s = "0.95" -> 95 [] OTHER -> 0]
MCLower == [s \in {"True"} |-> "true"]

(* a: a good workload.  b: no operation count.  c: zipfian, which needs    *)
(* one.  d: a bool that is none.  e: a pattern of its own.  f: a mix with  *)
(* no operation.  g: values no string can hold.  h: too few records for    *)
(* the chooser.                                                            *)
MCFiles ==
  [f \in {"a.spec", "b.spec", "c.spec", "d.spec", "e.spec", "f.spec", "g.spec",
          "h.spec"} |->
     CASE f = "a.spec" -> [recordcount |-> "4", operationcount |-> "4",
                           requestdistribution |-> "zipfian",
                           insertproportion |-> "0.5", writeallfields |-> "True"]
       [] f = "b.spec" -> [recordcount |-> "4", requestdistribution |-> "latest"]
       [] f = "c.spec" -> [recordcount |-> "1", requestdistribution |-> "zipfian",
                           field_len_dist |-> "zipfian", fieldlength |-> "100"]
       [] f = "d.spec" -> [recordcount |-> "4", writeallfields |-> "maybe"]
       [] f = "e.spec" -> [recordcount |-> "4", pattern |-> "dump",
                           scanlengthdistribution |-> "zipfian"]
       [] f = "f.spec" -> [recordcount |-> "4", operationcount |-> "4",
                           readproportion |-> "0", updateproportion |-> "0"]
       [] f = "g.spec" -> [recordcount |-> "0", operationcount |-> "4",
                           fieldlength |-> "-1"]
       [] f = "h.spec" -> [recordcount |-> "1", operationcount |-> "0",
                           requestdistribution |-> "zipfian"]]

(* The .ini files of db_config: only leveldb_config.ini has maxFileSize.   *)
MCConfigs ==
  [f \in {"leveldb_config.ini", "rocksdb_config.ini"} |->
     IF f = "leveldb_config.ini" THEN ConfigKeys
     ELSE ConfigKeys \ {"maxFileSize"}]

(* What ParseCommandLine tells apart ...                                   *)
MCGroups ==
  { <<"load">>, <<"both">>, <<"-db", "basic">>, <<"-db", "redis">>,
    <<"-db", "rocksdb", "-dbPath", "d">>, <<"-dbConfig", "leveldb_config.ini">>,
    <<"-P", "a.spec">>, <<"-P", "d.spec">>, <<"-P", "e.spec">>,
    <<"-P", "absent.spec">>, <<"-threads", "x">>, <<"-x">>, <<"-d">> }

(* ... what the workload and the phases tell apart ...                     *)
MCGroupsRun ==
  { <<"load">>, <<"run">>, <<"both">>, <<"-P", "a.spec">>, <<"-P", "b.spec">>,
    <<"-P", "c.spec">>, <<"-P", "e.spec">>, <<"-P", "f.spec">>,
    <<"-P", "g.spec">>, <<"-P", "h.spec">>, <<"-threads", "0">>,
    <<"-threads", "-1">>, <<"-threads", "10">>, <<"-d", "1">> }

(* ... and what a database that can fail does.                             *)
MCGroupsDB ==
  { <<"load">>, <<"both">>, <<"-P", "a.spec">>, <<"-P", "b.spec">>,
    <<"-P", "f.spec">>, <<"-threads", "2">>,
    <<"-dbConfig", "rocksdb_config.ini">>, <<"-dbConfig", "leveldb_config.ini">> }

BasicOptions == <<"-db", "basic">>
RocksOptions == <<"-db", "rocksdb", "-dbPath", "d">>

(* Groups in any order, the same one several times too.                    *)
MCArgv ==
  { FlattenSeq(g) : g \in BoundedSeq(MCGroups, 3) } \cup
  { BasicOptions \o FlattenSeq(g) : g \in BoundedSeq(MCGroupsRun, 3) } \cup
  { RocksOptions \o FlattenSeq(g) : g \in BoundedSeq(MCGroupsDB, 4) }
=============================================================================
