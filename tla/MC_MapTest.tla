----------------------------- MODULE MC_MapTest -----------------------------
(* map_test's four tables, DEF_TABLE(int, int, t1, table1) to              *)
(* DEF_TABLE(key_st, value_st, t4, table4), with the keys and values its   *)
(* handlers use, and two sender addresses.                                 *)
EXTENDS MapTest

Addr(b) == [n \in 1..20 |-> IF n = 1 THEN b ELSE 0]
MCFroms == {Addr(1), Addr(2)}
MCSha == [a \in MCFroms |-> [n \in 1..32 |-> (a[1] * 7 + n) % 256]]

MCHandlers == {"test1", "test2", "test3", "test4"}
MCTables == {"table1", "table2", "table3", "table4"}

MCDecl ==
    [t \in MCTables |->
        CASE t = "table1" -> [name |-> "t1", kt |-> "int", vt |-> "int"]
          [] t = "table2" -> [name |-> "t2", kt |-> "int", vt |-> "uint64"]
          [] t = "table3" -> [name |-> "t3", kt |-> "address", vt |-> "checksum256"]
          [] t = "table4" -> [name |-> "t4", kt |-> "key_st", vt |-> "value_st"]]

MCKeys ==
    [t \in MCTables |->
        CASE t \in {"table1", "table2"} -> {1, 2}
          [] t = "table3" -> MCFroms
          [] t = "table4" -> {[i |-> 1, j |-> 1], [i |-> 2, j |-> 2]}]

MCVals ==
    [t \in MCTables |->
        CASE t \in {"table1", "table2"} -> {10, 20}
          [] t = "table3" -> {MCSha[a] : a \in MCFroms}
          [] t = "table4" -> {[v |-> Hello], [v |-> Hi]}]
=============================================================================
