------------------------------ MODULE MC_Table ------------------------------
(* The tables of map_test (src/examples/test/map_test.cpp), DEF_TABLE(int, *)
(* int, t1, table1) to DEF_TABLE(key_st, value_st, t4, table4), and a      *)
(* table keyed by std::string whose keys pack to 32 and 33 bytes, the two  *)
(* sides of MapKey's limit.  Strings and byte arrays are sequences of      *)
(* byte values.                                                            *)
EXTENDS Table

Addr1 == [n \in 1..20 |-> IF n = 1 THEN 1 ELSE 0]
Hash1 == [n \in 1..32 |-> n]
Hi == <<104, 105>>
Str(len) == [n \in 1..len |-> 97]

MCTables == {"table1", "table4", "table5"}

MCDecl ==
    [t \in MCTables |->
        CASE t = "table1" -> [name |-> "t1", kt |-> "int", vt |-> "int"]
          [] t = "table2" -> [name |-> "t2", kt |-> "int", vt |-> "uint64"]
          [] t = "table3" -> [name |-> "t3", kt |-> "address", vt |-> "checksum256"]
          [] t = "table4" -> [name |-> "t4", kt |-> "key_st", vt |-> "value_st"]
          [] t = "table5" -> [name |-> "t5", kt |-> "string", vt |-> "int"]]

MCKeys ==
    [t \in MCTables |->
        CASE t = "table1" -> {1, 2}
          [] t = "table2" -> {1}
          [] t = "table3" -> {Addr1}
          [] t = "table4" -> {[i |-> 1, j |-> 2]}
          [] t = "table5" -> {Str(31), Str(32)}]

MCVals ==
    [t \in MCTables |->
        CASE t = "table1" -> {10, 20}
          [] t = "table2" -> {10}
          [] t = "table3" -> {Hash1}
          [] t = "table4" -> {[v |-> Hi]}
          [] t = "table5" -> {7}]

(* Two table types with one name: table<name("t1"), int, int> and          *)
(* table<name("t1"), int, uint64_t>.                                       *)
MCCollideTables == {"table1", "table2"}
MCCollideDecl ==
    [t \in MCCollideTables |->
        IF t = "table1" THEN [name |-> "t1", kt |-> "int", vt |-> "int"]
                        ELSE [name |-> "t1", kt |-> "int", vt |-> "uint64"]]
MCCollideKeys == [t \in MCCollideTables |-> {1}]
MCCollideVals == [t \in MCCollideTables |-> {10}]
=============================================================================
