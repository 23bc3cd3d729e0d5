------------------------------- MODULE MC_Log -------------------------------
(* The log calls of log_test (src/examples/test/log_test.cpp), for a user  *)
(* string of 3, 515 or 600 characters (packed: 4, 517 or 602 bytes; the  *)
(* last two above max_stack_buffer_size), and one call                     *)
(* with three args, which log's variadic template also accepts.           *)
(* std::string("test") packs to 5 bytes, the int 20 to 4, an address to   *)
(* 20.                                                                     *)
EXTENDS Log

MCUserSizes == {4, 517, 602}

MCCalls ==
    UNION {{[name |-> u, data |-> 5, params |-> <<>>],
            [name |-> u, data |-> u, params |-> <<4>>],
            [name |-> u, data |-> u, params |-> <<4, 20>>],
            [name |-> u, data |-> u, params |-> <<4, 4, 20>>]} : u \in MCUserSizes}

MCTestCalls ==
    UNION {{[name |-> u, data |-> 5, params |-> <<>>],
            [name |-> u, data |-> u, params |-> <<4>>],
            [name |-> u, data |-> u, params |-> <<4, 20>>]} : u \in MCUserSizes}
=============================================================================
