------------------------ MODULE MC_ContractRuntime ------------------------
EXTENDS ContractRuntime

CONSTANTS u1, x1, x2, bogus

\* One external user: the address book is keyed by the sender, and the call
\* contract's forwarded requests reach it with the contract as sender, so u1
\* and the call contract already give two distinct rows.
MCUsers == {u1}
MCArgs == {x1, x2}
MCBigArgs == {x2}
MCBogus == {bogus}
=============================================================================
