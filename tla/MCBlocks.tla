------------------------------ MODULE MCBlocks ------------------------------
(***************************************************************************)
(* XpdkBlocks on a device of two blocks of two bytes, with 3 bits for the  *)
(* 32 of uint32_t: a request of 9 bytes is one of just over 4 GiB.         *)
(***************************************************************************)
EXTENDS XpdkBlocks

Ask(kind, async, off, iov, aligned) ==
    [kind |-> kind, async |-> async, off |-> off, iov |-> iov, aligned |-> aligned]

\* Offset and fragments: one block, part of two, across two, fragments.
Shapes == {<<0, <<2>>>>, <<0, <<3>>>>, <<1, <<2>>>>, <<0, <<1, 3>>>>, <<2, <<1, 1>>>>}
AsyncShapes == {<<0, <<2>>>>, <<0, <<3>>>>, <<0, <<1, 3>>>>}

MCRequests ==
    {Ask(k, FALSE, s[1], s[2], TRUE) : k \in {"READ", "WRITE"}, s \in Shapes}
    \cup {Ask(k, TRUE, s[1], s[2], TRUE) : k \in {"READ", "WRITE"}, s \in AsyncShapes}
    \cup {Ask("READ", a, 0, <<2>>, FALSE) : a \in BOOLEAN}
    \cup {Ask("TRIM", FALSE, 1, <<0>>, TRUE)}
    \cup {Ask("TRIM", FALSE, 0, <<2>>, TRUE), Ask("WRITE_ZEROS", FALSE, 0, <<3>>, TRUE)}
    \cup {Ask(k, FALSE, 0, <<9>>, TRUE) : k \in {"READ", "WRITE", "TRIM"}}
    \cup {Ask("TRIM", FALSE, 0, <<18>>, TRUE)}

=============================================================================
