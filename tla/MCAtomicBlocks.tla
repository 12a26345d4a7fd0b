--------------------------- MODULE MCAtomicBlocks ---------------------------
\* Main and an interrupt handler, words of one bit, and operations that tell a
\* torn object from a whole one.
EXTENDS AtomicBlocks

Bits == {0, 1}

MCPlus(a, b) ==
  LET low == a[1] + b[1] IN <<low % 2, (a[2] + b[2] + low \div 2) % 2>>

Request(op, expected, value) == [op |-> op, expected |-> expected, value |-> value]

MCRequests ==
  { Request("load", <<0, 0>>, <<0, 0>>),
    Request("store", <<0, 0>>, <<0, 0>>),
    Request("store", <<0, 0>>, <<1, 0>>),
    Request("exchange", <<0, 0>>, <<1, 1>>),
    Request("compare_exchange", <<0, 0>>, <<1, 1>>),
    Request("compare_exchange", <<1, 1>>, <<0, 1>>),
    Request("fetch_add", <<0, 0>>, <<1, 0>>) }
=============================================================================
