---- MODULE MCDcSctpTransfer ----
EXTENDS DcSctpTransfer

Msg(st, fragments, unordered, max_rtx, lifetime) ==
  [stream |-> st, fragments |-> fragments, unordered |-> unordered,
   max_rtx |-> max_rtx, lifetime |-> lifetime]

Work(send, reset) == [send |-> send, reset |-> reset]

MCMessages ==
  <<Msg(1, 2, FALSE, 0, FALSE),   \* 1: fragments, given up when one is lost
    Msg(1, 1, FALSE, 9, TRUE),    \* 2: one fragment with a lifetime
    Msg(1, 2, TRUE, 9, FALSE),    \* 3: reliable, unordered
    Msg(1, 1, FALSE, 0, FALSE),   \* 4: given up when lost
    Msg(1, 1, FALSE, 9, FALSE),   \* 5: reliable
    Msg(1, 2, FALSE, 9, FALSE),   \* 6: reliable, fragments
    Msg(1, 2, FALSE, 9, TRUE)>>   \* 7: fragments with a lifetime

\* A limited message before one with a lifetime; unordered fragments after it; and
\* a stream that is reset between a limited message and a reliable one.
Transfers == {Work(<<1, 2>>, {}), Work(<<2, 3>>, {}), Work(<<4, 5>>, {1})}

\* Another stream is reset while the fragments of a limited message are under way.
OtherStreamReset == {Work(<<1, 6>>, {2})}

\* A message expires while its fragments are under way.
FragmentsExpire == {Work(<<7>>, {})}
====
