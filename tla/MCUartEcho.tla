----------------------------- MODULE MCUartEcho -----------------------------
(* Two-bit bytes at two clocks a tick, so that a bit lasts 32 clocks; the    *)
(* configuration lets the peer's bits last 30 or 36.                         *)
EXTENDS UartEcho

MCSent == {<<0, 1>>, <<1, 0>>}
MCPrompt == <<1, 1>>
=============================================================================
