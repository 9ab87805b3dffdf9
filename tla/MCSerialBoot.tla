---------------------------- MODULE MCSerialBoot ----------------------------
(* Two words to load and the jump, an upload that is given up, and one whose *)
(* first command the board does not know; payloads of at most three bytes.   *)
EXTENDS SerialBoot

MCMagic == <<"z", "6", "I">>
Frame(cmd, length) == [cmd |-> cmd, payload_length |-> length]
MCUploads == {<<Frame("LOAD", 2), Frame("LOAD", 3), Frame("JUMP", 1)>>,
              <<Frame("LOAD", 2), Frame("ABORT", 1)>>,
              <<Frame("FLASH", 1), Frame("JUMP", 1)>>}
=============================================================================
