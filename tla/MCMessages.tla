----------------------------- MODULE MCMessages -----------------------------
(* A connection whose peer sends whatever frames it likes, lawful or not:     *)
(* a buffer holds two units, a control frame one.                             *)
EXTENDS Messages

F(opcode, final, length) == [opcode |-> opcode, final |-> final, length |-> length]

AnyFrame ==
  {F("text", TRUE, 1), F("text", FALSE, 1), F("binary", FALSE, 1), F("text", FALSE, 3),
   F("continue", TRUE, 1), F("continue", FALSE, 1), F("continue", FALSE, 0),
   F("ping", TRUE, 1), F("ping", FALSE, 1), F("pong", TRUE, 1), F("pong", TRUE, 2),
   F("close", TRUE, 1), F("reserved", TRUE, 1)}
=============================================================================
