------------------------------ MODULE Messages ------------------------------
(***************************************************************************)
(* How a dashboard connection turns WebSocket frames into messages:        *)
(* `next_message` and `assemble` of crates/ezal-firmware/src/ws_receive.rs *)
(* and the loop of `run_session` in web.rs that calls them.  What the      *)
(* session makes of a message is Manual.tla's and Tracking.tla's.          *)
(*                                                                         *)
(* Payload bytes are known by the frame that carried them.  A text that is *)
(* not UTF-8 is refused as any invalid message is, and left out.  The peer *)
(* and picoserve's frame decoder are external: frames arrive in order, a   *)
(* first byte long before the rest perhaps, and the connection may be lost *)
(* at any time.  Time counts within one receive.                           *)
(***************************************************************************)
EXTENDS Naturals, Sequences, FiniteSets

CONSTANTS
  Frame,           \* the frames a peer sends
  MaxFrames,       \* bound: frames of a connection
  Buffer,          \* MESSAGE_BUFFER_SIZE
  ControlLimit,    \* 125
  MessageTimeout   \* MESSAGE_TIMEOUT

Opcode == {"text", "binary", "continue", "ping", "pong", "close", "reserved"}

ASSUME MessageConstants ==
  /\ Frame \subseteq [opcode : Opcode, final : BOOLEAN, length : Nat]
  /\ {MaxFrames, Buffer, ControlLimit, MessageTimeout} \subseteq Nat
  /\ ControlLimit <= Buffer

VARIABLES
  stage,     \* what the connection's task does, or how it ended
  arriving,  \* {}, or the frame whose first bytes were read
  read,      \* the frames read so far
  text,      \* assemble's `text`: {} or the opcode a message began with
  parts,     \* which frames its buffer holds
  used,      \* its `length`: how much of the buffer they take
  age,       \* the time since next_message was called
  heard,     \* the messages next_message returned, by their frames
  ponged     \* the Pings that were answered

vars == <<stage, arriving, read, text, parts, used, age, heard, ponged>>

Control == {"ping", "pong", "close", "reserved"}
Ended == {"closed", "refused", "late", "lost"}
Receiving == stage \in {"frame", "pong"}

Last == Len(read)

Init ==
  /\ stage = "frame" /\ arriving = {} /\ read = <<>>
  /\ text = {} /\ parts = {} /\ used = 0 /\ age = 0 /\ heard = <<>> /\ ponged = {}

-----------------------------------------------------------------------------
(* assemble.                                                               *)

\* Mutant of TelemetryMayCancel: the signal is given to every frame's read.
TelemetryCancelsAny == TRUE

\* The signal counts before the first byte of a receive, not afterwards.
TelemetryMayCancel == text = {}

Telemetry ==
  /\ stage = "frame" /\ arriving = {} /\ TelemetryMayCancel
  /\ stage' = "told" /\ text' = {} /\ parts' = {} /\ used' = 0
  /\ UNCHANGED <<arriving, read, age, heard, ponged>>

FirstByte ==
  /\ stage = "frame" /\ arriving = {} /\ Last < MaxFrames
  /\ \E f \in Frame : arriving' = {f}
  /\ UNCHANGED <<stage, read, text, parts, used, age, heard, ponged>>

Refuse == stage' = "refused" /\ UNCHANGED <<text, parts, used, heard>>

\* next_message returns.
Return(frames) ==
  /\ heard' = Append(heard, frames)
  /\ stage' = "heard" /\ text' = {} /\ parts' = {} /\ used' = 0

\* A Ping or Pong between the frames of a message.
Interleaved(f) == f.opcode \in {"ping", "pong"} /\ text # {}

TakeControl(f) ==
  IF ~f.final \/ f.length > ControlLimit \/ f.opcode = "reserved" THEN Refuse
  ELSE IF Interleaved(f)
    THEN /\ stage' = IF f.opcode = "ping" THEN "pong" ELSE "frame"
         /\ UNCHANGED <<text, parts, used, heard>>
    ELSE Return({Last + 1})

TakeData(f) ==
  LET begins == f.opcode # "continue"
      all == parts \cup {Last + 1}
      end == used + f.length
  IN  IF begins # (text = {}) \/ end > Buffer THEN Refuse
      ELSE IF f.final THEN Return(all)
      ELSE /\ text' = IF begins THEN {f.opcode} ELSE text
           /\ parts' = all /\ used' = end
           /\ UNCHANGED <<stage, heard>>

\* next_frame, with a frame buffer as long as the message's.
FrameArrives ==
  /\ stage = "frame" /\ arriving # {}
  /\ \E f \in arriving :
       /\ read' = Append(read, f)
       /\ IF f.length > Buffer THEN Refuse
          ELSE IF f.opcode \in Control THEN TakeControl(f) ELSE TakeData(f)
  /\ arriving' = {}
  /\ UNCHANGED <<age, ponged>>

PongSent ==
  /\ stage = "pong" /\ stage' = "frame"
  /\ ponged' = ponged \cup {Last}
  /\ UNCHANGED <<arriving, read, text, parts, used, age, heard>>

\* next_message's one deadline.
TimesOut ==
  /\ Receiving /\ age = MessageTimeout
  /\ stage' = "late"
  /\ UNCHANGED <<arriving, read, text, parts, used, age, heard, ponged>>

-----------------------------------------------------------------------------
(* run_session.                                                            *)

\* The next call of next_message.
Receive == stage' = "frame" /\ age' = 0

Handled ==
  \/ /\ stage = "told" /\ Receive /\ UNCHANGED ponged
  \/ /\ stage = "heard" /\ read[Last].opcode = "close"
     /\ stage' = "closed" /\ UNCHANGED <<age, ponged>>
  \/ /\ stage = "heard" /\ read[Last].opcode = "ping"
     /\ Receive /\ ponged' = ponged \cup {Last}
  \/ /\ stage = "heard" /\ read[Last].opcode \notin {"close", "ping"}
     /\ Receive /\ UNCHANGED ponged

HandlesEvent == Handled /\ UNCHANGED <<arriving, read, text, parts, used, heard>>

IsLost ==
  /\ stage \notin Ended /\ stage' = "lost"
  /\ UNCHANGED <<arriving, read, text, parts, used, age, heard, ponged>>

Tick ==
  /\ Receiving /\ age < MessageTimeout /\ age' = age + 1
  /\ UNCHANGED <<stage, arriving, read, text, parts, used, heard, ponged>>

Next ==
  \/ Telemetry \/ FirstByte \/ FrameArrives \/ PongSent \/ TimesOut
  \/ HandlesEvent \/ IsLost \/ Tick

Spec == Init /\ [][Next]_vars

-----------------------------------------------------------------------------
(* What the frames of a connection mean, as RFC 6455 has it.               *)

IsData(i) == read[i].opcode \notin Control
Frames == 1..Len(read)

\* The message that the first i frames leave open.
Open(i) == {j \in 1..i : IsData(j) /\ \A k \in j..i : IsData(k) => ~read[k].final}
Inside(i) == Open(i - 1) # {}

\* Frames lie in the buffer one after another, none over the next or the end.
Placed(frames, at, end) ==
  \A i \in frames : /\ at[i] + read[i].length <= end
                    /\ \A j \in frames : i < j => at[i] + read[i].length <= at[j]
Fits(frames) == \E at \in [frames -> 0..Buffer] : Placed(frames, at, Buffer)

Lawful(i) ==
  IF IsData(i)
    THEN /\ (read[i].opcode = "continue") <=> Inside(i)
         /\ Fits(Open(i - 1) \cup {i})
    ELSE /\ read[i].final /\ read[i].length <= ControlLimit /\ read[i].opcode # "reserved"

\* The frames that end a message: the last of data, or a control frame that
\* is not in the middle of one; a Close is heard wherever it comes.
Ends == {i \in Frames : IF IsData(i) THEN read[i].final
                        ELSE ~Inside(i) \/ read[i].opcode = "close"}
Said(i) == IF IsData(i) THEN Open(i - 1) \cup {i} ELSE {i}

Pings == {i \in Frames : read[i].opcode = "ping"}

\* Whatever fragments, interleaved control frames, telemetry ticks, slow bytes
\* and slow readers: while a connection lasts, the session has heard the
\* messages that were said, each whole, once and in order, and has answered
\* every Ping it is past; a receive begins where a message does and is never
\* older than MESSAGE_TIMEOUT; and a connection is refused only for a frame no
\* peer may send (next_message and run_session).
HearsWhatIsSaid ==
  /\ stage \notin Ended =>
       /\ heard = [n \in 1..Cardinality(Ends) |->
                     Said(CHOOSE i \in Ends : Cardinality({j \in Ends : j <= i}) = n)]
       /\ Pings \ ponged \subseteq IF stage = "frame" THEN {} ELSE {Last}
       /\ \A i \in Frames : Lawful(i)
  /\ stage = "told" => ~Inside(Last + 1)
  /\ Receiving => age <= MessageTimeout
  /\ stage = "refused" => ~Lawful(Last)
=============================================================================
