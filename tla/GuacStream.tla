----------------------------- MODULE GuacStream -----------------------------
(***************************************************************************)
(* Stream: the connection to guacd and the buffer in which ReadSome finds    *)
(* the next instruction, however the network cuts what guacd sends. The      *)
(* buffer is a slice of an array of 3 * MaxGuacMessage runes; returned        *)
(* instructions are cut off in front, and what is left moves back to the      *)
(* beginning of the array only when there is no room behind it.              *)
(***************************************************************************)
EXTENDS Instruction

CONSTANT MaxGuacMessage     \* bytes of one read of the network

ASSUME MessageAssumption == MaxGuacMessage \in Nat \ {0}

VARIABLES
  wire,        \* bytes guacd has sent and nobody has read
  buffer,      \* s.buffer, runes
  offset,      \* where s.buffer starts in the array
  parseStart,  \* runes of the buffer that were parsed before the last read
  call,        \* ReadSome: not called, running, or about to return
  got,         \* the instruction it returns
  failed,      \* it returns an error
  calm         \* a behaviour in which no connection breaks and nobody is late

streamVars == <<wire, buffer, offset, parseStart, call, got, failed, calm>>

Capacity == 3 * MaxGuacMessage

StreamTypeOK ==
  /\ wire \in Seq(Characters) /\ buffer \in Seq(Characters) /\ got \in Seq(Characters)
  /\ offset \in Nat /\ offset + Len(buffer) <= Capacity
  /\ parseStart \in 0..Len(buffer)
  /\ call \in {"none", "running", "returns"}
  /\ failed \in BOOLEAN /\ calm \in BOOLEAN

StreamInit ==
  /\ wire = <<>>
  /\ buffer = <<>> /\ offset = 0 /\ parseStart = 0
  /\ call = "none" /\ got = <<>> /\ failed = FALSE
  /\ calm \in BOOLEAN

Available == buffer # <<>>

Dot == DotAt(buffer, parseStart + 1)
Terminator == TerminatorAt(buffer, parseStart + 1)

\* The next element is in the buffer, with its terminator, or it is known to
\* be none.
Arrived ==
  /\ Dot <= Len(buffer)
  /\ buffer[Dot] = "." => Terminator <= Len(buffer)

TakeElement ==
  /\ call = "running" /\ Arrived
  /\ buffer[Dot] = "." /\ buffer[Terminator] = ","
  /\ parseStart' = Terminator
  /\ UNCHANGED <<wire, buffer, offset, call, got, failed, calm>>

\* A bug: parsing goes on where the last instruction ended.
TakeInstruction_NoRestart ==
  /\ call = "running" /\ Arrived
  /\ buffer[Dot] = "." /\ buffer[Terminator] = ";"
  /\ got' = SubSeq(buffer, 1, Terminator)
  /\ buffer' = SubSeq(buffer, Terminator + 1, Len(buffer))
  /\ offset' = offset + Terminator
  /\ call' = "returns"
  /\ UNCHANGED <<wire, parseStart, failed, calm>>

\* The instruction is complete and is cut off the buffer.
TakeInstruction ==
  /\ call = "running" /\ Arrived
  /\ buffer[Dot] = "." /\ buffer[Terminator] = ";"
  /\ got' = SubSeq(buffer, 1, Terminator)
  /\ buffer' = SubSeq(buffer, Terminator + 1, Len(buffer))
  /\ offset' = offset + Terminator
  /\ parseStart' = 0
  /\ call' = "returns"
  /\ UNCHANGED <<wire, failed, calm>>

\* No length, or no terminator, where one should be.
Refuse ==
  /\ call = "running" /\ Arrived
  /\ buffer[Dot] = "." => buffer[Terminator] \notin {",", ";"}
  /\ parseStart' = IF buffer[Dot] = "." THEN Terminator ELSE parseStart
  /\ failed' = TRUE
  /\ call' = "returns"
  /\ UNCHANGED <<wire, buffer, offset, got, calm>>

\* A bug: the buffer is not moved back.
ReadMore_NoFlush ==
  /\ call = "running" /\ ~Arrived
  /\ \E n \in 1..MaxGuacMessage :
       /\ n <= Len(wire)
       /\ wire' = SubSeq(wire, n + 1, Len(wire))
       /\ LET runes == Runes(SubSeq(wire, 1, n))
              room == Capacity - offset - Len(buffer)
          IN  buffer' = buffer \o SubSeq(runes, 1, IF room < Len(runes) THEN room ELSE Len(runes))
  /\ UNCHANGED <<offset, parseStart, call, got, failed, calm>>

\* A read of the network, up to MaxGuacMessage bytes. Flush moves the buffer
\* back when its room does not do; copy drops what does not fit even then.
ReadMore ==
  /\ call = "running" /\ ~Arrived
  /\ \E n \in 1..MaxGuacMessage :
       /\ n <= Len(wire)
       /\ wire' = SubSeq(wire, n + 1, Len(wire))
       /\ LET runes == Runes(SubSeq(wire, 1, n))
              fits == Len(runes) <= Capacity - offset - Len(buffer)
              room == Capacity - (IF fits THEN offset ELSE 0) - Len(buffer)
          IN  /\ offset' = IF fits THEN offset ELSE 0
              /\ buffer' = buffer \o SubSeq(runes, 1, IF fits THEN Len(runes)
                                                      ELSE Min({room, Len(runes)}))
  /\ UNCHANGED <<parseStart, call, got, failed, calm>>

\* A bug: the deadline is set only where an instruction has begun.
ReadFails_NoDeadline ==
  /\ call = "running" /\ ~Arrived
  /\ ~calm /\ Available
  /\ failed' = TRUE
  /\ call' = "returns"
  /\ UNCHANGED <<wire, buffer, offset, parseStart, got, calm>>

\* The deadline of 15 seconds, or the end of the connection.
ReadFails ==
  /\ call = "running" /\ ~Arrived
  /\ ~calm
  /\ failed' = TRUE
  /\ call' = "returns"
  /\ UNCHANGED <<wire, buffer, offset, parseStart, got, calm>>

ReadSomeStep == TakeElement \/ TakeInstruction \/ Refuse \/ ReadMore \/ ReadFails

(***************************************************************************)
(* What the stream is good for: instructions of one-byte characters, each    *)
(* with an opcode, and with a text that fits. (ReadSome reads as long as a     *)
(* rune is missing, so 2 * MaxGuacMessage runes may be in the buffer when a   *)
(* read brings MaxGuacMessage more.)                                         *)
(***************************************************************************)
Plain(ins) ==
  /\ ins \in Seq(Seq(OneByte)) /\ ins # <<>> /\ ins[1] # <<>>
  /\ Len(ProtocolText(ins)) <= 2 * MaxGuacMessage + 1

PlainLists == {list \in Seq(Seq(Seq(OneByte))) : \A i \in 1..Len(list) : Plain(list[i])}

=============================================================================
